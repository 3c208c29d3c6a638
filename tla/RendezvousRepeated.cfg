SPECIFICATION Spec
CONSTANTS
    Scenarios = {"rendezvous"}
    PeerPairs <- OptionalPairs
INVARIANT
    RepetitionTolerated
CHECK_DEADLOCK FALSE
