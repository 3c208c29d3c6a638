SPECIFICATION Spec
CONSTANTS
    Scenarios = {"rendezvous", "rotation"}
    PeerPairs <- Pairs
INVARIANT
    RendezvousSound
PROPERTIES
    
    RendezvousEnds
    RotationsComplete
CHECK_DEADLOCK FALSE
