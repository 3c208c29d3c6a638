SPECIFICATION Spec
CONSTANT
    Scenarios = {"handshake", "actor"}
INVARIANTS
    HandshakeSound
    ActorSound
PROPERTIES
    AttemptsEnd
    ConnectEnds
CHECK_DEADLOCK FALSE
