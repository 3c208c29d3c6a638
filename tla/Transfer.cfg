SPECIFICATION SuiteSpec
CHECK_DEADLOCK FALSE
CONSTANTS
    Scenarios = {"transfer", "complete", "replies", "losses"}
    Total = 3
    ReceiveCapacity = 2
    Lossy = TRUE
    Repeating = TRUE
    LiteInterval = 1
    MaxAcks = 2
INVARIANTS
    ReleasedIsHeld
    WindowRespected
    FeedbackAcceptable
PROPERTIES
    
    RepliesExact
    
