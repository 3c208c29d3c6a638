SPECIFICATION Spec
CHECK_DEADLOCK FALSE
CONSTANTS
    Scenarios = {"live", "naks", "drops", "fec"}
INVARIANTS
    
    FeedbackServed
    FecSound
