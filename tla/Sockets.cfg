SPECIFICATION SuiteSpec
CONSTANTS
    Scenarios = {"listener", "epoll"}
    c1 = c1
    c2 = c2
    NoCaller = NoCaller
    Callers <- TwoCallers
    Authentication = {TRUE, FALSE}
    AcceptCapacity = 1
    InboxCapacity = 2
    ResultCapacity = 2
    MaxSockets = 2
    MaxPackets = 2
    MaxRetries = 1
    Expiring = TRUE
SYMMETRY Symmetry

    
PROPERTY
    AcceptsSound
CHECK_DEADLOCK FALSE
