SPECIFICATION SuiteSpec
CONSTANTS
    Scenarios = {"listener"}
    c1 = c1
    c2 = c2
    NoCaller = NoCaller
    Callers <- OneCaller
    Authentication = {FALSE}
    AcceptCapacity = 1
    InboxCapacity = 2
    ResultCapacity = 2
    MaxSockets = 2
    MaxPackets = 2
    MaxRetries = 1
    Expiring = FALSE
PROPERTY
    SetupKept
CHECK_DEADLOCK FALSE
