SPECIFICATION SuiteSpec
CONSTANTS
    Scenarios = {"routes", "connection", "lingering", "listener"}
    p = p
    q = q
    Sensor = FALSE
    Callers = {1, 2}
    Listeners = {}
    Accepted = {}
    Linger <- Lingering
    Payload <- Storage
    Channel <- TwoChannels
    Threads = {p, q}
    Worker = w
    close_limit_ = 2
    payload_limit_ = 2
    maximum_retired_channels = 1
    MaxStarts = 0
    MaxGenerations = 2
SYMMETRY Symmetry
INVARIANTS
    RoutesSound
    LifecycleSound

    
CHECK_DEADLOCK FALSE
