SPECIFICATION SuiteSpec
CONSTANTS
    Scenarios = {"shard", "readiness", "channel"}
    j1 = j1
    k1 = k1
    k2 = k2
    Nobody = Nobody
    Runtimes = {r1, r2}
    MaxPolls = 1
    MaxReceives = 1
    MaxDatagrams = 1
    MaxNotifiers = 1
SYMMETRY Symmetry
INVARIANTS
    ShardSound
    WatchesSound
    OneContinuation
    WorkIsPrompt
CHECK_DEADLOCK FALSE
