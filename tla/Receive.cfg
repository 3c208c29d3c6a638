SPECIFICATION SuiteSpec
CONSTANTS
    Modulus = 32
    InitialSequence = 30
    Scenarios <- AllModes
    RepairDelay = 1
    MaxTime = 2
    Parts = {"buffer", "slot", "pair", "credits"}
INVARIANTS
    RingSound
    AckExact
    
    AffinitySound
    CreditsSound
