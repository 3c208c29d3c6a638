SPECIFICATION SuiteSpec
CONSTANTS
  Modulus = 16
  Capacity = 3
  InitialSequence = 14
  MaxFragments = 2
  MaxMessages = 2
  MaxTime = 2
  MaxSkip = 1
  TTLs = {1}
  MinimumRepeats = {1}
  DropAfter = 1
INVARIANTS
  BookkeepingExact
  CursorSplitsWindow
  FirstSendTimesGrow
  
PROPERTIES
  AbandonsWholeMessages
  RepeatsServed
CHECK_DEADLOCK FALSE
