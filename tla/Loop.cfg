SPECIFICATION FairSpec
CONSTANTS
  Interval = 4
  Retries = 2
  MaxItems = 9
INVARIANTS
  BurstBounded
  NeverUnsynced
PROPERTIES
  StopEndsLoop
CHECK_DEADLOCK FALSE
