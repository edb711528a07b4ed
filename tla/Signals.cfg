SPECIFICATION SignalsSpec
CONSTANTS
  N = 2
  Grace = 3
  Term = 2
  Kill = 1
  Floor = 1
  MaxSignals = 3
  CleanupFaults = {"raise", "hang"}
  Daemons = {1}
INVARIANTS
  Bounded
  CleanupOnce
  NoOrphans
PROPERTIES
  NoEarlySignal
  FirstSignalEnds
  CleanupInterruptible
CHECK_DEADLOCK FALSE
