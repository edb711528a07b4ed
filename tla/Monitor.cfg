SPECIFICATION FairSpec
CONSTANTS
  N = 4
  Threads = {1}
  Wired = {1}
  Critical = {1, 2}
  Producers = {2, 3, 4}
  Restartable = {2, 3}
  MaxRestarts <- Budgets
  Unstarted = {4}
  RequireProducers = TRUE
  Faults = {"clean", "crash", "oom", "none", "raise", "stop"}
  Nobody = Nobody
INVARIANTS
  OomIsRaised
  VerdictsStand
  OneLateRespawn
PROPERTIES
  CriticalDeathEnds
  StopEndsWatch
CHECK_DEADLOCK FALSE
