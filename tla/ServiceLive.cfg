SPECIFICATION FairSpec
CONSTANTS
  w1 = w1
  w2 = w2
  None = None
  Callers = {w1, w2}
  Clients = {w1, w2}
  ClientOf <- OneClientEach
  Served = {w1, w2}
  Rpcs = {"infer"}
  ServiceRpcs = {"infer"}
  SharedRpcs = {"infer"}
  MixingRpcs = {}
  MaxBatch = 2
  Windowed = TRUE
  VerifyRows = TRUE
  Supervised = TRUE
  CallAfterRaise = FALSE
  MaxCalls = 2
  Faults = {"build", "raise", "oom", "stop", "sentinel", "worker"}
INVARIANTS
  RowsExclusive
  OneInFlight
PROPERTIES
  EveryCallEnds
  EveryCallAnswered
  ServiceWindsDown
  KeepsContract
CHECK_DEADLOCK FALSE
