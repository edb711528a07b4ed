SPECIFICATION FairSpec
CONSTANTS
  w1 = w1
  w2 = w2
  None = None
  Callers = {w1, w2}
  Clients = {w1, w2}
  ClientOf <- OneClientEach
  Served = {w1}
  Rpcs = {"infer"}
  ServiceRpcs = {"infer"}
  SharedRpcs = {}
  MixingRpcs = {}
  MaxBatch = 2
  Windowed = FALSE
  VerifyRows = TRUE
  Supervised = TRUE
  CallAfterRaise = FALSE
  MaxCalls = 1
  Faults = {}
PROPERTIES
  UnroutableTimesOut
CHECK_DEADLOCK FALSE
