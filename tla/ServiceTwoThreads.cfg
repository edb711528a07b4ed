SPECIFICATION Spec
CONSTANTS
  t1 = t1
  t2 = t2
  c1 = c1
  None = None
  Callers = {t1, t2}
  Clients = {c1}
  ClientOf <- SharedClient
  Served = {c1}
  Rpcs = {"infer"}
  ServiceRpcs = {"infer"}
  SharedRpcs = {}
  MixingRpcs = {}
  MaxBatch = 2
  Windowed = FALSE
  VerifyRows = TRUE
  Supervised = TRUE
  CallAfterRaise = FALSE
  MaxCalls = 1
  Faults = {}
INVARIANTS
  AnswerIsOwn
CHECK_DEADLOCK FALSE
