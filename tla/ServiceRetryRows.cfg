SPECIFICATION Spec
CONSTANTS
  w1 = w1
  w2 = w2
  None = None
  Callers = {w1, w2}
  Clients = {w1, w2}
  ClientOf <- OneClientEach
  Served = {w1, w2}
  Rpcs = {"infer", "init"}
  ServiceRpcs = {"infer", "init"}
  SharedRpcs = {"infer", "init"}
  MixingRpcs = {}
  MaxBatch = 3
  Windowed = TRUE
  VerifyRows = TRUE
  Supervised = TRUE
  CallAfterRaise = TRUE
  MaxCalls = 2
  Faults = {"stop"}
INVARIANTS
  AnswerIsOwn
SYMMETRY Symmetry
CHECK_DEADLOCK FALSE
