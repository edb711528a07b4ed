SPECIFICATION Spec
CONSTANTS
  w1 = w1
  w2 = w2
  w3 = w3
  None = None
  Callers = {w1, w2, w3}
  Clients = {w1, w2, w3}
  ClientOf <- OneClientEach
  Served = {w1, w2, w3}
  Rpcs = {"infer", "policy", "init", "score"}
  ServiceRpcs = {"infer", "policy", "init", "score"}
  SharedRpcs = {"infer", "policy"}
  MixingRpcs = {"policy", "score"}
  MaxBatch = 3
  Windowed = TRUE
  VerifyRows = TRUE
  Supervised = TRUE
  CallAfterRaise = FALSE
  MaxCalls = 1
  Faults = {"raise", "kill", "stop"}
INVARIANTS
  AnswerIsOwn
  NoMixedAnswer
SYMMETRY Symmetry
CHECK_DEADLOCK FALSE
