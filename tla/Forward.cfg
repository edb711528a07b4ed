SPECIFICATION Spec
CONSTANTS
  Payloads <- SomePayloads
  BatchSize = 2
  Layouts = {1, 2}
  Fields <- HeadAndState
  RowAxis = 1
  MaxRows = 4
  VerifyRows = TRUE
  Mixings = {"none", "sum", "mean"}
  Faults = {"capture", "replay", "model"}
  MaxBatches = 3
  MaxVersions = 2
INVARIANTS
  RowsAreOwn
  WeightsAreSynced
  AnswersPure
  GraphIsEager
  NoFalseAlarm
PROPERTIES
  BatchEnds
  ServesAtomically
CHECK_DEADLOCK FALSE
