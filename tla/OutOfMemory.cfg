SPECIFICATION FairSpec
CONSTANTS
  Exceptions <- SomeExceptions
  Raised = "raised"
  None = None
INVARIANTS
  VerdictIsRight
  ReasonIsTrue
PROPERTIES
  OomIsSeen
CHECK_DEADLOCK FALSE
