SPECIFICATION Spec
CONSTANTS
  Threads = {t1, t2}
  BlasVars <- SomeBlasVars
  Word = 4
  Seeds <- SomeSeeds
  Offsets <- SomeOffsets
INVARIANTS
  EnvRestored
  CheapWorker
  NoStrayMask
  StreamsApart
SYMMETRY ThreadSymmetry
CHECK_DEADLOCK FALSE
