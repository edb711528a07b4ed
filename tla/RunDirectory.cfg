SPECIFICATION Spec
CONSTANTS
  Runs = {r1, r2}
  Pids = {1, 2}
  Tags <- SomeTags
  Found <- SomeFound
  NoFile = NoFile
  Empty = Empty
  Garbled = Garbled
INVARIANTS
  ClaimsDistinct
  FirstUnused
  ManifestWhole
  NoLitter
CHECK_DEADLOCK FALSE
