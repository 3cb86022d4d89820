SPECIFICATION LiveSpec
CONSTANTS
  Proc = {p1, p2}
  Id = {s1, s2}
  None = None
  Builds = {"test", "release"}
  Modes = {"async", "sync"}
  Mishaps = {"crash", "evict", "io", "status"}
  MaxMishaps = 1
INVARIANTS SessionTypeOK CleanMeansEnded DefinedDuringWrite EverySessionAccounted
PROPERTIES ConfirmedOnce NeverDisplaced OperationReturns
