SPECIFICATION Spec
CONSTANTS
  Proc = {p1, p2}
  Command = {a, b}
  KeyOf <- MCKeyOf
  Checks = {a}
  Session = {s1, s2}
  None = None
  Window = 1
  MaxOutcomes = 2
  MaxTime = 2
  MaxHooks = 3
  MaxFaults = 1
SYMMETRY OutcomesSymmetry
INVARIANTS OutcomesTypeOK Spaced RecoveredOnce NoSilentError ReportedUnlessOverlapping
CHECK_DEADLOCK FALSE
