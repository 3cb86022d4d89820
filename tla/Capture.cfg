SPECIFICATION Spec
CONSTANTS
  Proc = {p1, p2}
  Session = {s1}
  Prompt = {a, b}
  Referring = {b}
  Councils = {a, b}
  Unsearchable = {b}
  Work = {w}
  None = None
  Cap <- MCCap
  MaxOutcomes = 2
  MaxMemories = 1
  MaxHooks = 3
  MaxWork = 1
  MaxFaults = 1
INVARIANTS CaptureTypeOK StoredOnce EveryCompactionAnswered CaptureAccounted
PROPERTY LaterPromptsRecallNormally
SYMMETRY CaptureSymmetry
CHECK_DEADLOCK FALSE
