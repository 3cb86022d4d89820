SPECIFICATION Spec
CONSTANTS
  Proc = {p1, p2}
  Session = {s1}
  Prompt = {a}
  Referring = {}
  Councils = {}
  Unsearchable = {}
  Work = {w}
  None = None
  Cap <- MCCap
  MaxOutcomes = 2
  MaxMemories = 1
  MaxHooks = 3
  MaxWork = 0
  MaxFaults = 0
PROPERTY ConsumedOnce
CHECK_DEADLOCK FALSE
