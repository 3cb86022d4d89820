SPECIFICATION Spec
CONSTANTS
  Proc = {p1, p2}
  Path = {a, b, c}
  Threshold = 2
  Cap = 2
  MaxFaults = 1
INVARIANTS QueueTypeOK NothingForgotten
PROPERTIES Drains
