SPECIFICATION Spec
CONSTANTS
  Proc = {p1, p2}
  Id = {s1, s2}
  None = None
  Builds = {"release"}
  Modes = {"async"}
  Mishaps = {}
  MaxMishaps = 0
PROPERTIES ReusesActive
