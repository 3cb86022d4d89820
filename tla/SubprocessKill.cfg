SPECIFICATION CommandSpec
CONSTANTS
  Commands = 1
  Kinds = {"take"}
INVARIANTS KilledOnTimeout
CHECK_DEADLOCK FALSE
