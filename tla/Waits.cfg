SPECIFICATION MCSpec
CONSTANTS
  Proc = {p1, p2}
  Beating = {p1}
  Attempts = 2
  StaleAfter = 4
  Period = 1
  MaxHold = 2
  Slack = 1
  MaxFaults = 1
  NoLock = NoLock
  Blank = Blank
  Commands = 2
  Kinds = {"plain", "take", "hold"}
INVARIANTS TypeOK ExclusiveWithoutFaults LiveLockNeverStale KillsOwnChild FailOpen NoStrayHook
PROPERTIES EvictionWindow AcquireReturns OrphanReclaimed Returns
