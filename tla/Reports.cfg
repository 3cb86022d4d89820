SPECIFICATION MCSpec
CONSTANTS
  Proc = {p1, p2, p3}
  Beating = {}
  Attempts = 1
  StaleAfter = 3
  Period = 0
  MaxHold = 1
  Slack = 1
  MaxFaults = 1
  MaxUpdates = 1
  NoLock = NoLock
  Blank = Blank
  Editor = {e1, e2}
  Rework <- MCRework
  Overlap <- MCOverlap
  EditSession = {"s"}
  CorrectionWindow = 2
  CleanupAge = 1
  DedupeWindow = 1
  MaxCorrections = 2
  MaxEdits = 3
  MaxClock = 3
  MaxMisses = 1
  Text <- MCText
  TLine <- MCTLine
  OutcomeKinds <- MCKinds
  WorkCompleted <- Worked
  Structural = {"Cargo.toml"}
  MaxTranscript = 2
  MaxJournal = 2
  MaxRecords = 2
  MaxStops = 1
  MaxTrouble = 1
PROPERTIES ImplementsAtomicStore
INVARIANTS CorrectionsTrue ReportTrue
SYMMETRY MCSymmetry
CHECK_DEADLOCK FALSE
