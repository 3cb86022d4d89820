SPECIFICATION MCSpec
CONSTANTS
    Proc = {p1, p2}
    Setting <- MCSetting
    Call <- MCCall
    MaxHooks = 3
    MaxFaults = 1
    File = {"f", "t", "o"}
    Outside = {"o"}
    TestFile = {"t"}
    TestsOf <- MCTestsOf
    Alike <- MCAlike
    Changing = {"f"}
    Line <- MCLine
    MaxLines = 3
CHECK_DEADLOCK FALSE
INVARIANTS ToolHooksTypeOK DeniedByRuleAlone AdvisoriesPaced AdviceIsNews CallsAccounted HandoffsReadRight
PROPERTIES HookReturns
