SPECIFICATION Spec
CONSTANTS
    Proc = {p1}
    Setting <- MCSetting
    Call <- MCCall
    MaxHooks = 3
    MaxFaults = 0
CHECK_DEADLOCK FALSE
INVARIANTS InvestigationOpensGate
