SPECIFICATION Spec
CONSTANTS
    s1 = s1  s2 = s2  t1 = t1  t2 = t2
    Session = {s1}
    History <- MCShortHistory
    Turn = {t1}
    Elsewhere = {}
    Limit = 2
    PromptLimit = 2
    MaxSwitches = 1
    MaxFaults = 0
INVARIANT
    NoHole
CHECK_DEADLOCK FALSE
