SPECIFICATION Spec
CONSTANTS
    s1 = s1  s2 = s2  t1 = t1  t2 = t2
    Session = {s1, s2}
    History <- MCShortHistory
    Turn = {t1, t2}
    Elsewhere = {t2}
    Limit = 2
    PromptLimit = 2
    MaxSwitches = 1
    MaxFaults = 1
INVARIANTS
    TypeOK
    PromptHasQuestionOnce
    RunTellsOutcome
    DisplayIsTrue
CHECK_DEADLOCK FALSE
