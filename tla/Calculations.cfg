SPECIFICATION Spec
CONSTANTS
    ContextLines = 1
    MaxCells = 20
    MaxLines = 5
    Dashed = {"-- a"}
    Plussed = {"++ b"}
    Names = {"endpoint", "headers"}
    Texts = {"1", "none", "None", "[REDACTED]"}
    Tasks = {"t1", "t2"}
    MaxEvents = 6
    Lasting = {1, 2, 5}
    MaxSample = 6
    Second = 3
    DefaultSize = 2
    MaxSize = 3
    Moments = {0, 1, 2, 3, 4}
    MaxRows = 3
    Sizes = {{}, {1}, {3}, {4}}
    MaxUses = 4
    Targets = {"c1", "c2", "g1"}
    TaskRows <- ManyTaskRows
    Filters <- SomeFilters
INVARIANTS
    DiffApplies
    DiffIsConcise
    PageShowsDiff
    ConfirmsRightly
    FiguresAreMeasured
    ListsFollowTime
    PagesMissNothing
CHECK_DEADLOCK FALSE
