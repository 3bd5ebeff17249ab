SPECIFICATION FairSpec
CONSTANTS
    r1 = r1  r2 = r2  r3 = r3  r4 = r4
    t1 = t1  t2 = t2  c1 = c1  c2 = c2
    group = group  nobody = nobody  y1 = y1  y2 = y2  y3 = y3  bad = bad
    NoYaml = NoYaml
    Request = {r1, r2, r3}
    MayDo <- MCSerial
    Task = {t1, t2}
    Members <- MCMembers
    Target = {c1, c2, group}
    Collector = {c1, c2}
    Yaml = {y1}
    ValidYaml = {y1}
    InitialVersions <- MCOneVersion
    RequireApproval = FALSE
    MaxActive = 1
    FaultKinds = {"store", "push", "cancel", "crash"}
    MaxFaults = 1
INVARIANT
    EventsTellStatus
PROPERTIES
    ImplementsStateMachine
    ApplyingResolves
CHECK_DEADLOCK FALSE
