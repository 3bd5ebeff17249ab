SPECIFICATION Spec
CONSTANTS
    r1 = r1  r2 = r2  r3 = r3  r4 = r4
    t1 = t1  t2 = t2  c1 = c1  c2 = c2
    group = group  nobody = nobody  y1 = y1  y2 = y2  y3 = y3  bad = bad
    NoYaml = NoYaml
    Request = {r1, r2, r3}
    MayDo <- MCApproveReject
    Task = {t1}
    Members <- MCMembersSolo
    Target = {c1}
    Collector = {c1}
    Yaml = {y1}
    ValidYaml = {y1}
    InitialVersions <- MCNoVersions
    RequireApproval = TRUE
    MaxActive = 3
    FaultKinds = {}
    MaxFaults = 0
PROPERTY
    TerminalStable
CHECK_DEADLOCK FALSE
