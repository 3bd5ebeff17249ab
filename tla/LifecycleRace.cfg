SPECIFICATION Spec
CONSTANTS
    r1 = r1  r2 = r2  r3 = r3  r4 = r4
    t1 = t1  t2 = t2  c1 = c1  c2 = c2
    group = group  nobody = nobody  y1 = y1  y2 = y2  y3 = y3  bad = bad
    NoYaml = NoYaml
    Request = {r1, r2, r3, r4}
    MayDo <- MCRace
    Task = {t1}
    Members <- MCMembersOne
    Target = {c1, nobody}
    Collector = {c1}
    Yaml = {y1, y2, y3, bad}
    ValidYaml = {y1, y2, y3}
    InitialVersions <- MCVersions
    RequireApproval = TRUE
    MaxActive = 3
    FaultKinds = {"push"}
    MaxFaults = 1
SYMMETRY MCApprovers
INVARIANTS
    TypeOK
    DispatchNeedsApproval
    DispatchIsAudited
    NoDispatchAfterRejection
    DoneIsRecorded
    OnlyValidated
    OneContentPerTask
CHECK_DEADLOCK FALSE
