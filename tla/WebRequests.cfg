SPECIFICATION Spec
CONSTANTS
    r1 = r1  r2 = r2  t1 = t1  t2 = t2  main = main  dev = dev  c1 = c1  c2 = c2
    good = good  bad = bad  alice = alice  None = None  Nobody = Nobody  NoDoc = NoDoc  Refused = Refused  Admin = Admin
    Req = {r1, r2}
    Call = {r1, r2}
    Token = {t1, t2}
    Branch = {main, dev}
    Commit = {c1, c2}
    Doc = {good, bad}
    ValidDoc = {good}
    File <- FileOf
    Start <- TwoBranches
    DefaultRef = "HEAD"
    CacheTTL = 2
    CmdTimeout = 1
    MaxMoves = 1
    MaxRows = 2
    Name = {alice}
    Plans <- AllPlans
INVARIANTS
    TypeOK
    OnlyUserActs
    NeverSilentlyOpen
    LoginHolds
    TraceableContent
    StatusIsRecent
PROPERTY
    PageSettles
