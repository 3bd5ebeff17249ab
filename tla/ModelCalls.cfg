SPECIFICATION FairSpec
CONSTANTS
    c1 = c1  c2 = c2  a = a  b = b
    Texts = {a, b}
    Callers = {c1, c2}
    Asks <- Pairs
    Rounds = 2
    Retries = 1
    Threshold = 2
    Cooldown = 1
    Ttl = 1
    Outcomes = {"good", "bad", "broken", "retryable", "fatal"}
    MayCancel = TRUE
INVARIANTS
    TypeOK
    OpenAfterStreak
    ServedIsCurrent
PROPERTY
    CallsReturn
CHECK_DEADLOCK FALSE
