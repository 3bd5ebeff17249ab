SPECIFICATION Spec
CONSTANTS
    c1 = c1  c2 = c2  a = a  b = b
    Texts = {a, b}
    Callers = {c1}
    Asks <- OneGeneration
    Rounds = 3
    Retries = 0
    Threshold = 5
    Cooldown = 1
    Ttl = 3
    Outcomes = {"good", "bad"}
    MayCancel = FALSE
INVARIANT
    RetryAsksAgain
CHECK_DEADLOCK FALSE
