SPECIFICATION FairSpec
CONSTANTS
    r1 = r1
    r2 = r2
    r3 = r3
    w1 = w1
    w2 = w2
    None = None
    Run = {r1, r2, r3}
    Worker = {w1, w2}
    Host <- TwoAndOne
    Ttl = 2
    Redis = {TRUE, FALSE}
    Faults = {"crash", "overrun", "db", "redis"}
INVARIANT InProcessExclusion
PROPERTY LeftoversExpire
