SPECIFICATION Spec
CONSTANTS
    r1 = r1
    r2 = r2
    r3 = r3
    w1 = w1
    w2 = w2
    None = None
    Run = {r1, r2, r3}
    Worker = {w1, w2}
    Host <- TwoAndOne
    Ttl = 2
    Redis = {TRUE}
    Faults = {"crash", "db", "redis", "renew", "throw"}
INVARIANT TypeOK
INVARIANT LeaseExclusive
PROPERTY OnlyOwnerRemovesLiveRow
