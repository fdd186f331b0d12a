SPECIFICATION Spec
CONSTANTS
    r1 = r1
    r2 = r2
    a = a
    b = b
    c = c
    d = d
    None = None
    Run = {r1, r2}
    Node = {a, b}
    Edges <- Chain
    MaxAttempts <- Once
    Overlap = FALSE
    Faults = {"crash"}
INVARIANT InFlightNodeRestarts
CHECK_DEADLOCK FALSE
