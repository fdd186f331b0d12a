SPECIFICATION Spec
CONSTANTS
    r1 = r1
    r2 = r2
    a = a
    b = b
    c = c
    d = d
    None = None
    Run = {r1, r2}
    Node = {a, b, c}
    Edges <- Fork
    MaxAttempts <- TwiceAtA
    Overlap = TRUE
    Faults = {"fail", "lapse", "crash"}
SYMMETRY Interchangeable
INVARIANT TypeOK
INVARIANT ExecutedByOneRun
INVARIANT InputsSucceeded
INVARIANT SuccessIsFinal
INVARIANT SharedRunIsWhole
CHECK_DEADLOCK FALSE
