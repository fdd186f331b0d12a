SPECIFICATION Spec
CONSTANTS
    a = a
    b = b
    c = c
    d = d
    e = e
    Node = {a, b, c}
    Edges <- Chain
    Kind <- AllTasks
    Rejected = {}
    MaxAttempts <- Once
    Iterations <- Once
    MaxParallel = 0
    MaxDepth = 5
    StartDepth = 0
    EnableSaga = TRUE
    UniqueKeys = TRUE
    Checkpointed = {a}
    EarlierRows <- RowsOfA
    Faults = {}
INVARIANT ResumedRunIsWhole
CHECK_DEADLOCK FALSE
