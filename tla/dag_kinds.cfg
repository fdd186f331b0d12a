SPECIFICATION FairSpec
CONSTANTS
    a = a
    b = b
    c = c
    d = d
    e = e
    Node = {a, b, c, d, e}
    Edges <- TwoIntoD
    Kind <- MixedKinds
    Rejected = {e}
    MaxAttempts <- TwiceAtB
    Iterations <- Twice
    MaxParallel = 2
    MaxDepth = 1
    StartDepth = 0
    EnableSaga = TRUE
    UniqueKeys = TRUE
    Checkpointed = {a}
    EarlierRows <- RowsOfA
    Faults = {"lease", "peer", "timeout"}
PROPERTY NoStartAfterFailure
PROPERTY Termination
PROPERTY NodesComeToRest
CHECK_DEADLOCK FALSE
