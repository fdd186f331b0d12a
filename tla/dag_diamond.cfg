SPECIFICATION Spec
CONSTANTS
    a = a
    b = b
    c = c
    d = d
    e = e
    Node = {a, b, c, d, e}
    Edges <- Diamond
    Kind <- GateAtE
    Rejected = {}
    MaxAttempts <- TwiceAtB
    Iterations <- Once
    MaxParallel = 0
    MaxDepth = 5
    StartDepth = 0
    EnableSaga = TRUE
    UniqueKeys = TRUE
    Checkpointed = {}
    EarlierRows = {}
    Faults = {"lease", "write", "throw", "timeout"}
INVARIANT TypeOK
INVARIANT PredecessorsFinished
INVARIANT OneResultPerNode
INVARIANT NoLostNode
INVARIANT QuietAtVerdict
INVARIANT SagaCoversSuccesses
INVARIANT SagaReverseOrder
PROPERTY KeepsContract
CHECK_DEADLOCK FALSE
