\* Every graph of up to four edges over three nodes and an id that is no node.
SPECIFICATION GraphSpec
CONSTANTS
    a = a
    b = b
    c = c
    g = g
    Node = {a, b, c}
    Ghost = {g}
    NodeOrder <- ABC
    MaxEdges = 4
    MaxRetries = 2
    Executable = {a, b}
    RunFaults = {"fail", "throw", "other", "callback"}
INVARIANT SortedInOrder
INVARIANT ValidatorAgreesWithSort
INVARIANT ExecutedAfterPredecessors
CHECK_DEADLOCK FALSE
