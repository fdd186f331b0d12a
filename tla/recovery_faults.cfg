SPECIFICATION Spec
CONSTANTS
    p1 = p1
    p2 = p2
    l1 = l1
    l2 = l2
    Proc = {p1}
    Lane = {l1}
    Home <- AllOnOne
    Attempts = 2
    MaxRecovery = 1
    MaxStops = 1
    RecordShape = "array"
    Faults = {"fail", "throw", "stop", "db", "submitter"}
INVARIANT TypeOK
INVARIANT CapKept
 
CHECK_DEADLOCK FALSE
