SPECIFICATION FairSpec
CONSTANTS
    p1 = p1
    p2 = p2
    l1 = l1
    l2 = l2
    Proc = {p1, p2}
    Lane = {l1, l2}
    Home <- OneEach
    Attempts = 1
    MaxRecovery = 1
    MaxStops = 2
    RecordShape = "array"
    Faults = {"fail", "stop"}
PROPERTY EndsInVerdict
CHECK_DEADLOCK FALSE
