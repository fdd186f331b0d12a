SPECIFICATION FairSpec
CONSTANTS
    p1 = p1
    p2 = p2
    l1 = l1
    l2 = l2
    Proc = {p1}
    Lane = {l1}
    Home <- AllOnOne
    Attempts = 2
    MaxRecovery = 2
    MaxStops = 0
    RecordShape = "array"
    Faults = {"fail", "throw"}
INVARIANT ExhaustedIsBuried
 
CHECK_DEADLOCK FALSE
