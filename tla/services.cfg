\* The components around the execution service, one in each behaviour.
SPECIFICATION ServicesSpec
CONSTANTS
    \* two replicas of one consumer, the first publishing, and another consumer
    p1 = p1
    p2 = p2
    p3 = p3
    c1 = c1
    c2 = c2
    Process = {p1, p2, p3}
    Consumer = {c1, c2}
    Publisher = p1
    ConsumerOf <- TwoConsumers
    Handlers <- TwoAtSecond
    Subscribed = {p1, p2, p3}
    Wildcard = {p2}
    EventFaults = {"lose", "store", "handler", "stop"}
    MaxMishaps = 1
    \* two migrations, three requests
    m1 = m1
    m2 = m2
    q1 = q1
    q2 = q2
    q3 = q3
    Migration = {m1, m2}
    Source = Source
    Request = {q1, q2, q3}
    StatusColumn = TRUE
    MigrationFaults = {"step", "write", "stop"}
    \* one worker, a schedule that recurs twice
    Worker = {w1}
    FirstRun = 1
    Periodic = TRUE
    MaxRuns = 2
    EndAt = 3
    ScheduleFaults = {"start", "write", "stop", "workflow"}
    MaxTime = 4
    MaxEdits = 2
    MaxMisfires = 1
    \* four requests, a breaker that opens at the second failure
    ProxyRequest = {r1, r2, r3, r4}
    Threshold = 2
    ResetTimeout = 1
    Attempts = 2
    MaxClock = 3
    \* two overlapping ticks, three rows, a query returns two
    Tick = {t1, t2}
    Window = 2
    StreamFaults = {"query", "close", "push"}
    MaxRows = 3
INVARIANT HandledOnce
INVARIANT NotSwallowed
INVARIANT PlacementSettles
INVARIANT VerdictMatchesPlacement
INVARIANT FiredOncePerDueTime
INVARIANT MaxRunsKept
INVARIANT NothingMissed
PROPERTY AdmittedWhenCool
PROPERTY DueIsTried
PROPERTY RowsArrive
CHECK_DEADLOCK FALSE
