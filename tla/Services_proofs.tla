--------------------------- MODULE Services_proofs ---------------------------
(***************************************************************************)
(* Proofs about five components around the execution service, each for     *)
(* every value of its constants: EventDelivery, TenantMigration,           *)
(* ScheduleWorker, MeshClient and NotificationStream.                      *)
(***************************************************************************)
EXTENDS EventDelivery, TenantMigration, ScheduleWorker, MeshClient,
        NotificationStream, TLAPS

-----------------------------------------------------------------------------
(* EventDelivery *)

\* What follows a handler leaves the delivery between two handlers or at rest.
LEMMA NextHandlerStep ==
    ASSUME NEW p \in Process, EventTypeOK, NextHandler(p)
    PROVE  /\ stage' \in {"new", "local", "send", "sent", "stopped"}
           /\ handler' \in [Process -> Nat \ {0}]
           /\ call' \in [Process -> {"idle", "check", "handle", "mark"}]
           /\ call'[p] \in {"idle", "check"}
           /\ \A q \in Process : q # p => call'[q] = call[q]
<1>. USE EventAssumption DEF EventTypeOK
<1>1. CASE handler[p] < Handlers[p]
    BY <1>1 DEF NextHandler
<1>2. CASE ~(handler[p] < Handlers[p])
    BY <1>2 DEF NextHandler
<1>. QED BY <1>1, <1>2

LEMMA EventTyping == EventTypeOK /\ [EventNext]_eventVars => EventTypeOK'
<1>. SUFFICES ASSUME EventTypeOK, [EventNext]_eventVars  PROVE EventTypeOK'
    OBVIOUS
<1>. USE EventAssumption DEF EventTypeOK
<1>1. CASE PublishLocal
    BY <1>1 DEF PublishLocal, Enter
<1>2. CASE PublishRedis
    BY <1>2 DEF PublishRedis, Echo
<1>3. ASSUME NEW p \in Process, Deliver(p)  PROVE EventTypeOK'
  <2>1. copies' \in [Process -> Nat]
      BY <1>3 DEF Deliver
  <2>. QED BY <1>3, <2>1 DEF Deliver, Enter
<1>4. ASSUME NEW p \in Process, Fresh(p) \/ CheckFails(p) \/ Handle(p)  PROVE EventTypeOK'
    BY <1>4 DEF Fresh, CheckFails, Handle
<1>5. ASSUME NEW p \in Process, Skip(p)  PROVE EventTypeOK'
    BY <1>5, NextHandlerStep DEF Skip
<1>6. ASSUME NEW p \in Process, HandlerThrows(p)  PROVE EventTypeOK'
  <2>1. deadLetters' \in [Process -> SUBSET (Nat \ {0})]
      BY <1>6 DEF HandlerThrows
  <2>. QED BY <1>6, <2>1, NextHandlerStep DEF HandlerThrows
<1>7. ASSUME NEW p \in Process, Mark(p)  PROVE EventTypeOK'
    BY <1>7, NextHandlerStep DEF Mark
<1>8. ASSUME NEW p \in Process, MarkFails(p)  PROVE EventTypeOK'
    BY <1>8, NextHandlerStep DEF MarkFails
<1>9. ASSUME NEW p \in Process, Stop(p)  PROVE EventTypeOK'
    BY <1>9 DEF Stop
<1>10. CASE UNCHANGED eventVars
    BY <1>10 DEF eventVars
<1>. QED BY <1>1, <1>2, <1>3, <1>4, <1>5, <1>6, <1>7, <1>8, <1>9, <1>10 DEF EventNext

\* Whoever is not at work keeps its credit: processed only grows.
LEMMA CreditKept ==
    ASSUME NEW p \in Process, EventTypeOK, call'[p] = call[p],
           processed \subseteq processed'
    PROVE  Credit(p)' >= Credit(p)
BY EventAssumption DEF Credit

\* Nothing is under way before the event is published.
QuietInv == stage = "new" => \A p \in Process : copies[p] = 0 /\ call[p] = "idle"

LEMMA QuietStep == EventTypeOK /\ QuietInv /\ [EventNext]_eventVars => QuietInv'
<1>. SUFFICES ASSUME EventTypeOK, QuietInv, [EventNext]_eventVars, stage' = "new"
              PROVE  \A p \in Process : copies'[p] = 0 /\ call'[p] = "idle"
    BY DEF QuietInv
<1>. USE EventAssumption DEF EventTypeOK
<1>1. \A p \in Process : ~(Deliver(p) /\ stage = "new")
    BY DEF Deliver, QuietInv
<1>2. ASSUME NEW p \in Process, stage = "new"
      PROVE  ~(Fresh(p) \/ Skip(p) \/ CheckFails(p) \/ Handle(p) \/ HandlerThrows(p)
               \/ Mark(p) \/ MarkFails(p))
    BY <1>2 DEF QuietInv, Fresh, Skip, CheckFails, Handle, HandlerThrows, Mark, MarkFails
<1>3. stage = "new"
  <2>1. ASSUME NEW p \in Process, NextHandler(p)  PROVE stage = "new"
      BY <2>1 DEF NextHandler
  <2>. QED BY <2>1 DEF EventNext, eventVars, PublishLocal, PublishRedis, Deliver, Fresh,
              Skip, CheckFails, Handle, HandlerThrows, Mark, MarkFails, Stop
<1>4. CASE \E p \in Process : Stop(p)
    BY <1>3, <1>4 DEF Stop, QuietInv
<1>5. CASE UNCHANGED eventVars
    BY <1>3, <1>5 DEF eventVars, QuietInv
<1>. QED BY <1>1, <1>2, <1>3, <1>4, <1>5 DEF EventNext, PublishLocal, PublishRedis

\* One process moves and keeps its account; the others keep theirs.
LEMMA AccountStep ==
    ASSUME EventTypeOK, HandledInv, EventTypeOK', processed \subseteq processed',
           NEW p \in Process,
           \A q \in Process : q # p => /\ call'[q] = call[q]
                                       /\ handled'[q] = handled[q]
                                       /\ mishaps'[q] = mishaps[q],
           handled[p] <= mishaps[p] + Credit(p) =>
             handled'[p] <= mishaps'[p] + Credit(p)'
    PROVE  HandledInv'
<1>. SUFFICES ASSUME NEW q \in Process  PROVE handled'[q] <= mishaps'[q] + Credit(q)'
    BY DEF HandledInv
<1>1. Credit(q) \in {0, 1} /\ Credit(q)' \in {0, 1}
    BY DEF Credit
<1>2. handled[q] <= mishaps[q] + Credit(q)
    BY DEF HandledInv
<1>3. CASE q = p
    BY <1>2, <1>3
<1>4. CASE q # p
  <2>1. Credit(q)' >= Credit(q)
      BY <1>4, CreditKept
  <2>2. handled'[q] = handled[q] /\ mishaps'[q] = mishaps[q]
      BY <1>4
  <2>3. handled[q] \in Nat /\ mishaps[q] \in Nat
      BY DEF EventTypeOK
  <2>. QED BY <1>1, <1>2, <2>1, <2>2, <2>3
<1>. QED BY <1>3, <1>4

LEMMA HandledStep ==
    ASSUME EventTypeOK, HandledInv, QuietInv, EventTypeOK', [EventNext]_eventVars
    PROVE  HandledInv'
<1>. USE EventAssumption DEF EventTypeOK
<1>1. CASE PublishLocal
    BY <1>1, AccountStep DEF PublishLocal, Enter, QuietInv, Credit
<1>2. CASE PublishRedis \/ UNCHANGED eventVars
    BY <1>2 DEF PublishRedis, eventVars, HandledInv, Credit
<1>3. ASSUME NEW p \in Process, Deliver(p)  PROVE HandledInv'
    BY <1>3, AccountStep DEF Deliver, Enter, Credit
<1>4. ASSUME NEW p \in Process, Fresh(p) \/ CheckFails(p) \/ Handle(p)  PROVE HandledInv'
    BY <1>4, AccountStep DEF Fresh, CheckFails, Handle, Credit
<1>5. ASSUME NEW p \in Process, Skip(p)  PROVE HandledInv'
    BY <1>5, AccountStep, NextHandlerStep DEF Skip, Credit
<1>6. ASSUME NEW p \in Process, HandlerThrows(p)  PROVE HandledInv'
    BY <1>6, AccountStep, NextHandlerStep DEF HandlerThrows, Credit
<1>7. ASSUME NEW p \in Process, Mark(p)  PROVE HandledInv'
    BY <1>7, AccountStep, NextHandlerStep DEF Mark, Credit
<1>8. ASSUME NEW p \in Process, MarkFails(p)  PROVE HandledInv'
    BY <1>8, AccountStep, NextHandlerStep DEF MarkFails, Credit
<1>9. ASSUME NEW p \in Process, Stop(p)  PROVE HandledInv'
    BY <1>9, AccountStep DEF Stop, Credit
<1>. QED BY <1>1, <1>2, <1>3, <1>4, <1>5, <1>6, <1>7, <1>8, <1>9 DEF EventNext

LEMMA EventInvariance == EventSpec => [](EventTypeOK /\ HandledInv /\ QuietInv)
<1>1. EventInit => EventTypeOK /\ HandledInv /\ QuietInv
    BY EventAssumption DEF EventInit, EventTypeOK, HandledInv, QuietInv, Credit
<1>2. EventTypeOK /\ HandledInv /\ QuietInv /\ [EventNext]_eventVars
        => EventTypeOK' /\ HandledInv' /\ QuietInv'
    BY EventTyping, HandledStep, QuietStep
<1>. QED BY <1>1, <1>2, PTL DEF EventSpec

\* Deliveries, offsets and dead letters keep their types (shared-events).
THEOREM EventTypeCorrect == EventSpec => []EventTypeOK
BY EventInvariance, PTL

\* The handlers of a process handle the event once, and once more at most for
\* each store error or stop, however many copies arrive (DeduplicatingEventBus).
THEOREM HandledAtMostOnce == EventSpec => []HandledOnce
<1>1. EventTypeOK /\ HandledInv => HandledOnce
  <2>. SUFFICES ASSUME EventTypeOK, HandledInv, NEW p \in Process
                PROVE  handled[p] <= 1 + mishaps[p]
      BY DEF HandledOnce
  <2>1. Credit(p) \in {0, 1} /\ handled[p] \in Nat /\ mishaps[p] \in Nat
      BY DEF Credit, EventTypeOK
  <2>. QED BY <2>1 DEF HandledInv
<1>. QED BY EventInvariance, <1>1, PTL

\* Times handled only grow, so who has been served stays served.
LEMMA ServedStays ==
    ASSUME EventTypeOK, EventTypeOK', \A q \in Process : handled[q] <= handled'[q]
    PROVE  \A p \in Process : Served(p) => Served(p)'
BY DEF Served, EventTypeOK

\* A delivery that ends has evidence, and the others keep theirs.
LEMMA EvidenceStep ==
    ASSUME EventTypeOK, EventTypeOK', MarkedInv, NotSwallowed, NEW p \in Process,
           \A q \in Process : handled[q] <= handled'[q],
           \A q \in Process : q # p => /\ call'[q] = call[q]
                                       /\ deadLetters'[q] = deadLetters[q]
                                       /\ q \in reached' => q \in reached,
           processed' \subseteq processed \cup {ConsumerOf[p]},
           ConsumerOf[p] \in processed' => Served(p) \/ Served(p)',
           call'[p] = "mark" => handled'[p] > 0,
           p \in reached' /\ call'[p] = "idle" =>
               \/ call[p] = "idle" /\ p \in reached /\ deadLetters'[p] = deadLetters[p]
               \/ deadLetters'[p] # {}
               \/ Served(p) \/ Served(p)'
    PROVE  MarkedInv' /\ NotSwallowed'
<1>1. \A q \in Process : Served(q) => Served(q)'
    BY ServedStays
<1>2. \A q \in Process : ConsumerOf[q] = ConsumerOf[p] => (Served(p)' <=> Served(q)')
    BY DEF Served
<1>3. MarkedInv'
  <2>1. ASSUME NEW q \in Process, ConsumerOf[q] \in processed'  PROVE Served(q)'
    <3>1. CASE ConsumerOf[q] \in processed
        BY <1>1, <3>1 DEF MarkedInv
    <3>2. CASE ConsumerOf[q] = ConsumerOf[p]
        BY <1>1, <1>2, <2>1, <3>2
    <3>. QED BY <2>1, <3>1, <3>2
  <2>2. ASSUME NEW q \in Process, call'[q] = "mark"  PROVE handled'[q] > 0
    <3>1. CASE q = p
        BY <2>2, <3>1
    <3>2. CASE q # p
      <4>1. handled[q] > 0 /\ handled[q] <= handled'[q]
          BY <2>2, <3>2 DEF MarkedInv
      <4>2. handled[q] \in Nat /\ handled'[q] \in Nat
          BY DEF EventTypeOK
      <4>. QED BY <4>1, <4>2
    <3>. QED BY <3>1, <3>2
  <2>. QED BY <2>1, <2>2 DEF MarkedInv
<1>4. ASSUME NEW q \in reached', call'[q] = "idle"
      PROVE  deadLetters'[q] # {} \/ Served(q)'
  <2>1. q \in Process
      BY DEF EventTypeOK
  <2>2. q \in reached /\ call[q] = "idle" => deadLetters[q] # {} \/ Served(q)
      BY DEF NotSwallowed, Served
  <2>3. CASE q = p
      BY <1>1, <1>4, <2>1, <2>2, <2>3
  <2>4. CASE q # p
      BY <1>1, <1>4, <2>1, <2>2, <2>4
  <2>. QED BY <2>3, <2>4
<1>. QED BY <1>3, <1>4 DEF NotSwallowed, Served

LEMMA EvidenceNext ==
    ASSUME EventTypeOK, EventTypeOK', QuietInv, MarkedInv, NotSwallowed,
           [EventNext]_eventVars
    PROVE  MarkedInv' /\ NotSwallowed'
<1>. USE EventAssumption DEF EventTypeOK
<1>1. CASE PublishLocal
    BY <1>1, EvidenceStep DEF PublishLocal, Enter, QuietInv, MarkedInv
<1>2. CASE PublishRedis \/ UNCHANGED eventVars
    BY <1>2 DEF PublishRedis, eventVars, MarkedInv, NotSwallowed, Served
<1>3. ASSUME NEW p \in Process, Deliver(p)  PROVE MarkedInv' /\ NotSwallowed'
  <2>1. /\ UNCHANGED <<handled, processed, deadLetters>>
        /\ \/ call' = [call EXCEPT ![p] = "check"] /\ reached' = reached \cup {p}
           \/ UNCHANGED <<call, reached>>
      BY <1>3 DEF Deliver, Enter
  <2>2. CASE UNCHANGED <<call, reached>>
      BY <2>1, <2>2 DEF MarkedInv, NotSwallowed, Served
  <2>3. CASE call' = [call EXCEPT ![p] = "check"] /\ reached' = reached \cup {p}
      BY <2>1, <2>3, EvidenceStep DEF MarkedInv
  <2>. QED BY <2>1, <2>2, <2>3
<1>4. ASSUME NEW p \in Process, Fresh(p) \/ CheckFails(p)
      PROVE  MarkedInv' /\ NotSwallowed'
    BY <1>4, EvidenceStep DEF Fresh, CheckFails, MarkedInv
<1>5. ASSUME NEW p \in Process, Handle(p)  PROVE MarkedInv' /\ NotSwallowed'
    BY <1>5, EvidenceStep DEF Handle, MarkedInv
<1>6. ASSUME NEW p \in Process, Skip(p)  PROVE MarkedInv' /\ NotSwallowed'
    BY <1>6, EvidenceStep, NextHandlerStep DEF Skip, MarkedInv
<1>7. ASSUME NEW p \in Process, HandlerThrows(p)  PROVE MarkedInv' /\ NotSwallowed'
  <2>1. /\ UNCHANGED <<handled, processed, reached>>
        /\ deadLetters' = [deadLetters EXCEPT ![p] = @ \cup {handler[p]}]
        /\ call'[p] \in {"idle", "check"}
        /\ \A q \in Process : q # p => call'[q] = call[q]
      BY <1>7, NextHandlerStep DEF HandlerThrows
  <2>2. deadLetters'[p] # {} /\ \A q \in Process : q # p => deadLetters'[q] = deadLetters[q]
      BY <2>1
  <2>3. \A q \in Process : handled[q] <= handled'[q]
      BY <2>1
  <2>. QED BY <2>1, <2>2, <2>3, EvidenceStep DEF MarkedInv
<1>8. ASSUME NEW p \in Process, Mark(p)  PROVE MarkedInv' /\ NotSwallowed'
  <2>1. Served(p)
      BY <1>8 DEF Mark, MarkedInv, Served
  <2>. QED BY <1>8, <2>1, EvidenceStep, NextHandlerStep DEF Mark
<1>9. ASSUME NEW p \in Process, MarkFails(p)  PROVE MarkedInv' /\ NotSwallowed'
  <2>1. Served(p)
      BY <1>9 DEF MarkFails, MarkedInv, Served
  <2>. QED BY <1>9, <2>1, EvidenceStep, NextHandlerStep DEF MarkFails, MarkedInv
<1>10. ASSUME NEW p \in Process, Stop(p)  PROVE MarkedInv' /\ NotSwallowed'
    BY <1>10, EvidenceStep DEF Stop, MarkedInv
<1>. QED BY <1>1, <1>2, <1>3, <1>4, <1>5, <1>6, <1>7, <1>8, <1>9, <1>10 DEF EventNext

\* A delivery that has come to an end was handled by a process of its consumer, or
\* left a dead letter: neither the check for duplicates nor an event in flight
\* swallows it, whatever the store does (DeduplicatingEventBus, publishLocal).
THEOREM NothingSwallowed == EventSpec => []NotSwallowed
<1>1. EventInit => MarkedInv /\ NotSwallowed
    BY EventAssumption DEF EventInit, MarkedInv, NotSwallowed
<1>2. /\ EventTypeOK /\ HandledInv /\ QuietInv
      /\ (EventTypeOK /\ HandledInv /\ QuietInv)'
      /\ MarkedInv /\ NotSwallowed /\ [EventNext]_eventVars
      => MarkedInv' /\ NotSwallowed'
    BY EvidenceNext
<1>. QED BY EventInvariance, <1>1, <1>2, PTL DEF EventSpec

-----------------------------------------------------------------------------
(* TenantMigration *)

\* One request takes a step, the others stand.
LEMMA GotoStep ==
    ASSUME MigrationTypeOK, NEW r \in Request, NEW step \in {"idle", "done"} \cup Working,
           Goto(r, step)
    PROVE  /\ at' \in [Request -> {"idle", "done"} \cup Working]
           /\ at'[r] = step
           /\ \A q \in Request : q # r => at'[q] = at[q]
BY DEF MigrationTypeOK, Goto

LEMMA MigrationTyping ==
    MigrationTypeOK /\ [MigrationNext]_migrationVars => MigrationTypeOK'
<1>. SUFFICES ASSUME MigrationTypeOK, [MigrationNext]_migrationVars
              PROVE  MigrationTypeOK'
    OBVIOUS
<1>. USE DEF MigrationTypeOK, history, Cluster
<1>. USE DEF Working, ExecuteSteps, FailureSteps, RollbackSteps
<1>1. ASSUME NEW m \in Migration, ReadPlacement(m) \/ PlanMigration(m)  PROVE MigrationTypeOK'
    BY <1>1 DEF ReadPlacement, PlanMigration
<1>2. ASSUME NEW r \in Request, Execute(r)  PROVE MigrationTypeOK'
    BY <1>2, GotoStep DEF Execute, Begin, Busy
<1>3. ASSUME NEW r \in Request, Rollback(r)  PROVE MigrationTypeOK'
    BY <1>3, GotoStep DEF Rollback, Begin, Busy
<1>4. ASSUME NEW r \in Request, Start(r) \/ Finish(r)  PROVE MigrationTypeOK'
  <2>1. Goto(r, "migrate") \/ Goto(r, "activate")
      BY <1>4 DEF Start, Finish
  <2>2. at' \in [Request -> {"idle", "done"} \cup Working]
      BY <2>1, GotoStep
  <2>. QED BY <1>4, <2>2 DEF Start, Finish, SetStatus
<1>5. ASSUME NEW r \in Request, Fail(r) \/ RollBack(r)  PROVE MigrationTypeOK'
  <2>1. Goto(r, "reactivate") \/ Goto(r, "done")
      BY <1>5 DEF Fail, RollBack
  <2>2. at' \in [Request -> {"idle", "done"} \cup Working]
      BY <2>1, GotoStep
  <2>. QED BY <1>5, <2>2 DEF Fail, RollBack, SetStatus
<1>6. ASSUME NEW r \in Request, Migrate(r) \/ Provision(r) \/ Copy(r) \/ Switch(r)
      PROVE  MigrationTypeOK'
  <2>1. \E step \in {"provision", "copy", "switch", "finish"} : Goto(r, step)
      BY <1>6 DEF Migrate, Provision, Copy, Switch
  <2>2. at' \in [Request -> {"idle", "done"} \cup Working]
      BY <2>1, GotoStep
  <2>. QED BY <1>6, <2>2 DEF Migrate, Provision, Copy, Switch
<1>7. ASSUME NEW r \in Request, MarkActive(r) \/ StepFails(r) \/ Restore(r)
      PROVE  MigrationTypeOK'
  <2>1. \E step \in {"done", "fail", "rollback"} : Goto(r, step)
      BY <1>7 DEF MarkActive, StepFails, Restore
  <2>2. at' \in [Request -> {"idle", "done"} \cup Working]
      BY <2>1, GotoStep
  <2>. QED BY <1>7, <2>2 DEF MarkActive, StepFails, Restore
<1>8. ASSUME NEW r \in Request, WriteFails(r) \/ RequestStops(r)  PROVE MigrationTypeOK'
    BY <1>8, GotoStep DEF WriteFails, RequestStops
<1>9. CASE UNCHANGED migrationVars
    BY <1>9 DEF migrationVars
<1>. QED BY <1>1, <1>2, <1>3, <1>4, <1>5, <1>6, <1>7, <1>8, <1>9 DEF MigrationNext

LEMMA UnsettledStep ==
    ASSUME MigrationTypeOK, UnsettledInv, [MigrationNext]_migrationVars
    PROVE  UnsettledInv'
<1>. DEFINE Owing == {"provision", "copy", "switch", "finish", "activate", "fail",
                      "reactivate"}
<1>. SUFFICES ASSUME placement' # "active", ~broken'
              PROVE  \E r \in Request : at'[r] \in Owing
    BY DEF UnsettledInv
<1>. USE DEF MigrationTypeOK, history
<1>1. CASE \E r \in Request : at[r] \in Owing /\ at'[r] \in Owing
    BY <1>1
<1>2. ASSUME NEW r \in Request, placement # "active", ~broken,
             \A q \in Request : at[q] \in Owing => q = r \/ at'[q] = at[q],
             at[r] \in Owing => at'[r] \in Owing
      PROVE  \E q \in Request : at'[q] \in Owing
    BY <1>2 DEF UnsettledInv
<1>3. CASE UNCHANGED <<at, placement, broken>>
    BY <1>3 DEF UnsettledInv
<1>4. ASSUME NEW m \in Migration, ReadPlacement(m) \/ PlanMigration(m)
      PROVE  \E r \in Request : at'[r] \in Owing
    BY <1>3, <1>4 DEF ReadPlacement, PlanMigration
<1>5. ASSUME NEW r \in Request, Migrate(r) \/ Provision(r)
      PROVE  \E q \in Request : at'[q] \in Owing
    BY <1>5 DEF Migrate, Provision, Goto
<1>6. ASSUME NEW r \in Request,
             \/ Execute(r) \/ Rollback(r) \/ Start(r) \/ Copy(r) \/ Finish(r)
             \/ StepFails(r) \/ Fail(r) \/ RollBack(r)
      PROVE  \E q \in Request : at'[q] \in Owing
  <2>1. UNCHANGED <<placement, broken>>
      BY <1>6 DEF Execute, Rollback, Start, Copy, Finish, StepFails, Fail, RollBack, Begin
  <2>2. \A q \in Request : q # r => at'[q] = at[q]
      BY <1>6 DEF Execute, Rollback, Start, Copy, Finish, StepFails, Fail, RollBack, Goto
  <2>3. at[r] \in Owing => at'[r] \in Owing
      BY <1>6 DEF Execute, Rollback, Start, Copy, Finish, StepFails, Fail, RollBack, Goto
  <2>. QED BY <1>2, <2>1, <2>2, <2>3
<1>7. ASSUME NEW r \in Request
      PROVE  ~(Switch(r) \/ MarkActive(r) \/ Restore(r) \/ WriteFails(r) \/ RequestStops(r))
    BY DEF Switch, MarkActive, Restore, WriteFails, RequestStops
<1>8. CASE UNCHANGED migrationVars
    BY <1>3, <1>8 DEF migrationVars
<1>. QED BY <1>4, <1>5, <1>6, <1>7, <1>8 DEF MigrationNext

\* The inductive invariant behind VerdictMatchesPlacement: without overlap only
\* the latest request works, and its place tells the row and the placement.
VerdictInv ==
    ~overlapped /\ ~broken =>
        LET m == of[latest] IN
        /\ \A r \in Request : at[r] \in Working => r = latest
        /\ status[m] = "completed" => cluster = m
        /\ status[m] = "rolled_back" => cluster = from[m]
        /\ at[latest] = "start" => status[m] = "planned"
        /\ at[latest] \in {"migrate", "provision", "copy", "switch", "finish"} =>
             status[m] = "in_progress"
        /\ at[latest] = "finish" => cluster = m
        /\ at[latest] = "restore" => status[m] \in {"failed", "in_progress"}
        /\ at[latest] = "rollback" =>
             status[m] \in {"failed", "in_progress"} /\ cluster = from[m]

LEMMA VerdictStep ==
    ASSUME MigrationTypeOK, VerdictInv, MigrationTypeOK', [MigrationNext]_migrationVars
    PROVE  VerdictInv'
<1>. SUFFICES ASSUME ~overlapped', ~broken'  PROVE VerdictInv'
    BY DEF VerdictInv
<1>. USE DEF MigrationTypeOK, history
<1>. USE DEF Working, ExecuteSteps, FailureSteps, RollbackSteps
<1>1. ASSUME NEW m \in Migration, ReadPlacement(m) \/ PlanMigration(m)  PROVE VerdictInv'
    BY <1>1 DEF ReadPlacement, PlanMigration, VerdictInv
<1>2. ASSUME NEW r \in Request, Execute(r) \/ Rollback(r)  PROVE VerdictInv'
  <2>1. /\ \A q \in Request : at[q] \notin Working
        /\ latest' = r /\ UNCHANGED <<status, from, cluster, of>>
        /\ at' = [at EXCEPT ![r] = IF Execute(r) THEN "start" ELSE "restore"]
      BY <1>2 DEF Execute, Rollback, Begin, Busy, Goto
  <2>2. /\ at'[r] = "start" => status[of[r]] = "planned"
        /\ at'[r] = "restore" => status[of[r]] \in {"failed", "in_progress"}
        /\ at'[r] \in {"start", "restore"}
        /\ status[of[r]] \in {"planned", "failed", "in_progress"}
      BY <1>2, <2>1 DEF Execute, Rollback
  <2>. QED BY <2>1, <2>2 DEF VerdictInv
<1>3. ASSUME NEW r \in Request, at[r] \in Working, UNCHANGED <<latest, overlapped, broken>>
      PROVE  r = latest /\ \A q \in Request : at[q] \in Working => q = r
    BY <1>3 DEF VerdictInv
<1>4. ASSUME NEW r \in Request, Start(r) \/ Finish(r) \/ Fail(r) \/ RollBack(r)
      PROVE  VerdictInv'
  <2>1. r = latest /\ \A q \in Request : at[q] \in Working => q = r
      BY <1>3, <1>4 DEF Start, Finish, Fail, RollBack
  <2>2. CASE Start(r)
      BY <2>1, <2>2 DEF Start, SetStatus, Goto, VerdictInv
  <2>3. CASE Finish(r)
      BY <2>1, <2>3 DEF Finish, SetStatus, Goto, VerdictInv
  <2>4. CASE Fail(r)
      BY <2>1, <2>4 DEF Fail, SetStatus, Goto, VerdictInv
  <2>5. CASE RollBack(r)
      BY <2>1, <2>5 DEF RollBack, SetStatus, Goto, VerdictInv
  <2>. QED BY <1>4, <2>2, <2>3, <2>4, <2>5
<1>5. ASSUME NEW r \in Request,
             \/ Migrate(r) \/ Provision(r) \/ Copy(r) \/ Switch(r) \/ MarkActive(r)
             \/ StepFails(r) \/ Restore(r)
      PROVE  VerdictInv'
  <2>1. r = latest /\ \A q \in Request : at[q] \in Working => q = r
      BY <1>3, <1>5 DEF Migrate, Provision, Copy, Switch, MarkActive, StepFails, Restore
  <2>2. CASE Migrate(r) \/ Copy(r)
      BY <2>1, <2>2 DEF Migrate, Copy, Goto, VerdictInv
  <2>3. CASE Provision(r)
      BY <2>1, <2>3 DEF Provision, Goto, VerdictInv
  <2>4. CASE Switch(r)
      BY <2>1, <2>4 DEF Switch, Goto, VerdictInv
  <2>5. CASE MarkActive(r) \/ StepFails(r)
      BY <2>1, <2>5 DEF MarkActive, StepFails, Goto, VerdictInv
  <2>6. CASE Restore(r)
      BY <2>1, <2>6 DEF Restore, Goto, VerdictInv
  <2>. QED BY <1>5, <2>2, <2>3, <2>4, <2>5, <2>6
<1>6. ASSUME NEW r \in Request  PROVE ~(WriteFails(r) \/ RequestStops(r))
    BY DEF WriteFails, RequestStops
<1>7. CASE UNCHANGED migrationVars
    BY <1>7 DEF migrationVars, VerdictInv
<1>. QED BY <1>1, <1>2, <1>4, <1>5, <1>6, <1>7 DEF MigrationNext

LEMMA MigrationInvariance ==
    MigrationSpec => [](MigrationTypeOK /\ UnsettledInv /\ VerdictInv)
<1>1. MigrationInit => MigrationTypeOK /\ UnsettledInv /\ VerdictInv
  <2>. SUFFICES ASSUME MigrationInit  PROVE MigrationTypeOK /\ UnsettledInv /\ VerdictInv
      OBVIOUS
  <2>1. latest \in Request
      BY MigrationAssumption DEF MigrationInit
  <2>2. MigrationTypeOK
      BY <2>1, MigrationAssumption DEF MigrationInit, MigrationTypeOK, Cluster
  <2>. QED BY <2>1, <2>2 DEF MigrationInit, MigrationTypeOK, UnsettledInv, VerdictInv, Working,
              ExecuteSteps, FailureSteps, RollbackSteps
<1>2. MigrationTypeOK /\ UnsettledInv /\ VerdictInv /\ [MigrationNext]_migrationVars
        => MigrationTypeOK' /\ UnsettledInv' /\ VerdictInv'
    BY MigrationTyping, UnsettledStep, VerdictStep
<1>. QED BY <1>1, <1>2, PTL DEF MigrationSpec

\* Migration rows, placement and requests keep their types (TenantMigrationService).
THEOREM MigrationTypeCorrect == MigrationSpec => []MigrationTypeOK
BY MigrationInvariance, PTL

\* However executions and rollbacks overlap and whichever of their steps throw,
\* the placement is back in use when no request is at work, unless one was cut
\* short (executeMigration's catch block, rollbackMigration).
THEOREM PlacementComesToRest == MigrationSpec => []PlacementSettles
<1>1. MigrationTypeOK /\ UnsettledInv => PlacementSettles
    BY DEF MigrationTypeOK, UnsettledInv, PlacementSettles, Busy, Working, ExecuteSteps,
           FailureSteps, RollbackSteps
<1>. QED BY MigrationInvariance, <1>1, PTL

\* After requests in turn the tenant is where the last verdict says.
THEOREM VerdictIsWherePlaced == MigrationSpec => []VerdictMatchesPlacement
<1>1. VerdictInv => VerdictMatchesPlacement
    BY DEF VerdictInv, VerdictMatchesPlacement
<1>. QED BY MigrationInvariance, <1>1, PTL

-----------------------------------------------------------------------------
(* ScheduleWorker *)

\* The rows that the steps write.
LEMMA RowsWritten ==
    ASSUME NEW r \in Row, NEW s \in RowStatus, NEW n \in Nat, NEW k \in Nat
    PROVE  /\ [r EXCEPT !.status = s] \in Row
           /\ [r EXCEPT !.status = s].next = r.next
           /\ [r EXCEPT !.status = s].runs = r.runs
           /\ [r EXCEPT !.status = s].status = s
           /\ [status |-> s, next |-> n, runs |-> k] \in Row
           /\ r.status \in RowStatus /\ r.next \in Nat /\ r.runs \in Nat
BY DEF Row

LEMMA ScheduleTyping == ScheduleTypeOK /\ [ScheduleNext]_scheduleVars => ScheduleTypeOK'
<1>. SUFFICES ASSUME ScheduleTypeOK, [ScheduleNext]_scheduleVars  PROVE ScheduleTypeOK'
    OBVIOUS
<1>. USE ScheduleAssumption DEF ScheduleTypeOK
<1>. USE RowsWritten
<1>s. "paused" \in RowStatus /\ "active" \in RowStatus /\ "deleted" \in RowStatus
      /\ "completed" \in RowStatus /\ "failed" \in RowStatus
    BY DEF RowStatus
<1>1. CASE Clock
    BY <1>1 DEF Clock
<1>8. CASE Pause \/ Activate \/ Delete
  <2>1. row' \in Row
    <3>1. \E s \in RowStatus : row' = [row EXCEPT !.status = s]
        BY <1>8, <1>s DEF Pause, Activate, Delete
    <3>2. row \in Row
        OBVIOUS
    <3>. QED BY <3>1, <3>2 DEF Row
  <2>2. activated' \in Nat /\ edits' \in Nat
      BY <1>8 DEF Pause, Activate, Delete
  <2>. QED BY <1>8, <2>1, <2>2 DEF Pause, Activate, Delete
<1>2. ASSUME NEW w \in Worker, FindDue(w)  PROVE ScheduleTypeOK'
    BY <1>2 DEF FindDue, Move
<1>3. ASSUME NEW w \in Worker, StartExecution(w) \/ StartFails(w)  PROVE ScheduleTypeOK'
  <2>1. ASSUME Created(w)  PROVE fired' \in [0..MaxTime -> Nat]
    <3>1. CASE copy[w].next \in 0..MaxTime
        BY <2>1, <3>1 DEF Created
    <3>2. CASE copy[w].next \notin 0..MaxTime
      <4>1. fired' = fired
          BY <2>1, <3>2 DEF Created
      <4>. QED BY <4>1
    <3>. QED BY <3>1, <3>2
  <2>2. fired' \in [0..MaxTime -> Nat]
    <3>1. Created(w) \/ fired' = fired
        BY <1>3 DEF StartExecution, StartFails
    <3>. QED BY <2>1, <3>1
  <2>3. UNCHANGED <<now, row, copy, edits, activated>>
      BY <1>3 DEF StartExecution, StartFails
  <2>4. poll' \in [Worker -> {"idle", "due", "queued", "write"}]
    <3>1. \E place \in {"idle", "queued"} : poll' = [poll EXCEPT ![w] = place]
        BY <1>3 DEF StartExecution, StartFails, Move
    <3>. QED BY <3>1
  <2>5. misfires' \in Nat /\ started' \in Nat
    <3>1. misfires' = misfires \/ misfires' = misfires + 1
        BY <1>3, Zenon DEF StartExecution, StartFails
    <3>2. started' = started \/ started' = started + 1
        BY <1>3, Zenon DEF StartExecution, StartFails, Created
    <3>. QED BY <3>1, <3>2
  <2>. QED BY <2>2, <2>3, <2>4, <2>5
<1>4. ASSUME NEW w \in Worker, RecordRun(w)  PROVE ScheduleTypeOK'
  <2>1. PICK c \in Row : copy' = [copy EXCEPT ![w] = c]
    <3>. DEFINE s == IF MaxRuns # 0 /\ copy[w].runs + 1 >= MaxRuns THEN "completed"
                     ELSE copy[w].status
                n == IF Periodic THEN now + 1 ELSE copy[w].next
                k == copy[w].runs + 1
    <3>1. copy[w].status \in RowStatus /\ copy[w].next \in Nat /\ copy[w].runs \in Nat
        BY DEF Row
    <3>2. s \in RowStatus
        BY <3>1, <1>s, Zenon
    <3>3. n \in Nat
      <4>1. now + 1 \in Nat
          OBVIOUS
      <4>. QED BY <3>1, <4>1, Zenon
    <3>4. k \in Nat
        BY <3>1
    <3>5. copy' = [copy EXCEPT ![w] = [status |-> s, next |-> n, runs |-> k]]
        BY <1>4 DEF RecordRun
    <3>. HIDE DEF s, n, k
    <3>. QED BY <3>2, <3>3, <3>4, <3>5
  <2>. QED BY <1>4, <2>1 DEF RecordRun, Move
<1>5. ASSUME NEW w \in Worker, WorkflowGone(w)  PROVE ScheduleTypeOK'
  <2>1. copy' = [copy EXCEPT ![w] = [copy[w] EXCEPT !.status = "failed"]]
      BY <1>5 DEF WorkflowGone
  <2>2. [copy[w] EXCEPT !.status = "failed"] \in Row
      BY <1>s
  <2>. QED BY <1>5, <2>1, <2>2 DEF WorkflowGone, Move
<1>6. ASSUME NEW w \in Worker,
             WriteBack(w) \/ UpdateFails(w) \/ WorkerStops(w)
      PROVE  ScheduleTypeOK'
    BY <1>6 DEF WriteBack, UpdateFails, WorkerStops, Move
<1>7. CASE UNCHANGED scheduleVars
    BY <1>7 DEF scheduleVars
<1>. QED BY <1>1, <1>2, <1>3, <1>4, <1>5, <1>6, <1>7, <1>8 DEF ScheduleNext, WorkerStep

\* The variables keep their types, with any number of workers.
THEOREM ScheduleTypeCorrect == ScheduleSpec => []ScheduleTypeOK
<1>1. ScheduleInit => ScheduleTypeOK
    BY ScheduleAssumption DEF ScheduleInit, ScheduleTypeOK, Row, RowStatus
<1>. QED BY <1>1, ScheduleTyping, PTL DEF ScheduleSpec

\* One worker polls: what it has loaded is what is stored, status aside, and what
\* it is about to write records the run it has queued.  The parts of the invariant
\* for one worker: position p of its poll, its copy c, the stored row r.
Kept(p, c, r, time) ==
    /\ p \in {"due", "queued"} =>
         c.status = "active" /\ c.next <= time /\ c.next = r.next /\ c.runs = r.runs
    /\ p = "write" /\ c.status = "failed" => c.next = r.next /\ c.runs = r.runs
    /\ p = "write" /\ c.status # "failed" =>
         /\ Periodic => c.next > r.next
         /\ c.runs = r.runs + 1
         /\ MaxRuns # 0 /\ c.status = "active" => c.runs < MaxRuns
Open(p, c) == p = "queued" \/ (p = "write" /\ c.status # "failed")
One(b) == IF b THEN 1 ELSE 0

Single(w) ==
    /\ CopyInv <=> Kept(poll[w], copy[w], row, now)
    /\ (\E v \in Worker : Unrecorded(v)) <=> Open(poll[w], copy[w])
    /\ (\E v \in Worker : poll[v] = "due" \/ Unrecorded(v))
         <=> poll[w] = "due" \/ Open(poll[w], copy[w])

LEMMA SingleWorker == ASSUME NEW w, Worker = {w}  PROVE Single(w) /\ Single(w)'
BY DEF Single, CopyInv, Unrecorded, Kept, Open

\* The copy and the stored row.
LEMMA CopyStep ==
    ASSUME NEW w, Worker = {w}, ScheduleTypeOK, CopyInv,
           [ScheduleNext]_scheduleVars
    PROVE  CopyInv'
<1>. USE ScheduleAssumption DEF ScheduleTypeOK
<1>1. /\ w \in Worker /\ row \in Row /\ copy[w] \in Row
      /\ Kept(poll[w], copy[w], row, now)
    BY SingleWorker DEF Single
<1>2. SUFFICES Kept(poll[w], copy[w], row, now)'
    BY SingleWorker DEF Single
<1>. USE DEF Kept, Row
<1>3. CASE Clock
    BY <1>1, <1>3 DEF Clock
<1>4. CASE Pause \/ Activate \/ Delete
    BY <1>1, <1>4 DEF Pause, Activate, Delete
<1>5. CASE FindDue(w)
    BY <1>1, <1>5 DEF FindDue, Due, Move
<1>6. CASE StartExecution(w) \/ StartFails(w)
    BY <1>1, <1>6 DEF StartExecution, StartFails, Created, Move
<1>7. CASE WorkflowGone(w)
    BY <1>1, <1>7 DEF WorkflowGone, Move
<1>8. CASE RecordRun(w)
  <2>1. /\ poll'[w] = "write" /\ UNCHANGED row /\ poll[w] = "queued"
        /\ copy'[w].runs = row.runs + 1
        /\ MaxRuns # 0 /\ copy[w].runs + 1 >= MaxRuns => copy'[w].status = "completed"
        /\ copy'[w].status \in {"active", "completed"}
      BY <1>1, <1>8 DEF RecordRun, Move
  <2>2. Periodic => copy'[w].next = now + 1
      BY <1>8, Zenon DEF RecordRun
  <2>. QED BY <1>1, <2>1, <2>2
<1>9. CASE WriteBack(w) \/ UpdateFails(w) \/ WorkerStops(w)
    BY <1>1, <1>9 DEF WriteBack, UpdateFails, WorkerStops, Move
<1>10. CASE UNCHANGED scheduleVars
    BY <1>1, <1>10 DEF scheduleVars
<1>. QED BY <1>3, <1>4, <1>5, <1>6, <1>7, <1>8, <1>9, <1>10 DEF ScheduleNext, WorkerStep

\* The executions queued for each due time.
LEMMA FiredStep ==
    ASSUME NEW w, Worker = {w}, Periodic, ScheduleTypeOK, ScheduleTypeOK',
           CopyInv, FiredInv,
           [ScheduleNext]_scheduleVars
    PROVE  FiredInv'
<1>. DEFINE open == Open(poll[w], copy[w])
<1>0. /\ w \in Worker /\ row \in Row /\ copy[w] \in Row /\ row' \in Row
      /\ copy'[w] \in Row /\ misfires \in Nat /\ misfires' \in Nat
      /\ Kept(poll[w], copy[w], row, now)
    BY SingleWorker DEF Single, ScheduleTypeOK
<1>1. SUFFICES ASSUME NEW t \in 0..MaxTime
               PROVE  fired'[t] <= misfires' + One(t < row'.next \/ (t = row'.next /\ open'))
    BY SingleWorker DEF Single, FiredInv, One
<1>2. /\ fired[t] <= misfires + One(t < row.next \/ (t = row.next /\ open))
      /\ fired[t] \in Nat
    BY SingleWorker DEF Single, FiredInv, One, ScheduleTypeOK
<1>3. ASSUME UNCHANGED <<fired, misfires>>, row'.next = row.next, open => open'
      PROVE  fired'[t] <= misfires' + One(t < row'.next \/ (t = row'.next /\ open'))
    BY <1>0, <1>2, <1>3 DEF One, Row
<1>4. CASE Clock \/ UNCHANGED scheduleVars \/ Pause \/ Activate \/ Delete
  <2>1. /\ UNCHANGED <<fired, misfires, poll, copy>>
        /\ row' = row \/ \E s : row' = [row EXCEPT !.status = s]
      BY <1>4 DEF Clock, Pause, Activate, Delete, scheduleVars
  <2>2. row'.next = row.next
      BY <1>0, <2>1 DEF Row
  <2>. QED BY <1>3, <2>1, <2>2
<1>5. CASE FindDue(w) \/ WorkflowGone(w) \/ RecordRun(w)
  <2>1. UNCHANGED <<fired, misfires, row>>
      BY <1>5 DEF FindDue, WorkflowGone, RecordRun
  <2>2. open => open'
    <3>1. CASE FindDue(w) \/ WorkflowGone(w)
        BY <3>1 DEF FindDue, WorkflowGone, Open
    <3>2. CASE RecordRun(w)
      <4>1. copy[w].status = "active" /\ poll'[w] = "write"
          BY <1>0, <3>2 DEF RecordRun, Move, Kept, ScheduleTypeOK
      <4>2. copy'[w].status \in {"active", "completed"}
          BY <1>0, <3>2, <4>1 DEF RecordRun, ScheduleTypeOK
      <4>. QED BY <4>1, <4>2 DEF Open
    <3>. QED BY <1>5, <3>1, <3>2
  <2>. QED BY <1>3, <2>1, <2>2
<1>6. CASE StartExecution(w)
  <2>1. /\ poll[w] = "due" /\ copy[w].next = row.next /\ poll'[w] = "queued"
        /\ UNCHANGED <<row, misfires>>
        /\ fired' = [fired EXCEPT ![row.next] = @ + 1]
      BY <1>0, <1>6 DEF StartExecution, Created, Kept, Move, ScheduleTypeOK
  <2>2. ~open /\ open'
      BY <2>1 DEF Open
  <2>3. CASE t = row.next
      BY <1>0, <1>2, <2>1, <2>2, <2>3 DEF One, Row, ScheduleTypeOK
  <2>4. CASE t # row.next
      BY <1>0, <1>2, <2>1, <2>2, <2>4 DEF One, Row, ScheduleTypeOK
  <2>. QED BY <2>3, <2>4
<1>7. CASE WriteBack(w)
  <2>1. /\ UNCHANGED <<fired, misfires>> /\ row' = copy[w]
        /\ poll[w] = "write" /\ poll'[w] = "idle"
      BY <1>0, <1>7 DEF WriteBack, Move, ScheduleTypeOK
  <2>2. CASE copy[w].status = "failed"
      BY <1>3, <1>0, <2>1, <2>2 DEF Open, Kept
  <2>3. CASE copy[w].status # "failed"
      BY <1>0, <1>2, <2>1, <2>3 DEF Kept, One, Row
  <2>. QED BY <2>2, <2>3
<1>8. CASE UpdateFails(w) \/ WorkerStops(w)
  <2>1. /\ UNCHANGED <<fired, row>> /\ misfires' >= misfires
        /\ open => misfires' = misfires + 1
      BY <1>0, <1>8 DEF UpdateFails, WorkerStops, Open
  <2>. QED BY <1>0, <1>2, <2>1 DEF One, Row
<1>9. CASE StartFails(w)
  <2>1. /\ poll[w] = "due" /\ copy[w].next = row.next /\ UNCHANGED row
        /\ \/ UNCHANGED <<fired, misfires>>
           \/ /\ misfires' = misfires + 1
              /\ fired' = [fired EXCEPT ![row.next] = @ + 1]
      BY <1>0, <1>9 DEF StartFails, Created, Kept
  <2>2. ~open
      BY <2>1 DEF Open
  <2>3. fired'[t] <= fired[t] + (misfires' - misfires)
    <3>1. fired \in [0..MaxTime -> Nat]
        BY DEF ScheduleTypeOK
    <3>2. CASE UNCHANGED <<fired, misfires>>
        BY <1>0, <1>2, <3>2
    <3>3. CASE misfires' = misfires + 1 /\ fired' = [fired EXCEPT ![row.next] = @ + 1]
      <4>1. fired'[t] = fired[t] \/ fired'[t] = fired[t] + 1
          BY <3>1, <3>3
      <4>. QED BY <1>0, <1>2, <3>3, <4>1
    <3>. QED BY <2>1, <3>2, <3>3
  <2>4. fired'[t] \in Nat
      BY DEF ScheduleTypeOK
  <2>. QED BY <1>0, <1>2, <2>1, <2>2, <2>3, <2>4 DEF One, Row
<1>. QED BY <1>4, <1>5, <1>6, <1>7, <1>8, <1>9 DEF ScheduleNext, WorkerStep

\* The executions queued in all.
LEMMA StartedStep ==
    ASSUME NEW w, Worker = {w}, ScheduleTypeOK, ScheduleTypeOK', CopyInv, StartedInv,
           [ScheduleNext]_scheduleVars
    PROVE  StartedInv'
<1>. DEFINE open == Open(poll[w], copy[w])
            busy == poll[w] = "due" \/ open
            Count(n, r, m, b) == n <= r.runs + m + One(b)
            Room(r, a, b) == /\ r.runs <= MaxRuns + a
                             /\ r.status = "active" \/ b => r.runs < MaxRuns + a
<1>0. /\ w \in Worker /\ row \in Row /\ copy[w] \in Row /\ row' \in Row
      /\ copy'[w] \in Row /\ misfires \in Nat /\ misfires' \in Nat
      /\ started \in Nat /\ activated \in Nat /\ activated' \in Nat /\ MaxRuns \in Nat
      /\ Kept(poll[w], copy[w], row, now)
    BY SingleWorker, ScheduleAssumption DEF Single, ScheduleTypeOK
<1>1. /\ Count(started, row, misfires, open)
      /\ MaxRuns # 0 => Room(row, activated, busy)
    BY SingleWorker DEF Single, StartedInv, One
<1>2. SUFFICES /\ Count(started', row', misfires', open')
               /\ MaxRuns # 0 => Room(row', activated', busy')
    BY SingleWorker DEF Single, StartedInv, One
<1>3. CASE Clock \/ UNCHANGED scheduleVars
    BY <1>1, <1>3 DEF Clock, scheduleVars
<1>4. CASE Pause \/ Activate \/ Delete
  <2>1. UNCHANGED <<started, misfires, poll, copy>> /\ row'.runs = row.runs
      BY <1>0, <1>4 DEF Pause, Activate, Delete, Row
  <2>2. CASE Pause \/ Delete
    <3>1. activated' = activated /\ row'.status # "active"
        BY <1>0, <2>2 DEF Pause, Delete, Row
    <3>. QED BY <1>1, <2>1, <3>1
  <2>3. CASE Activate
    <3>1. activated' = activated + IF row.runs >= MaxRuns THEN 1 ELSE 0
        BY <2>3 DEF Activate
    <3>. QED BY <1>0, <1>1, <2>1, <3>1 DEF Row
  <2>. QED BY <1>4, <2>2, <2>3
<1>5. CASE FindDue(w)
  <2>1. /\ UNCHANGED <<started, misfires, row, activated>> /\ row.status = "active"
        /\ poll[w] = "idle" /\ poll'[w] = "due"
      BY <1>0, <1>5 DEF FindDue, Due, Move, ScheduleTypeOK
  <2>2. ~open /\ ~open'
      BY <2>1 DEF Open
  <2>. QED BY <1>1, <2>1, <2>2 DEF One
<1>6. CASE StartFails(w) \/ WorkflowGone(w)
  <2>1. /\ UNCHANGED <<row, activated>> /\ poll[w] = "due"
        /\ poll'[w] = "idle" \/ (poll'[w] = "write" /\ copy'[w].status = "failed")
      BY <1>0, <1>6 DEF StartFails, WorkflowGone, Move, ScheduleTypeOK, Row
  <2>2. ~open /\ ~open' /\ ~busy'
      BY <2>1 DEF Open
  <2>3. \/ UNCHANGED <<started, misfires>>
        \/ started' = started + 1 /\ misfires' = misfires + 1
      BY <1>6 DEF StartFails, WorkflowGone, Created
  <2>. QED BY <1>0, <1>1, <2>1, <2>2, <2>3 DEF One, Row
<1>7. CASE StartExecution(w)
  <2>1. /\ UNCHANGED <<misfires, row, activated>> /\ started' = started + 1
        /\ poll[w] = "due" /\ poll'[w] = "queued"
      BY <1>0, <1>7 DEF StartExecution, Created, Move, ScheduleTypeOK
  <2>2. ~open /\ open' /\ busy
      BY <2>1 DEF Open
  <2>. QED BY <1>0, <1>1, <2>1, <2>2 DEF One, Row
<1>8. CASE RecordRun(w)
  <2>1. /\ UNCHANGED <<started, misfires, row, activated>>
        /\ poll[w] = "queued" /\ poll'[w] = "write"
      BY <1>0, <1>8 DEF RecordRun, Move, ScheduleTypeOK
  <2>2. open /\ busy
      BY <2>1 DEF Open
  <2>3. copy'[w].status # "failed"
    <3>1. copy[w].status = "active"
        BY <1>0, <2>1 DEF Kept
    <3>. QED BY <1>0, <1>8, <3>1 DEF RecordRun, ScheduleTypeOK
  <2>4. open' /\ busy'
      BY <2>1, <2>3 DEF Open
  <2>. QED BY <1>1, <2>1, <2>2, <2>4 DEF One
<1>9. CASE WriteBack(w)
  <2>1. /\ UNCHANGED <<started, misfires, activated>> /\ row' = copy[w]
        /\ poll[w] = "write" /\ poll'[w] = "idle"
      BY <1>0, <1>9 DEF WriteBack, Move, ScheduleTypeOK
  <2>2. ~open' /\ ~busy'
      BY <2>1 DEF Open
  <2>3. CASE copy[w].status = "failed"
    <3>1. ~open /\ row'.runs = row.runs /\ row'.status # "active"
        BY <1>0, <2>1, <2>3 DEF Open, Kept
    <3>. QED BY <1>1, <2>1, <2>2, <3>1 DEF One
  <2>4. CASE copy[w].status # "failed"
    <3>1. /\ open /\ busy /\ row'.runs = row.runs + 1
          /\ MaxRuns # 0 /\ row'.status = "active" => row'.runs < MaxRuns
        BY <1>0, <2>1, <2>4 DEF Open, Kept
    <3>. QED BY <1>0, <1>1, <2>1, <2>2, <3>1 DEF One, Row
  <2>. QED BY <2>3, <2>4
<1>10. CASE UpdateFails(w) \/ WorkerStops(w)
  <2>1. /\ UNCHANGED <<started, row, activated>> /\ misfires' >= misfires
        /\ open => misfires' = misfires + 1
        /\ poll'[w] = "idle"
      BY <1>0, <1>10 DEF UpdateFails, WorkerStops, Open, Move, ScheduleTypeOK
  <2>2. ~open' /\ ~busy'
      BY <2>1 DEF Open
  <2>. QED BY <1>0, <1>1, <2>1, <2>2 DEF One, Row
<1>. QED BY <1>3, <1>4, <1>5, <1>6, <1>7, <1>8, <1>9, <1>10 DEF ScheduleNext, WorkerStep

LEMMA ScheduleInvariance ==
    ASSUME NEW w, Worker = {w}
    PROVE  ScheduleSpec =>
             [](ScheduleTypeOK /\ CopyInv /\ StartedInv /\ (Periodic => FiredInv))
<1>. DEFINE Inv == ScheduleTypeOK /\ CopyInv /\ StartedInv /\ (Periodic => FiredInv)
<1>1. ScheduleInit => Inv
  <2>. SUFFICES ASSUME ScheduleInit
                PROVE  Inv
      OBVIOUS
  <2>1. ScheduleTypeOK
      BY ScheduleAssumption DEF ScheduleInit, ScheduleTypeOK, Row, RowStatus
  <2>2. ~Open(poll[w], copy[w]) /\ poll[w] = "idle"
      BY DEF ScheduleInit, Open
  <2>3. CopyInv /\ FiredInv
      BY <2>2, ScheduleAssumption, SingleWorker DEF Single, ScheduleInit, Kept, FiredInv
  <2>4. StartedInv
      BY <2>2, ScheduleAssumption, SingleWorker DEF Single, ScheduleInit, StartedInv
  <2>. QED BY <2>1, <2>3, <2>4
<1>2. Inv /\ [ScheduleNext]_scheduleVars => Inv'
    BY ScheduleTyping, CopyStep, FiredStep, StartedStep
<1>. QED BY <1>1, <1>2, PTL DEF ScheduleSpec

\* A single worker creates at most one execution for one due time, and one more for
\* each run it could not record, also when a start throws after its row, through
\* pauses, activations and deletions in between (ScheduleWorker.tick, executeSchedule).
THEOREM QueuedOncePerDueTime ==
    ASSUME NEW w, Worker = {w}, Periodic  PROVE ScheduleSpec => []FiredOncePerDueTime
<1>1. ScheduleTypeOK /\ FiredInv => FiredOncePerDueTime
  <2>. SUFFICES ASSUME ScheduleTypeOK, FiredInv, NEW t \in 0..MaxTime
                PROVE  fired[t] <= 1 + misfires
      BY DEF FiredOncePerDueTime
  <2>. QED BY DEF FiredInv, ScheduleTypeOK
<1>. QED BY ScheduleInvariance, <1>1, PTL

\* A single worker keeps to maxRuns, but for runs it could not record and schedules
\* activated again after their last run (Schedule.recordRun, activate).
THEOREM KeepsToMaxRuns ==
    ASSUME NEW w, Worker = {w}  PROVE ScheduleSpec => []MaxRunsKept
<1>1. ScheduleTypeOK /\ CopyInv /\ StartedInv => MaxRunsKept
  <2>. SUFFICES ASSUME ScheduleTypeOK, StartedInv, MaxRuns # 0
                PROVE  started <= MaxRuns + misfires + activated
      BY DEF MaxRunsKept
  <2>1. /\ row.runs \in Nat /\ misfires \in Nat /\ activated \in Nat /\ started \in Nat
        /\ MaxRuns \in Nat
      BY ScheduleAssumption DEF ScheduleTypeOK, Row
  <2>2. CASE \E v \in Worker : Unrecorded(v)
      BY <2>1, <2>2 DEF StartedInv
  <2>3. CASE ~\E v \in Worker : Unrecorded(v)
      BY <2>1, <2>3 DEF StartedInv
  <2>. QED BY <2>2, <2>3
<1>. QED BY ScheduleInvariance, <1>1, PTL

-----------------------------------------------------------------------------
(* MeshClient *)

LEMMA MeshTyping == MeshTypeOK /\ [MeshNext]_meshVars => MeshTypeOK'
<1>. SUFFICES ASSUME MeshTypeOK, [MeshNext]_meshVars  PROVE MeshTypeOK'
    OBVIOUS
<1>. USE MeshAssumption DEF MeshTypeOK
<1>1. CASE TimePasses
    BY <1>1 DEF TimePasses
<1>2. ASSUME NEW q \in ProxyRequest, Admit(q) \/ Refuse(q)  PROVE MeshTypeOK'
    BY <1>2 DEF Admit, Refuse
<1>3. ASSUME NEW q \in ProxyRequest, Answer(q)  PROVE MeshTypeOK'
    BY <1>3 DEF Answer, Closed
<1>4. ASSUME NEW q \in ProxyRequest, AttemptFails(q)  PROVE MeshTypeOK'
    BY <1>4 DEF AttemptFails
<1>5. ASSUME NEW q \in ProxyRequest, GiveUp(q)  PROVE MeshTypeOK'
    BY <1>5 DEF GiveUp
<1>6. CASE UNCHANGED meshVars
    BY <1>6 DEF meshVars
<1>. QED BY <1>1, <1>2, <1>3, <1>4, <1>5, <1>6 DEF MeshNext

LEMMA BreakerStep ==
    ASSUME MeshTypeOK, BreakerInv, [MeshNext]_meshVars
    PROVE  BreakerInv'
<1>. USE MeshAssumption DEF MeshTypeOK, BreakerInv, Tripped, Expired
<1>1. CASE TimePasses
    BY <1>1 DEF TimePasses
<1>2. ASSUME NEW q \in ProxyRequest, Admit(q)  PROVE BreakerInv'
    BY <1>2 DEF Admit
<1>3. ASSUME NEW q \in ProxyRequest, Refuse(q) \/ AttemptFails(q)  PROVE BreakerInv'
    BY <1>3 DEF Refuse, AttemptFails
<1>4. ASSUME NEW q \in ProxyRequest, Answer(q)  PROVE BreakerInv'
    BY <1>4 DEF Answer, Closed
<1>5. ASSUME NEW q \in ProxyRequest, GiveUp(q)  PROVE BreakerInv'
    BY <1>5 DEF GiveUp
<1>6. CASE UNCHANGED meshVars
    BY <1>6 DEF meshVars
<1>. QED BY <1>1, <1>2, <1>3, <1>4, <1>5, <1>6 DEF MeshNext

LEMMA MeshInvariance == MeshSpec => [](MeshTypeOK /\ BreakerInv)
<1>1. MeshInit => MeshTypeOK /\ BreakerInv
    BY MeshAssumption DEF MeshInit, MeshTypeOK, BreakerInv, Closed, Tripped, Expired
<1>2. MeshTypeOK /\ BreakerInv /\ [MeshNext]_meshVars => MeshTypeOK' /\ BreakerInv'
    BY MeshTyping, BreakerStep
<1>. QED BY <1>1, <1>2, PTL DEF MeshSpec

\* Requests, attempts and the breaker's state keep their types (mesh-client.ts).
THEOREM MeshTypeCorrect == MeshSpec => []MeshTypeOK
BY MeshInvariance, PTL

\* Whichever requests report late, none is let through a breaker that has
\* counted Threshold failures before ResetTimeout has passed (canExecute).
THEOREM HotBreakerRefuses == MeshSpec => AdmittedWhenCool
<1>. DEFINE Cool == \A q \in ProxyRequest :
                      proxy[q] = "new" /\ proxy'[q] = "trying" /\ Tripped => Expired
<1>1. MeshTypeOK /\ BreakerInv /\ [MeshNext]_meshVars => [Cool]_meshVars
  <2>. SUFFICES ASSUME MeshTypeOK, BreakerInv, MeshNext, NEW q \in ProxyRequest,
                       proxy[q] = "new", proxy'[q] = "trying", Tripped
                PROVE  Expired
      BY DEF meshVars
  <2>1. Admit(q)
      BY DEF MeshNext, MeshTypeOK, TimePasses, Admit, Refuse, Answer, AttemptFails, GiveUp
  <2>. QED BY <2>1 DEF Admit, BreakerInv
<1>. QED BY MeshInvariance, <1>1, PTL DEF MeshSpec, AdmittedWhenCool

-----------------------------------------------------------------------------
(* NotificationStream *)

\* What a tick sends is in its snapshot; all that is new, if there is room.
LEMMA UnsentRows ==
    ASSUME NEW n \in Nat, StreamTypeOK, lastSeen <= newest
    PROVE  /\ Unsent(n) \subseteq 1..n
           /\ n - newest <= Window => \A k \in 1..n : k > newest => k \in Unsent(n)
<1>. USE StreamAssumption DEF StreamTypeOK
<1>1. Unsent(n) \subseteq 1..n
    BY DEF Unsent, Recent
<1>2. ASSUME n - newest <= Window, NEW k \in 1..n, k > newest  PROVE k \in Unsent(n)
  <2>1. k \in Recent(n) /\ k > lastSeen /\ n # lastSeen
      BY <1>2 DEF Recent
  <2>. QED BY <2>1 DEF Unsent
<1>. QED BY <1>1, <1>2

LEMMA StreamTyping ==
    StreamTypeOK /\ StreamInv /\ [StreamNext]_streamVars => StreamTypeOK'
<1>. SUFFICES ASSUME StreamTypeOK, StreamInv, [StreamNext]_streamVars
              PROVE  StreamTypeOK'
    OBVIOUS
<1>. USE StreamAssumption DEF StreamTypeOK, requests, sent
<1>1. CASE CreateRow
  <2>1. 0..rows \subseteq 0..rows' /\ 1..rows \subseteq 1..rows' /\ rows + 1 \in 1..rows'
        /\ rows' \in Nat
      BY <1>1 DEF CreateRow
  <2>2. unpushed' \subseteq 1..rows'
      BY <1>1, <2>1 DEF CreateRow
  <2>. QED BY <1>1, <2>1, <2>2 DEF CreateRow
<1>2. ASSUME NEW k \in 1..rows, Push(k)  PROVE StreamTypeOK'
  <2>1. Later(newest, k) \in 0..rows /\ k \in 0..rows
      BY DEF Later
  <2>2. /\ UNCHANGED <<rows, stream, first, refresh, snapshot, repeated, since, burst>>
        /\ unpushed' \subseteq unpushed
        /\ shown' = shown \/ shown' = shown \cup {k}
        /\ lastSeen' = lastSeen \/ lastSeen' = k
        /\ newest' = newest \/ newest' = Later(newest, k)
      BY <1>2 DEF Push
  <2>3. overtaken' \in BOOLEAN
      BY <1>2 DEF Push
  <2>. QED BY <2>1, <2>2, <2>3
<1>3. CASE ReadFirst \/ ConnectFails \/ Close
  <2>1. rows \in 0..rows /\ UNCHANGED <<rows, unpushed, snapshot, sent>>
        /\ stream' \in {"read", "open", "closed"}
      BY <1>3 DEF ReadFirst, ConnectFails, Close
  <2>2. first' \in 0..rows
      BY <1>3 DEF ReadFirst, ConnectFails, Close
  <2>3. refresh' \in [Tick -> {"idle", "asked", "read"}]
      BY <1>3 DEF ReadFirst, ConnectFails, Close
  <2>. QED BY <2>1, <2>2, <2>3
<1>4. CASE Connect
  <2>1. Recent(first) \subseteq 1..rows
      BY DEF Recent
  <2>2. Later(1, first - Window + 1) \in Nat \ {0}
      BY DEF Later
  <2>. QED BY <1>4, <2>1, <2>2 DEF Connect
<1>5. ASSUME NEW t \in Tick, Ask(t) \/ Read(t) \/ ReadFails(t)  PROVE StreamTypeOK'
  <2>1. CASE Read(t)
      BY <2>1 DEF Read
  <2>2. CASE Ask(t) \/ ReadFails(t)
      BY <2>2 DEF Ask, ReadFails
  <2>. QED BY <1>5, <2>1, <2>2
<1>6. ASSUME NEW t \in Tick, Refresh(t)  PROVE StreamTypeOK'
  <2>1. snapshot[t] \in Nat /\ snapshot[t] <= rows
      OBVIOUS
  <2>2. Unsent(snapshot[t]) \subseteq 1..rows
      BY <2>1, UnsentRows DEF StreamInv
  <2>3. Later(newest, snapshot[t]) \in 0..rows
      BY DEF Later
  <2>. QED BY <1>6, <2>2, <2>3 DEF Refresh
<1>7. CASE UNCHANGED streamVars
    BY <1>7 DEF streamVars
<1>. QED BY <1>1, <1>2, <1>3, <1>4, <1>5, <1>6, <1>7 DEF StreamNext

LEMMA StreamStep ==
    ASSUME StreamTypeOK, StreamInv, [StreamNext]_streamVars
    PROVE  StreamInv'
<1>. USE StreamAssumption DEF StreamTypeOK, StreamInv, NothingMissed, requests, sent
<1>1. CASE CreateRow \/ ReadFirst \/ ConnectFails \/ Close \/ UNCHANGED streamVars
    BY <1>1 DEF CreateRow, ReadFirst, ConnectFails, Close, streamVars
<1>2. ASSUME NEW k \in 1..rows, Push(k)  PROVE StreamInv'
  <2>1. CASE stream = "closed"
      BY <1>2, <2>1 DEF Push
  <2>2. CASE stream # "closed"
    <3>1. /\ shown' = shown \cup {k} /\ lastSeen' = k /\ newest' = Later(newest, k)
          /\ overtaken' = (overtaken \/ ~(since..(k - 1) \subseteq shown))
          /\ UNCHANGED <<since, burst>>
        BY <1>2, <2>2 DEF Push
    <3>2. lastSeen' <= newest'
        BY <3>1 DEF Later
    <3>3. ASSUME ~burst', ~overtaken', NEW i \in since..newest'  PROVE i \in shown'
      <4>1. ~overtaken /\ ~burst /\ since..(k - 1) \subseteq shown
          BY <3>1, <3>3, Zenon
      <4>2. since..newest \subseteq shown
          BY <4>1
      <4>3. i \in since..newest \/ i \in since..(k - 1) \/ i = k
          BY <3>1, <3>3 DEF Later
      <4>. QED BY <3>1, <4>1, <4>2, <4>3
    <3>4. NothingMissed'
        BY <3>1, <3>3
    <3>. QED BY <3>2, <3>4
  <2>. QED BY <2>1, <2>2
<1>3. CASE Connect
  <2>1. /\ lastSeen' = first /\ newest' = first /\ shown' = shown \cup Recent(first)
        /\ since' = Later(1, first - Window + 1)
      BY <1>3 DEF Connect
  <2>2. ASSUME NEW i \in since'..newest'  PROVE i \in shown'
      BY <2>1, <2>2 DEF Later, Recent
  <2>. QED BY <2>1, <2>2
<1>4. ASSUME NEW t \in Tick, Ask(t) \/ Read(t) \/ ReadFails(t)  PROVE StreamInv'
    BY <1>4 DEF Ask, Read, ReadFails
<1>5. ASSUME NEW t \in Tick, Refresh(t)  PROVE StreamInv'
  <2>. DEFINE n == snapshot[t]
  <2>1. /\ shown' = shown \cup Unsent(n)
        /\ newest' = Later(newest, n) /\ lastSeen' = n
        /\ burst' = (burst \/ n - newest > Window)
        /\ UNCHANGED <<since, overtaken>>
        /\ n \in Nat
      BY <1>5 DEF Refresh
  <2>2. lastSeen' <= newest'
      BY <2>1 DEF Later
  <2>3. ASSUME ~burst', ~overtaken', NEW k \in since..newest'  PROVE k \in shown'
    <3>1. ~burst /\ ~overtaken /\ n - newest <= Window
      <4>1. ~burst /\ ~overtaken /\ ~(n - newest > Window)
          BY <2>1, <2>3, Zenon
      <4>2. n - newest \in Int /\ Window \in Int
          BY <2>1
      <4>. QED BY <4>1, <4>2
    <3>2. CASE k <= newest
        BY <2>1, <3>1, <3>2
    <3>3. CASE k > newest
      <4>1. k \in 1..n
          BY <2>1, <3>3 DEF Later
      <4>. QED BY <2>1, <3>1, <3>3, <4>1, UnsentRows
    <3>. QED BY <2>1, <3>2, <3>3 DEF Later
  <2>4. NothingMissed'
      BY <2>1, <2>3
  <2>. QED BY <2>2, <2>4
<1>. QED BY <1>1, <1>2, <1>3, <1>4, <1>5 DEF StreamNext

LEMMA StreamInvariance == StreamSpec => [](StreamTypeOK /\ StreamInv)
<1>1. StreamInit => StreamTypeOK /\ StreamInv
  <2>. SUFFICES ASSUME StreamInit  PROVE StreamTypeOK /\ StreamInv
      OBVIOUS
  <2>1. rows \in Nat /\ since = 1 /\ newest = 0 /\ lastSeen = 0
      BY DEF StreamInit
  <2>2. lastSeen <= newest /\ \A k \in since..newest : k \in shown
      BY <2>1
  <2>3. StreamInv
    <3>1. since..newest \subseteq shown
        BY <2>2
    <3>. HIDE DEF StreamInit
    <3>. QED BY ONLY <2>2, <3>1, Zenon DEF StreamInv, NothingMissed
  <2>4. /\ unpushed = {} /\ stream = "connect" /\ first = 0 /\ shown = {}
        /\ repeated = {} /\ ~burst /\ ~overtaken
        /\ burst \in BOOLEAN /\ overtaken \in BOOLEAN
      BY DEF StreamInit
  <2>7. refresh = [t \in Tick |-> "idle"] /\ snapshot = [t \in Tick |-> 0]
      BY DEF StreamInit
  <2>5. 0 \in 0..rows
      BY <2>1
  <2>6. StreamTypeOK
      BY ONLY <2>1, <2>4, <2>5, <2>7 DEF StreamTypeOK
  <2>. QED BY <2>3, <2>6
<1>2. StreamTypeOK /\ StreamInv /\ [StreamNext]_streamVars
        => StreamTypeOK' /\ StreamInv'
    BY StreamTyping, StreamStep
<1>. QED BY <1>1, <1>2, PTL DEF StreamSpec

\* Rows, queries, pushes and what was sent keep their types (notification-stream.ts).
THEOREM StreamTypeCorrect == StreamSpec => []StreamTypeOK
BY StreamInvariance, PTL

\* Up to the newest row handled the client was sent every row since its snapshot,
\* however the answers of overlapping ticks and the pushes are ordered, as long as
\* each answer has room and no push goes past rows that were not sent yet.
THEOREM NoRowMissed == StreamSpec => []NothingMissed
<1>1. StreamInv => NothingMissed
    BY DEF StreamInv
<1>. QED BY StreamInvariance, <1>1, PTL
=============================================================================
