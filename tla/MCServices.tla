----------------------------- MODULE MCServices -----------------------------
(***************************************************************************)
(* The components around the execution service that share no state with it *)
(* or with each other, one of them in each behaviour: part says which, the *)
(* others stand still.                                                     *)
(***************************************************************************)
EXTENDS EventDelivery, TenantMigration, ScheduleWorker, MeshClient,
        NotificationStream

CONSTANTS p1, p2, p3, c1, c2, m1, m2, q1, q2, q3

VARIABLE part

\* Two replicas of one consumer, the second with two handlers, and another consumer.
TwoConsumers == [p \in Process |-> IF p = p3 THEN c2 ELSE c1]
TwoAtSecond == [p \in Process |-> IF p = p2 THEN 2 ELSE 1]

\* All requests about one migration, or one of them about another; every other
\* choice is one of these with migrations and requests renamed.
SameMigration == [q \in Request |-> m1]
Plans == {SameMigration, [SameMigration EXCEPT ![q3] = m2]}

servicesVars == <<eventVars, migrationVars, scheduleVars, meshVars, streamVars>>

ServicesInit ==
    /\ part \in {"events", "migration", "schedule", "mesh", "stream"}
    /\ EventInit /\ ScheduleInit /\ MeshInit
    /\ MigrationInit /\ of \in IF part = "migration" THEN Plans ELSE {SameMigration}
    /\ StreamInit /\ (part # "stream" => rows = 0)

ServicesNext ==
    /\ UNCHANGED part
    /\ \/ /\ part = "events" /\ EventNext
          /\ UNCHANGED <<migrationVars, scheduleVars, meshVars, streamVars>>
       \/ /\ part = "migration" /\ MigrationNext
          /\ UNCHANGED <<eventVars, scheduleVars, meshVars, streamVars>>
       \/ /\ part = "schedule" /\ ScheduleNext
          /\ UNCHANGED <<eventVars, migrationVars, meshVars, streamVars>>
       \/ /\ part = "mesh" /\ MeshNext
          /\ UNCHANGED <<eventVars, migrationVars, scheduleVars, streamVars>>
       \/ /\ part = "stream" /\ StreamNext
          /\ UNCHANGED <<eventVars, migrationVars, scheduleVars, meshVars>>

\* Fairness is asked of the component that moves.
ServicesFairness ==
    /\ \A w \in Worker : WF_scheduleVars(part = "schedule" /\ WorkerStep(w))
    /\ WF_streamVars(part = "stream" /\ ReadFirst)
    /\ WF_streamVars(part = "stream" /\ Connect)
    /\ \A t \in Tick :
         /\ WF_streamVars(part = "stream" /\ Ask(t))
         /\ WF_streamVars(part = "stream" /\ Refresh(t))
         /\ SF_streamVars(part = "stream" /\ Read(t))

ServicesSpec == ServicesInit /\ [][ServicesNext]_<<servicesVars, part>>
                             /\ ServicesFairness
=============================================================================
