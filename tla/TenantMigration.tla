-------------------------- MODULE TenantMigration --------------------------
(***************************************************************************)
(* Migrations of one tenant to other placements (api-gateway,              *)
(* TenantMigrationService): requests plan, execute and roll back; each one *)
(* reads the migration's status once and then writes migration row and     *)
(* placement row statement by statement, outside any transaction.          *)
(*                                                                         *)
(* Left out: the Kubernetes resources, the steps' progress in the row, the *)
(* copy of the data (its result is recorded, never looked at) and the tier *)
(* assignment, which only a rollback writes.                               *)
(*                                                                         *)
(* Every statement about the placement names a column status, which the    *)
(* schema of this commit does not have: such a statement is then rejected. *)
(***************************************************************************)
EXTENDS Integers, FiniteSets

CONSTANTS
    Migration,       \* migrations, and the clusters they lead to
    Source,          \* the cluster the tenant starts on
    Request,         \* execute and rollback requests
    StatusColumn,    \* tenant_placement has a column status
    MigrationFaults  \* what the environment of this instance may do;
                     \* at most one request is cut short

MigrationFaultKinds == {"step", "write", "stop"}

ASSUME MigrationAssumption ==
    /\ Source \notin Migration /\ Request # {}
    /\ StatusColumn \in BOOLEAN
    /\ MigrationFaults \subseteq MigrationFaultKinds

VARIABLES
    status,      \* status of the migration's row, "planning" before there is one
    from,        \* fromCluster in that row
    cluster,     \* clusterId of the tenant's placement
    placement,   \* status of the placement
    at,          \* where a request stands
    of,          \* migration the request is about
    latest,      \* history: request that began last
    before,      \* history: cluster of the tenant when execute began
    overlapped,  \* history: two requests have been at work at the same time
    broken       \* history: a request was cut short

history == <<latest, before, overlapped>>
migrationVars == <<status, from, cluster, placement, at, of, history, broken>>

Cluster == Migration \cup {Source}
ExecuteSteps == {"start", "migrate", "provision", "copy", "switch", "finish",
                 "activate"}
FailureSteps == {"fail", "reactivate"}
RollbackSteps == {"restore", "rollback"}
PlacementSteps == {"migrate", "provision", "switch", "activate", "reactivate",
                   "restore"}
Working == ExecuteSteps \cup FailureSteps \cup RollbackSteps

MigrationTypeOK ==
    /\ status \in [Migration -> {"none", "planning", "planned", "in_progress",
                                 "completed", "failed", "rolled_back"}]
    /\ from \in [Migration -> Cluster]
    /\ cluster \in Cluster
    /\ placement \in {"active", "migrating", "provisioning"}
    /\ at \in [Request -> {"idle", "done"} \cup Working]
    /\ of \in [Request -> Migration]
    /\ latest \in Request /\ before \in [Migration -> Cluster]
    /\ overlapped \in BOOLEAN /\ broken \in BOOLEAN

MigrationInit ==
    /\ status = [m \in Migration |-> "none"]
    /\ from = [m \in Migration |-> Source]
    /\ cluster = Source /\ placement = "active"
    /\ at = [r \in Request |-> "idle"]
    /\ of \in [Request -> Migration]
    /\ latest = CHOOSE r \in Request : TRUE
    /\ before = [m \in Migration |-> Source]
    /\ overlapped = FALSE /\ broken = FALSE

-----------------------------------------------------------------------------
Busy == \E r \in Request : at[r] \in Working

Goto(r, step) == at' = [at EXCEPT ![r] = step]
SetStatus(r, s) == status' = [status EXCEPT ![of[r]] = s]

Rejected(r) == at[r] \in PlacementSteps /\ ~StatusColumn

Begin(r) == latest' = r /\ overlapped' = (overlapped \/ Busy)

\* planMigration reads where the tenant is now; ...
ReadPlacement(m) ==
    /\ status[m] = "none"
    /\ status' = [status EXCEPT ![m] = "planning"]
    /\ from' = [from EXCEPT ![m] = cluster]
    /\ UNCHANGED <<cluster, placement, at, of, history, broken>>

\* ... the route then creates the migration's row with it.
PlanMigration(m) ==
    /\ status[m] = "planning"
    /\ status' = [status EXCEPT ![m] = "planned"]
    /\ UNCHANGED <<from, cluster, placement, at, of, history, broken>>

\* executeMigration reads the row: it must be planned.
Execute(r) ==
    /\ at[r] = "idle" /\ status[of[r]] = "planned"
    /\ Goto(r, "start")
    /\ Begin(r) /\ before' = [before EXCEPT ![of[r]] = cluster]
    /\ UNCHANGED <<status, from, cluster, placement, of, broken>>

\* rollbackMigration reads the row: failed or in progress.
Rollback(r) ==
    /\ at[r] = "idle" /\ status[of[r]] \in {"failed", "in_progress"}
    /\ Goto(r, "restore")
    /\ Begin(r)
    /\ UNCHANGED <<status, from, cluster, placement, of, before, broken>>

Start(r) ==
    /\ at[r] = "start"
    /\ SetStatus(r, "in_progress") /\ Goto(r, "migrate")
    /\ UNCHANGED <<from, cluster, placement, of, history, broken>>

Migrate(r) ==
    /\ at[r] = "migrate" /\ StatusColumn
    /\ placement' = "migrating" /\ Goto(r, "provision")
    /\ UNCHANGED <<status, from, cluster, of, history, broken>>

\* provisionTargetResources moves the placement before anything is copied.
Provision(r) ==
    /\ at[r] = "provision" /\ StatusColumn
    /\ cluster' = of[r] /\ placement' = "provisioning" /\ Goto(r, "copy")
    /\ UNCHANGED <<status, from, of, history, broken>>

\* replicateData, syncDataWithCutover, verifyDataIntegrity.
Copy(r) ==
    /\ at[r] = "copy"
    /\ Goto(r, "switch")
    /\ UNCHANGED <<status, from, cluster, placement, of, history, broken>>

\* switchTraffic; cleanupOldResources changes nothing here.
Switch(r) ==
    /\ at[r] = "switch" /\ StatusColumn
    /\ cluster' = of[r] /\ placement' = "active" /\ Goto(r, "finish")
    /\ UNCHANGED <<status, from, of, history, broken>>

Finish(r) ==
    /\ at[r] = "finish"
    /\ SetStatus(r, "completed") /\ Goto(r, "activate")
    /\ UNCHANGED <<from, cluster, placement, of, history, broken>>

\* The last update: of a completed migration, or of the catch block.
MarkActive(r) ==
    /\ at[r] \in {"activate", "reactivate"} /\ StatusColumn
    /\ placement' = "active" /\ Goto(r, "done")
    /\ UNCHANGED <<status, from, cluster, of, history, broken>>

\* A step inside the try throws, whether or not its statement was applied.
StepFails(r) ==
    /\ "step" \in MigrationFaults \/ Rejected(r)
    /\ at[r] \in ExecuteSteps \ {"start"}
    /\ Goto(r, "fail")
    /\ UNCHANGED <<status, from, cluster, placement, of, history, broken>>

\* Defect: the catch block leaves the placement as it is.
FailOnly(r) ==
    /\ at[r] = "fail"
    /\ SetStatus(r, "failed") /\ Goto(r, "done")
    /\ UNCHANGED <<from, cluster, placement, of, history, broken>>

\* The catch block: the tenant stays on whichever cluster it has come to.
Fail(r) ==
    /\ at[r] = "fail"
    /\ SetStatus(r, "failed") /\ Goto(r, "reactivate")
    /\ UNCHANGED <<from, cluster, placement, of, history, broken>>

\* Defect: rollback returns to the cluster the tenant was first placed on.
RestoreSource(r) ==
    /\ at[r] = "restore" /\ StatusColumn
    /\ cluster' = Source /\ placement' = "active" /\ Goto(r, "rollback")
    /\ UNCHANGED <<status, from, of, history, broken>>

Restore(r) ==
    /\ at[r] = "restore" /\ StatusColumn
    /\ cluster' = from[of[r]] /\ placement' = "active" /\ Goto(r, "rollback")
    /\ UNCHANGED <<status, from, of, history, broken>>

RollBack(r) ==
    /\ at[r] = "rollback"
    /\ SetStatus(r, "rolled_back") /\ Goto(r, "done")
    /\ UNCHANGED <<from, cluster, placement, of, history, broken>>

\* A statement outside the try fails and the request with it; the tenant may
\* have no tier assignment for a rollback to update.
WriteFails(r) ==
    /\ Rejected(r) \/ ("write" \in MigrationFaults /\ ~broken)
    /\ at[r] \in {"start"} \cup FailureSteps \cup RollbackSteps
    /\ Goto(r, "done")
    /\ broken' = TRUE
    /\ UNCHANGED <<status, from, cluster, placement, of, history>>

\* The gateway stops with the request.
RequestStops(r) ==
    /\ "stop" \in MigrationFaults /\ ~broken
    /\ at[r] \in Working
    /\ Goto(r, "done")
    /\ broken' = TRUE
    /\ UNCHANGED <<status, from, cluster, placement, of, history>>

MigrationNext ==
    \/ \E m \in Migration : ReadPlacement(m) \/ PlanMigration(m)
    \/ \E r \in Request :
         \/ Execute(r) \/ Rollback(r) \/ Start(r) \/ Migrate(r) \/ Provision(r)
         \/ Copy(r) \/ Switch(r) \/ Finish(r) \/ MarkActive(r) \/ StepFails(r)
         \/ Fail(r) \/ Restore(r) \/ RollBack(r) \/ WriteFails(r) \/ RequestStops(r)

MigrationSpec == MigrationInit /\ [][MigrationNext]_migrationVars

-----------------------------------------------------------------------------
\* The inductive invariant behind PlacementSettles: who takes the placement out
\* of use is on the way to put it back.
UnsettledInv ==
    placement # "active" /\ ~broken =>
        \E r \in Request : at[r] \in {"provision", "copy", "switch", "finish",
                                      "activate", "fail", "reactivate"}

\* A tenant is not left migrating or provisioning: when no request is at work
\* the placement is in use, however executions and rollbacks overlapped and
\* whatever failed inside them, unless a request was cut short.
PlacementSettles == ~Busy /\ ~broken => placement = "active"

\* After requests that came one after the other the tenant is where the verdict
\* of the last one says: on the target of a completed migration, back on the
\* cluster it was planned from after a rollback.
VerdictMatchesPlacement ==
    ~Busy /\ ~overlapped /\ ~broken =>
        LET m == of[latest] IN
        /\ status[m] = "completed" => cluster = m
        /\ status[m] = "rolled_back" => cluster = from[m]

\* A migration reported completed has moved the tenant, also when a rollback
\* was asked for while it was in progress.
CompletedHasMoved ==
    \A m \in Migration :
        /\ ~Busy /\ ~broken /\ status[m] = "completed"
        /\ \A n \in Migration \ {m} : status[n] \in {"none", "planning", "planned"}
        => cluster = m

\* A rollback takes the tenant back to where the migration found it.
RollbackReturns ==
    \A m \in Migration :
        ~Busy /\ ~overlapped /\ ~broken /\ m = of[latest]
            /\ status[m] = "rolled_back" => cluster = before[m]
=============================================================================
