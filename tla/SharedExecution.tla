-------------------------- MODULE SharedExecution --------------------------
(***************************************************************************)
(* Several runs of one execution: the first one, recoveries, and the runs  *)
(* a start-up queues for executions that others are executing.  They share *)
(* the checkpoint table and the node leases and nothing else.              *)
(*                                                                         *)
(* Composition of DagRunner (one run), NodeLease (here: who holds the      *)
(* lease, which may lapse under its holder) and the stores of dag-worker.  *)
(* The life of a node is DagRunner's without gates, children and loops;    *)
(* the order of compensation is shown there, so stack is a set here.       *)
(***************************************************************************)
EXTENDS Integers, FiniteSets

CONSTANTS
    Run, Node,
    Edges,         \* <<source, target>> pairs of the graph
    MaxAttempts,   \* node -> retryPolicy.maxAttempts
    Overlap,       \* a run may begin while another is at work
    None,          \* no run
    Faults         \* what the environment of this instance may do

Key == UNION {{n} \X (1..MaxAttempts[n]) : n \in Node}
FaultKinds == {"fail", "lapse", "crash"}

ASSUME SharedAssumption ==
    /\ Edges \subseteq Node \X Node
    /\ MaxAttempts \in [Node -> Nat \ {0}]
    /\ Overlap \in BOOLEAN
    /\ None \notin Run
    /\ Faults \subseteq FaultKinds

VARIABLES
    state,      \* where run() stands
    failed,     \* the run's failed flag
    loaded,     \* completedNodes: checkpoints found when the run began
    at,         \* where processNode stands
    attempt,    \* attempt number of executeWithRetries
    unlocked,   \* nodes whose completion the run propagated downstream
    stack,      \* nodes on the run's sagaStack
    holder,     \* run that holds a node's lease
    status,     \* status of the checkpoint row of (node, attempt)
    writer,     \* run that inserted that row
    undone      \* nodes whose effect a run has compensated

table == <<status, writer>>
vars == <<state, failed, loaded, at, attempt, unlocked, stack, holder, table,
          undone>>

States == {"queued", "running", "compensating", "completed", "failed",
           "threw", "crashed"}
Places == {"idle", "lease", "refused", "probe", "save", "execute",
           "release", "done", "rejected"}

TypeOK ==
    /\ state \in [Run -> States]
    /\ failed \in [Run -> BOOLEAN]
    /\ loaded \in [Run -> SUBSET Node]
    /\ at \in [Run -> [Node -> Places]]
    /\ attempt \in [Run -> [Node -> Nat \ {0}]]
    /\ \A r \in Run : \A n \in Node : attempt[r][n] <= MaxAttempts[n]
    /\ unlocked \in [Run -> SUBSET Node]
    /\ stack \in [Run -> SUBSET Node]
    /\ holder \in [Node -> Run \cup {None}]
    /\ status \in [Key -> {"none", "running", "success", "failed"}]
    /\ writer \in [Key -> Run \cup {None}]
    /\ undone \subseteq Node

Init ==
    /\ state = [r \in Run |-> "queued"]
    /\ failed = [r \in Run |-> FALSE]
    /\ loaded = [r \in Run |-> {}]
    /\ at = [r \in Run |-> [n \in Node |-> "idle"]]
    /\ attempt = [r \in Run |-> [n \in Node |-> 1]]
    /\ unlocked = [r \in Run |-> {}]
    /\ stack = [r \in Run |-> {}]
    /\ holder = [n \in Node |-> None]
    /\ status = [x \in Key |-> "none"]
    /\ writer = [x \in Key |-> None]
    /\ undone = {}

-----------------------------------------------------------------------------
Pred(n) == {m \in Node : <<m, n>> \in Edges}

Rows(n) == {x \in Key : x[1] = n /\ status[x] # "none"}

Succeeded(n) == \E x \in Rows(n) : status[x] = "success"

Ended(r) == state[r] \in {"completed", "failed", "threw", "crashed"}

\* Nodes of a thrown run go on: nothing cancels their promises.
Alive(r) == state[r] \notin {"queued", "crashed"}

AtRest(r, n) == at[r][n] \in {"idle", "refused", "done", "rejected"}

\* What the scheduling loop would start now.
Ready(r, n) ==
    /\ at[r][n] = "idle" /\ n \notin loaded[r]
    /\ Pred(n) \subseteq unlocked[r]

Move(r, n, place) == at' = [at EXCEPT ![r][n] = place]

\* run() begins: loadCompleted.
Begin(r) ==
    /\ state[r] = "queued"
    /\ Overlap \/ \A q \in Run : state[q] = "queued" \/ Ended(q)
    /\ state' = [state EXCEPT ![r] = "running"]
    /\ loaded' = [loaded EXCEPT ![r] = {n \in Node : Succeeded(n)}]
    /\ UNCHANGED <<failed, at, attempt, unlocked, stack, holder, table, undone>>

\* The loop starts a node.  Loaded nodes leave the queue without unlocking.
Start(r, n) ==
    /\ state[r] = "running" /\ ~failed[r] /\ Ready(r, n)
    /\ Move(r, n, "lease")
    /\ UNCHANGED <<state, failed, loaded, attempt, unlocked, stack, holder,
                   table, undone>>

\* leaseStore.acquire, as NodeLease promises it.
TakeLease(r, n) ==
    /\ Alive(r) /\ at[r][n] = "lease" /\ holder[n] = None
    /\ holder' = [holder EXCEPT ![n] = r]
    /\ Move(r, n, "probe")
    /\ UNCHANGED <<state, failed, loaded, attempt, unlocked, stack, table,
                   undone>>

RefuseLease(r, n) ==
    /\ Alive(r) /\ at[r][n] = "lease" /\ holder[n] # None
    /\ Move(r, n, "refused")
    /\ UNCHANGED <<state, failed, loaded, attempt, unlocked, stack, holder,
                   table, undone>>

\* unlockDownstream does nothing once the run has failed.
Propagate(r, n) ==
    unlocked' = [unlocked EXCEPT ![r] = IF failed[r] THEN @ ELSE @ \cup {n}]

\* Defect: any row of the node counts, whatever its status.
ProbeHitAnyRow(r, n) ==
    /\ Alive(r) /\ at[r][n] = "probe" /\ Rows(n) # {}
    /\ Propagate(r, n)
    /\ Move(r, n, "release")
    /\ UNCHANGED <<state, failed, loaded, attempt, stack, holder, table, undone>>

\* isComplete looks at one row of the node, whichever findFirst returns.
ProbeHit(r, n) ==
    /\ Alive(r) /\ at[r][n] = "probe" /\ Succeeded(n)
    /\ Propagate(r, n)
    /\ Move(r, n, "release")
    /\ UNCHANGED <<state, failed, loaded, attempt, stack, holder, table, undone>>

ProbeMiss(r, n) ==
    /\ Alive(r) /\ at[r][n] = "probe"
    /\ Rows(n) = {} \/ \E x \in Rows(n) : status[x] # "success"
    /\ Move(r, n, "save")
    /\ UNCHANGED <<state, failed, loaded, attempt, unlocked, stack, holder,
                   table, undone>>

\* Defect: the row is written over (upsert) instead of inserted.
SaveOver(r, n) ==
    /\ Alive(r) /\ at[r][n] = "save"
    /\ status' = [status EXCEPT ![<<n, attempt[r][n]>>] = "running"]
    /\ writer' = [writer EXCEPT ![<<n, attempt[r][n]>>] = r]
    /\ Move(r, n, "execute")
    /\ UNCHANGED <<state, failed, loaded, attempt, unlocked, stack, holder,
                   undone>>

\* checkpointStore.save of the running attempt: the key is free ...
Save(r, n) ==
    /\ Alive(r) /\ at[r][n] = "save"
    /\ status[<<n, attempt[r][n]>>] = "none"
    /\ status' = [status EXCEPT ![<<n, attempt[r][n]>>] = "running"]
    /\ writer' = [writer EXCEPT ![<<n, attempt[r][n]>>] = r]
    /\ Move(r, n, "execute")
    /\ UNCHANGED <<state, failed, loaded, attempt, unlocked, stack, holder,
                   undone>>

\* ... or the unique key refuses the row: processNode rejects, Promise.race
\* with it and run() throws, unless the run is past its loop or leaves it first.
SaveConflict(r, n) ==
    /\ Alive(r) /\ at[r][n] = "save"
    /\ status[<<n, attempt[r][n]>>] # "none"
    /\ Move(r, n, "rejected")
    /\ \/ /\ state[r] = "running"
          /\ state' = [state EXCEPT ![r] = "threw"]
       \/ /\ state[r] # "running" \/ failed[r]
          /\ UNCHANGED state
    /\ UNCHANGED <<failed, loaded, attempt, unlocked, stack, holder, table,
                   undone>>

\* executor.execute and the success update.  What follows up to lease.release
\* (sagaStack, unlockDownstream) only this run can see.
Succeed(r, n) ==
    /\ Alive(r) /\ at[r][n] = "execute"
    /\ status' = [status EXCEPT ![<<n, attempt[r][n]>>] = "success"]
    /\ stack' = [stack EXCEPT ![r] = @ \cup {n}]
    /\ Propagate(r, n)
    /\ Move(r, n, "release")
    /\ UNCHANGED <<state, failed, loaded, attempt, holder, writer, undone>>

\* Defect: one attempt too many.
FailOneMore(r, n) ==
    /\ "fail" \in Faults /\ Alive(r) /\ at[r][n] = "execute"
    /\ status' = [status EXCEPT ![<<n, attempt[r][n]>>] = "failed"]
    /\ attempt' = [attempt EXCEPT ![r][n] = @ + 1]
    /\ Move(r, n, "save")
    /\ UNCHANGED <<state, failed, loaded, unlocked, stack, holder, writer, undone>>

\* Defect: the success update arrives, its answer does not, and the node is tried
\* again without the failure update.
FailAfterSuccess(r, n) ==
    /\ "fail" \in Faults /\ Alive(r) /\ at[r][n] = "execute"
    /\ attempt[r][n] < MaxAttempts[n]
    /\ status' = [status EXCEPT ![<<n, attempt[r][n]>>] = "success"]
    /\ attempt' = [attempt EXCEPT ![r][n] = @ + 1]
    /\ Move(r, n, "save")
    /\ UNCHANGED <<state, failed, loaded, unlocked, stack, holder, writer, undone>>

\* The executor fails, or the success update after its effect does: failure
\* update, then the next attempt or the end of the node.
Fail(r, n) ==
    /\ "fail" \in Faults /\ Alive(r) /\ at[r][n] = "execute"
    /\ status' = [status EXCEPT ![<<n, attempt[r][n]>>] = "failed"]
    /\ IF attempt[r][n] < MaxAttempts[n]
         THEN /\ attempt' = [attempt EXCEPT ![r][n] = @ + 1]
              /\ Move(r, n, "save") /\ UNCHANGED failed
         ELSE /\ failed' = [failed EXCEPT ![r] = TRUE]
              /\ Move(r, n, "release") /\ UNCHANGED attempt
    /\ UNCHANGED <<state, loaded, unlocked, stack, holder, writer, undone>>

\* lease.release never rejects: where it fails the lease is left to lapse.
Release(r, n) ==
    /\ Alive(r) /\ at[r][n] = "release"
    /\ holder' = [holder EXCEPT ![n] = IF @ = r THEN None ELSE @] \/ UNCHANGED holder
    /\ Move(r, n, "done")
    /\ UNCHANGED <<state, failed, loaded, attempt, unlocked, stack, table,
                   undone>>

\* Defect: completes while nodes are still active.
CompleteEarly(r) ==
    /\ state[r] = "running" /\ ~failed[r]
    /\ \A n \in Node : ~Ready(r, n)
    /\ state' = [state EXCEPT ![r] = "completed"]
    /\ UNCHANGED <<failed, loaded, at, attempt, unlocked, stack, holder, table,
                   undone>>

\* Nothing is active or ready: execution.completed.
Complete(r) ==
    /\ state[r] = "running" /\ ~failed[r]
    /\ \A n \in Node : AtRest(r, n) /\ ~Ready(r, n)
    /\ state' = [state EXCEPT ![r] = "completed"]
    /\ UNCHANGED <<failed, loaded, at, attempt, unlocked, stack, holder, table,
                   undone>>

\* The run failed and its active nodes have settled: runSagaCompensation.
Settle(r) ==
    /\ state[r] = "running" /\ failed[r]
    /\ \A n \in Node : AtRest(r, n)
    /\ state' = [state EXCEPT ![r] = "compensating"]
    /\ UNCHANGED <<failed, loaded, at, attempt, unlocked, stack, holder, table,
                   undone>>

\* One entry of the stack; its checkpoint row stays as it is.
Compensate(r, n) ==
    /\ state[r] = "compensating" /\ n \in stack[r]
    /\ undone' = undone \cup {n}
    /\ stack' = [stack EXCEPT ![r] = @ \ {n}]
    /\ UNCHANGED <<state, failed, loaded, at, attempt, unlocked, holder, table>>

\* execution.failed.
GiveUp(r) ==
    /\ state[r] = "compensating" /\ stack[r] = {}
    /\ state' = [state EXCEPT ![r] = "failed"]
    /\ UNCHANGED <<failed, loaded, at, attempt, unlocked, stack, holder, table,
                   undone>>

Crash(r) ==
    /\ "crash" \in Faults /\ Alive(r)
    /\ ~Ended(r) \/ \E n \in Node : ~AtRest(r, n)
    /\ state' = [state EXCEPT ![r] = "crashed"]
    /\ UNCHANGED <<failed, loaded, at, attempt, unlocked, stack, holder, table,
                   undone>>

\* The lease of a node nobody works at runs out; under a fault, any lease.
Expire(n) ==
    /\ holder[n] # None
    /\ "lapse" \in Faults \/ ~Alive(holder[n]) \/ AtRest(holder[n], n)
    /\ holder' = [holder EXCEPT ![n] = None]
    /\ UNCHANGED <<state, failed, loaded, at, attempt, unlocked, stack, table,
                   undone>>

NodeStep(r, n) ==
    \/ Start(r, n) \/ TakeLease(r, n) \/ RefuseLease(r, n)
    \/ ProbeHit(r, n) \/ ProbeMiss(r, n) \/ Save(r, n) \/ SaveConflict(r, n)
    \/ Succeed(r, n) \/ Fail(r, n) \/ Release(r, n) \/ Compensate(r, n)

RunStep(r) == Begin(r) \/ Complete(r) \/ Settle(r) \/ GiveUp(r)

Next ==
    \/ \E r \in Run : RunStep(r) \/ Crash(r) \/ \E n \in Node : NodeStep(r, n)
    \/ \E n \in Node : Expire(n)

Spec == Init /\ [][Next]_vars

-----------------------------------------------------------------------------
\* The inductive invariant.  Rows: what has a row has a writer, and attempts are
\* numbered from one by one writer.
RowInv ==
    /\ \A x \in Key : status[x] # "none" <=> writer[x] \in Run
    /\ \A n \in Node : \A k \in 1..MaxAttempts[n] :
         status[<<n, k>>] # "none" => /\ status[<<n, 1>>] # "none"
                                     /\ writer[<<n, k>>] = writer[<<n, 1>>]

\* A run at work has its row, and its earlier attempts are its own.
OwnInv ==
    \A r \in Run : \A n \in Node :
        /\ at[r][n] \in {"idle", "lease", "probe"} => attempt[r][n] = 1
        /\ at[r][n] \in {"save", "execute"} /\ attempt[r][n] # 1 => writer[<<n, 1>>] = r
        /\ at[r][n] = "execute" => /\ status[<<n, attempt[r][n]>>] = "running"
                                   /\ writer[<<n, attempt[r][n]>>] = r

\* What a run has propagated has succeeded, and it starts nothing else.
InputInv ==
    \A r \in Run :
        /\ \A n \in unlocked[r] : Succeeded(n)
        /\ \A n \in Node : at[r][n] # "idle" => Pred(n) \subseteq unlocked[r]

\* Who has a lease is past taking it, and who is past the row has left one.
LeaseInv ==
    /\ \A n \in Node : holder[n] # None =>
         at[holder[n]][n] \notin {"idle", "lease", "refused"}
    /\ \A r \in Run : \A n \in Node :
         at[r][n] \in {"execute", "release", "done", "rejected"} => Rows(n) # {}

\* The run that inserted a node's row keeps to it: it propagates the success or
\* has failed, and does not complete over a node that is ready, rejected or at work.
WholeOf(r) ==
    /\ \A n \in loaded[r] : Succeeded(n)
    /\ state[r] = "queued" => \A n \in Node : at[r][n] = "idle"
    /\ state[r] = "completed" =>
         ~failed[r] /\ \A n \in Node : AtRest(r, n) /\ ~Ready(r, n)
    /\ \A n \in Node : at[r][n] \in {"release", "done"} => failed[r] \/ n \in unlocked[r]
    /\ \A n \in Node : at[r][n] = "rejected" =>
         failed[r] \/ state[r] \notin {"running", "completed"}
    /\ \A x \in Key : writer[x] = r =>
         /\ at[r][x[1]] \notin {"idle", "lease", "refused", "probe"}
         /\ status[x] = "success" => failed[r] \/ x[1] \in unlocked[r]

WholeInv == \A r \in Run : WholeOf(r)

\* Attempts at a node follow each other: those before the one at hand have failed,
\* and nobody has made a later one.
AttemptInv ==
    \A r \in Run : \A n \in Node : \A k \in 1..MaxAttempts[n] :
        at[r][n] = "execute" \/ (at[r][n] = "save" /\ attempt[r][n] # 1) =>
            /\ k < attempt[r][n] => status[<<n, k>>] = "failed"
            /\ k > attempt[r][n] => status[<<n, k>>] = "none"

\* What a run is done with has succeeded or was its own, what it propagated it is
\* done with, and it compensates and fails at rest.
DoneInv ==
    \A r \in Run :
        /\ \A n \in unlocked[r] : at[r][n] \in {"release", "done"}
        /\ \A n \in Node : at[r][n] \in {"release", "done"} =>
             Succeeded(n) \/ writer[<<n, 1>>] = r
        /\ state[r] \in {"compensating", "failed"} =>
             failed[r] /\ \A n \in Node : AtRest(r, n)

\* Whoever is refused a node was refused because of a run that stood, or has since
\* crashed, between its lease and its row, or has left the row.  This is no promise
\* that the node will be done: nobody comes back to it for the run that was refused.
RefusedInv ==
    \A r \in Run : \A n \in Node :
        at[r][n] = "refused" =>
            \/ \E q \in Run \ {r} : at[q][n] \in {"probe", "save"}
            \/ Rows(n) # {}

\* Graphs without joins and cycles.
Forest ==
    /\ \A d, e \in Edges : d[2] = e[2] => d = e
    /\ \A S \in SUBSET Node : (\A n \in S : Pred(n) \cap S # {}) => S = {}

\* A node is executed by one run of the execution at most, whatever leases
\* lapse, runs crash or attempts fail: the key (execution, node, attempt) of
\* the checkpoint table keeps everybody else out.
ExecutedByOneRun ==
    \A n \in Node : \A x, y \in Rows(n) : writer[x] = writer[y]

\* A run works at a node only when every predecessor has succeeded, in this
\* run or in another one.
InputsSucceeded ==
    \A r \in Run : \A n \in Node :
        at[r][n] # "idle" => \A m \in Pred(n) : Succeeded(m)

\* A node recorded as a success is at no run's executor and is not tried again:
\* neither by the run that retries it, nor by one whose lease lapses under it or
\* whose probe finds another row of the node.
SuccessIsFinal ==
    \A r \in Run : \A n \in Node : at[r][n] = "execute" => ~Succeeded(n)

\* "Skip (will be picked up on expiry)": when every run that was begun has
\* completed, every node of the graph has succeeded, whoever did which.
SharedRunIsWhole ==
    (\E r \in Run : state[r] # "queued")
        /\ (\A r \in Run : state[r] \in {"queued", "completed"})
        => \A n \in Node : Succeeded(n)

\* "Restarts the node from scratch": a run that follows a crashed one is not
\* turned away by the row of the node that was in flight.
InFlightNodeRestarts ==
    \A r \in Run : \A n \in Node :
        at[r][n] = "rejected" =>
            \A x \in Rows(n) : state[writer[x]] # "crashed"

\* The effects of a completed execution stand: what an earlier run compensated
\* is not taken for done.
CompletedEffectsStand ==
    \A r \in Run : state[r] = "completed" => undone \cap (loaded[r] \cup unlocked[r]) = {}

-----------------------------------------------------------------------------
(* Each run seen from outside: RunContract without its compensation, whose *)
(* order this module leaves open.  A node whose rows are another run's was *)
(* skipped.                                                                *)

Phase(r) ==
    IF state[r] = "queued" THEN "loading"
    ELSE IF state[r] = "compensating" THEN "running"
    ELSE IF state[r] = "crashed" THEN "dead" ELSE state[r]

FateOf(r, n) ==
    IF at[r][n] = "idle" THEN "waiting"
    ELSE IF at[r][n] = "refused" THEN "refused"
    ELSE IF at[r][n] = "rejected" THEN "threw"
    ELSE IF at[r][n] \notin {"release", "done"} THEN "working"
    ELSE IF ~Succeeded(n) THEN "failed"
    ELSE IF writer[<<n, 1>>] = r THEN "success" ELSE "skipped"

Contract(r) == INSTANCE RunContract WITH
    Saga <- FALSE, phase <- Phase(r), before <- loaded[r],
    fate <- [n \in Node |-> FateOf(r, n)], failing <- failed[r], undone <- {}

\* Whatever the other runs do to checkpoints and leases, each run keeps the
\* contract it would keep alone, until its process dies.
EachKeepsContract == \A r \in Run : Contract(r)!MortalSpec
=============================================================================
