----------------------------- MODULE DagRunner -----------------------------
(***************************************************************************)
(* One call of DAGRunner.run() in packages/workflow-engine: the scheduling *)
(* loop over the ready queue, the life of every node (lease, idempotency   *)
(* probe, approval gate, child workflow, bounded loop, retries with        *)
(* checkpoints), the execution timeout and the saga compensation.          *)
(*                                                                         *)
(* JavaScript runs one callback at a time.  A step of the model is the     *)
(* code between two awaits; while the scheduling loop drains its queue     *)
(* (main = "fill") nothing else runs, which is what Yielded states.        *)
(***************************************************************************)
EXTENDS Integers, Sequences, FiniteSets

CONSTANTS
    Node,          \* ids of the graph's nodes
    Edges,         \* <<source, target>> pairs of the graph
    Kind,          \* node -> "task" | "gate" | "child" | "awaitedChild" | "loop"
    Rejected,      \* nodes refused before any attempt: no executor, bad loop bound
    MaxAttempts,   \* node -> retryPolicy.maxAttempts
    Iterations,    \* node -> loop.maxIterations, already below the tenant's cap
    MaxParallel,   \* maxParallelNodes, 0 means no limit
    MaxDepth,      \* maxChildWorkflowDepth
    StartDepth,    \* context.childWorkflowDepth when the run starts
    EnableSaga,
    UniqueKeys,    \* the store refuses a second row for (execution, node, attempt)
    Checkpointed,  \* nodes an earlier run of the execution finished
    EarlierRows,   \* <<node, attempt>> checkpoint rows earlier runs left behind
    Faults         \* what the environment of this instance may do

Kinds == {"task", "gate", "child", "awaitedChild", "loop"}
FaultKinds == {"lease", "peer", "write", "throw", "timeout"}

ASSUME GraphAssumption ==
    /\ IsFiniteSet(Node)
    /\ Edges \subseteq Node \X Node
    /\ Kind \in [Node -> Kinds]
    /\ Rejected \subseteq {n \in Node : Kind[n] \in {"task", "loop"}}
    /\ MaxAttempts \in [Node -> Nat \ {0}]
    /\ Iterations \in [Node -> Nat \ {0}]
ASSUME OptionAssumption ==
    /\ MaxParallel \in Nat /\ MaxDepth \in Nat /\ StartDepth \in Nat
    /\ EnableSaga \in BOOLEAN /\ UniqueKeys \in BOOLEAN
    /\ Checkpointed \subseteq Node
    /\ EarlierRows \subseteq Node \X (Nat \ {0})
    /\ Faults \subseteq FaultKinds

VARIABLES
    main,           \* where run() stands
    ready,          \* readyQueue: its order is the graph's, hence arbitrary
    active,         \* keys of the active map; inFlight coincides with it
    raced,          \* promises given to the Promise.race being awaited
    inDegree,       \* localInDegree
    completedNodes, \* keys of completedNodes
    sharedState,    \* nodes whose output is in context.sharedState
    pc,             \* where processNode(n) stands
    attempt,        \* attempt number of executeWithRetries
    iteration,      \* iteration of executeBoundedLoop
    results,        \* what run() will return, in order
    sagaStack,
    undo,           \* entries of sagaStack runSagaCompensation has yet to visit
    undone,         \* entries it visited, in order
    failed,
    aborted,        \* abortController.signal.aborted
    outcome,        \* terminal event emitted, or "threw"
    leases,         \* nodes whose lease this run took and has not released
    rows,           \* checkpoint rows by <<node, attempt>>
    stored,         \* nodes with a successful checkpoint, whoever wrote it
    childDepth,     \* context.childWorkflowDepth, shared by all nodes
    unlocked        \* history: nodes whose completion was propagated downstream

sched == <<main, ready, active, raced, inDegree, completedNodes>>
work  == <<pc, attempt, iteration, results, sharedState, childDepth>>
saga  == <<sagaStack, undo, undone>>
ending == <<failed, aborted, outcome>>
store == <<leases, rows, stored>>
vars  == <<sched, work, saga, ending, store, unlocked>>

-----------------------------------------------------------------------------
Pred(n) == {m \in Node : <<m, n>> \in Edges}

InitialDegree == [n \in Node |-> Cardinality(Pred(n))]

Roots == {n \in Node : Pred(n) = {}}

Outcome(n, s) == [node |-> n, status |-> s]

HasResult(n, s) == \E i \in 1..Len(results) : results[i] = Outcome(n, s)

\* A node's work is finished in this run: executed, or found already done.
Finished(n) == HasResult(n, "success") \/ HasResult(n, "skipped")

Yielded == main # "fill"

HasRoom == MaxParallel = 0 \/ Cardinality(active) < MaxParallel

Init ==
    /\ main = "load" /\ ready = {} /\ active = {} /\ raced = {}
    /\ inDegree = InitialDegree
    /\ completedNodes = {} /\ sharedState = {}
    /\ pc = [n \in Node |-> "idle"]
    /\ attempt = [n \in Node |-> 0]
    /\ iteration = [n \in Node |-> 0]
    /\ results = <<>> /\ sagaStack = <<>> /\ undo = 0 /\ undone = <<>>
    /\ failed = FALSE /\ aborted = FALSE /\ outcome = "none"
    /\ leases = {} /\ rows = EarlierRows /\ stored = Checkpointed
    /\ childDepth = StartDepth /\ unlocked = {}

-----------------------------------------------------------------------------
(* run(): resume, the scheduling loop, the drain, the terminal event.      *)

\* loadCompleted, then seed the queue.  run() throws when loadCompleted does, and
\* when topologicalSort returns nothing, which is when no node is a root.
Load ==
    /\ main = "load"
    /\ \/ /\ (Roots = {} /\ Node # {}) \/ "throw" \in Faults
          /\ main' = "end" /\ outcome' = "threw"
          /\ UNCHANGED <<ready, completedNodes, sharedState>>
       \/ /\ Roots # {} \/ Node = {}
          /\ main' = "fill" /\ ready' = Roots
          /\ completedNodes' = stored /\ sharedState' = stored
          /\ UNCHANGED outcome
    /\ UNCHANGED <<active, raced, inDegree, pc, attempt, iteration, results,
                   childDepth, saga, failed, aborted, store, unlocked>>

\* A checkpointed node leaves the queue without unlocking its successors.
DropCompleted(n) ==
    /\ main = "fill" /\ n \in ready /\ HasRoom
    /\ n \in completedNodes \cup active
    /\ ready' = ready \ {n}
    /\ UNCHANGED <<main, active, raced, inDegree, completedNodes, work, saga,
                   ending, store, unlocked>>

\* processNode(n) runs up to its first await, leaseStore.acquire.  Its own
\* checks of aborted and failed cannot fire: nothing ran since the loop's check.
StartNode(n) ==
    /\ main = "fill" /\ n \in ready /\ HasRoom
    /\ n \notin completedNodes \cup active
    /\ ready' = ready \ {n}
    /\ active' = active \cup {n}
    /\ pc' = [pc EXCEPT ![n] = "lease"]
    /\ UNCHANGED <<main, raced, inDegree, completedNodes, attempt, iteration,
                   results, sharedState, childDepth, saga, ending, store, unlocked>>

\* The queue is drained or the pool is full: race the active promises.
FillDone ==
    /\ main = "fill"
    /\ ready = {} \/ ~HasRoom
    /\ main' = IF active = {} THEN "settle" ELSE "race"
    /\ raced' = active
    /\ UNCHANGED <<ready, active, inDegree, completedNodes, work, saga, ending,
                   store, unlocked>>

\* Defect: the loop goes on after a node has failed.
RefillAfterFailure ==
    /\ main = "race" /\ ~(raced \subseteq active) /\ ~aborted
    /\ ready # {} \/ active # {}
    /\ main' = "fill"
    /\ UNCHANGED <<ready, active, raced, inDegree, completedNodes, work, saga,
                   ending, store, unlocked>>

\* Defect: the loop ends when the queue is empty though nodes are active.
LeaveLoopEarly ==
    /\ main = "race" /\ ~(raced \subseteq active)
    /\ failed \/ ready = {}
    /\ main' = "settle"
    /\ UNCHANGED <<ready, active, raced, inDegree, completedNodes, work, saga,
                   ending, store, unlocked>>

\* The race resolved: one of the raced promises left the active map.
Woken == main = "race" /\ ~(raced \subseteq active)

Refill ==
    /\ Woken /\ ~failed /\ ~aborted
    /\ ready # {} \/ active # {}
    /\ main' = "fill"
    /\ UNCHANGED <<ready, active, raced, inDegree, completedNodes, work, saga,
                   ending, store, unlocked>>

\* The timeout is noticed only here, and only while work remains.
NoticeTimeout ==
    /\ Woken /\ ~failed /\ aborted
    /\ ready # {} \/ active # {}
    /\ failed' = TRUE
    /\ main' = "settle"
    /\ UNCHANGED <<ready, active, raced, inDegree, completedNodes, work, saga,
                   aborted, outcome, store, unlocked>>

LeaveLoop ==
    /\ Woken
    /\ failed \/ (ready = {} /\ active = {})
    /\ main' = "settle"
    /\ UNCHANGED <<ready, active, raced, inDegree, completedNodes, work, saga,
                   ending, store, unlocked>>

\* A raced promise rejected: run() throws, the other nodes keep running.
RaceRejects ==
    /\ main = "race"
    /\ \E n \in raced : pc[n] = "threw"
    /\ main' = "end"
    /\ outcome' = "threw"
    /\ UNCHANGED <<ready, active, raced, inDegree, completedNodes, work, saga,
                   failed, aborted, store, unlocked>>

\* Defect: the verdict does not wait for the nodes still active.
SettleAtOnce ==
    /\ main = "settle"
    /\ IF failed /\ EnableSaga /\ sagaStack # <<>>
         THEN main' = "saga" /\ undo' = Len(sagaStack) /\ UNCHANGED outcome
         ELSE /\ main' = "end"
              /\ outcome' = IF failed THEN "failed" ELSE "completed"
              /\ UNCHANGED undo
    /\ UNCHANGED <<ready, active, raced, inDegree, completedNodes, work,
                   sagaStack, undone, failed, aborted, store, unlocked>>

\* Defect: compensation starts one past the end of the stack.
SettlePastEnd ==
    /\ main = "settle"
    /\ \A n \in active : pc[n] = "threw"
    /\ IF failed /\ EnableSaga /\ sagaStack # <<>>
         THEN main' = "saga" /\ undo' = Len(sagaStack) + 1 /\ UNCHANGED outcome
         ELSE /\ main' = "end"
              /\ outcome' = IF failed THEN "failed" ELSE "completed"
              /\ UNCHANGED undo
    /\ UNCHANGED <<ready, active, raced, inDegree, completedNodes, work,
                   sagaStack, undone, failed, aborted, store, unlocked>>

\* Promise.allSettled over what is still active; a rejection settles too.
Settle ==
    /\ main = "settle"
    /\ \A n \in active : pc[n] = "threw"
    /\ IF failed /\ EnableSaga /\ sagaStack # <<>>
         THEN main' = "saga" /\ undo' = Len(sagaStack) /\ UNCHANGED outcome
         ELSE /\ main' = "end"
              /\ outcome' = IF failed THEN "failed" ELSE "completed"
              /\ UNCHANGED undo
    /\ UNCHANGED <<ready, active, raced, inDegree, completedNodes, work,
                   sagaStack, undone, failed, aborted, store, unlocked>>

\* Defect: a compensation that fails ends the rollback.
CompensateUntilFailure ==
    /\ main = "saga" /\ undo > 0
    /\ \E ok \in BOOLEAN :
         /\ undone' = Append(undone, [node |-> sagaStack[undo], ok |-> ok])
         /\ undo' = IF ok THEN undo - 1 ELSE 0
    /\ UNCHANGED <<sched, work, sagaStack, ending, store, unlocked>>

\* Defect: the stack is walked from its first entry.
CompensateOldestFirst ==
    /\ main = "saga" /\ undo > 0
    /\ \E ok \in BOOLEAN :
         undone' = Append(undone, [node |-> sagaStack[Len(sagaStack) + 1 - undo],
                                   ok |-> ok])
    /\ undo' = undo - 1
    /\ UNCHANGED <<sched, work, sagaStack, ending, store, unlocked>>

\* One compensation, last entry first; a failing one does not stop the rest.
Compensate ==
    /\ main = "saga" /\ undo > 0
    /\ \E ok \in BOOLEAN :
         undone' = Append(undone, [node |-> sagaStack[undo], ok |-> ok])
    /\ undo' = undo - 1
    /\ UNCHANGED <<sched, work, sagaStack, ending, store, unlocked>>

SagaDone ==
    /\ main = "saga" /\ undo = 0
    /\ main' = "end"
    /\ outcome' = "failed"
    /\ UNCHANGED <<ready, active, raced, inDegree, completedNodes, work, saga,
                   failed, aborted, store, unlocked>>

MainStep ==
    \/ Load \/ FillDone \/ Refill \/ NoticeTimeout \/ LeaveLoop
    \/ RaceRejects \/ Settle \/ Compensate \/ SagaDone
    \/ \E n \in Node : DropCompleted(n) \/ StartNode(n)

-----------------------------------------------------------------------------
(* processNode(n): one action per await it resumes from.                   *)

At(n, p) == Yielded /\ pc[n] = p
Goto(n, p) == pc' = [pc EXCEPT ![n] = p]

\* Defect: a successor is queued when its degree drops to one as well.
UnlockOffByOne(n) ==
    IF failed
      THEN UNCHANGED <<inDegree, ready, unlocked>>
      ELSE /\ inDegree' = [m \in Node |-> IF n \in Pred(m) THEN inDegree[m] - 1
                                                           ELSE inDegree[m]]
           /\ ready' = ready \cup {m \in Node : n \in Pred(m) /\ inDegree[m] <= 2}
           /\ unlocked' = unlocked \cup {n}

\* unlockDownstream, a no-op once the run has failed.
UnlockDownstream(n) ==
    IF failed
      THEN UNCHANGED <<inDegree, ready, unlocked>>
      ELSE /\ inDegree' = [m \in Node |-> IF n \in Pred(m) THEN inDegree[m] - 1
                                                           ELSE inDegree[m]]
           /\ ready' = ready \cup {m \in Node : n \in Pred(m) /\ inDegree[m] = 1}
           /\ unlocked' = unlocked \cup {n}

\* Defect: the result is returned without going through markComplete.
SucceedUnmarked(n) ==
    /\ results' = Append(results, Outcome(n, "success"))
    /\ sharedState' = sharedState \cup {n}
    /\ Goto(n, "release")
    /\ UNCHANGED failed

\* Defect: the failed result does not fail the run.
FailSilently(n) ==
    /\ results' = Append(results, Outcome(n, "failed"))
    /\ Goto(n, "release")
    /\ UNCHANGED <<sharedState, failed>>

\* processNode got a result: success goes on to markComplete, failure fails the run.
Succeed(n) ==
    /\ results' = Append(results, Outcome(n, "success"))
    /\ sharedState' = sharedState \cup {n}
    /\ Goto(n, "mark")
    /\ UNCHANGED failed

Fail(n) ==
    /\ results' = Append(results, Outcome(n, "failed"))
    /\ failed' = TRUE
    /\ Goto(n, "release")
    /\ UNCHANGED sharedState

GrantLease(n) ==
    /\ At(n, "lease")
    /\ leases' = leases \cup {n}
    /\ Goto(n, "probe")
    /\ UNCHANGED <<sched, attempt, iteration, results, sharedState, childDepth,
                   saga, ending, rows, stored, unlocked>>

\* Defect: the skipped node stays in the active map.
RefuseLeaseStillActive(n) ==
    /\ At(n, "lease") /\ "lease" \in Faults
    /\ Goto(n, "settled")
    /\ UNCHANGED <<sched, attempt, iteration, results, sharedState, childDepth,
                   saga, ending, store, unlocked>>

\* A null lease: the node is skipped, and nothing comes back to it.
RefuseLease(n) ==
    /\ At(n, "lease") /\ "lease" \in Faults
    /\ active' = active \ {n}
    /\ Goto(n, "settled")
    /\ UNCHANGED <<main, ready, raced, inDegree, completedNodes, attempt,
                   iteration, results, sharedState, childDepth, saga, ending,
                   store, unlocked>>

\* idempotencyStore.isComplete found a successful checkpoint.
ProbeHit(n) ==
    /\ At(n, "probe") /\ n \in stored
    /\ sharedState' = sharedState \cup {n}
    /\ results' = Append(results, Outcome(n, "skipped"))
    /\ UnlockDownstream(n)
    /\ Goto(n, "release")
    /\ UNCHANGED <<main, active, raced, completedNodes, attempt, iteration,
                   childDepth, saga, ending, store>>

\* executeNodeWithPolicy up to its first await.
ProbeMiss(n) ==
    /\ At(n, "probe") /\ n \notin stored /\ n \notin Rejected
    /\ Kind[n] \in {"task", "loop", "gate"}
    /\ Goto(n, IF Kind[n] = "gate" THEN "gate" ELSE "save")
    /\ attempt' = [attempt EXCEPT ![n] = 1]
    /\ iteration' = [iteration EXCEPT ![n] = 1]
    /\ UNCHANGED <<sched, results, sharedState, childDepth, saga, ending,
                   store, unlocked>>

RejectNode(n) ==
    /\ At(n, "probe") /\ n \notin stored /\ n \in Rejected
    /\ Kind[n] \in {"task", "loop"}
    /\ Fail(n)
    /\ UNCHANGED <<sched, attempt, iteration, childDepth, saga, aborted, outcome,
                   store, unlocked>>

IsChild(n) == Kind[n] \in {"child", "awaitedChild"}

\* The depth counter lives on the context all nodes of the run share.
SpawnChild(n) ==
    /\ At(n, "probe") /\ n \notin stored /\ IsChild(n)
    /\ childDepth + 1 <= MaxDepth
    /\ childDepth' = childDepth + 1
    /\ Goto(n, "spawn")
    /\ UNCHANGED <<sched, attempt, iteration, results, sharedState, saga, ending,
                   store, unlocked>>

RejectDepth(n) ==
    /\ At(n, "probe") /\ n \notin stored /\ IsChild(n)
    /\ childDepth + 1 > MaxDepth
    /\ Fail(n)
    /\ UNCHANGED <<sched, attempt, iteration, childDepth, saga, aborted, outcome,
                   store, unlocked>>

ChildSpawned(n) ==
    /\ At(n, "spawn")
    /\ \/ Kind[n] = "child" /\ Succeed(n)
       \/ /\ Kind[n] = "awaitedChild"
          /\ Goto(n, "await")
          /\ UNCHANGED <<results, sharedState, failed>>
    /\ UNCHANGED <<sched, attempt, iteration, childDepth, saga, aborted, outcome,
                   store, unlocked>>

\* The polled child reached a terminal status, or the wait timed out.
ChildEnded(n) ==
    /\ At(n, "await")
    /\ Succeed(n) \/ Fail(n)
    /\ UNCHANGED <<sched, attempt, iteration, childDepth, saga, aborted, outcome,
                   store, unlocked>>

\* Defect: the paused branch returns without releasing its lease.
PauseKeepsLease(n) ==
    /\ At(n, "gate")
    /\ results' = Append(results, Outcome(n, "paused"))
    /\ active' = active \ {n}
    /\ Goto(n, "settled")
    /\ UNCHANGED <<main, ready, raced, inDegree, completedNodes, attempt,
                   iteration, sharedState, childDepth, saga, ending, store,
                   unlocked>>

\* writeApprovalGate returned: the node pauses, its branch stops here.
Pause(n) ==
    /\ At(n, "gate")
    /\ results' = Append(results, Outcome(n, "paused"))
    /\ Goto(n, "release")
    /\ UNCHANGED <<sched, attempt, iteration, sharedState, childDepth, saga,
                   ending, store, unlocked>>

RowTaken(n) == UniqueKeys /\ <<n, attempt[n]>> \in rows

\* checkpointStore.save of the running row, outside any try.
Save(n) ==
    /\ At(n, "save") /\ ~RowTaken(n)
    /\ rows' = rows \cup {<<n, attempt[n]>>}
    /\ Goto(n, "execute")
    /\ UNCHANGED <<sched, attempt, iteration, results, sharedState, childDepth,
                   saga, ending, leases, stored, unlocked>>

SaveConflict(n) ==
    /\ At(n, "save") /\ RowTaken(n)
    /\ Goto(n, "threw")
    /\ UNCHANGED <<sched, attempt, iteration, results, sharedState, childDepth,
                   saga, ending, store, unlocked>>

\* executor.execute returned; an exception counts as a failed attempt.
Execute(n) ==
    /\ At(n, "execute")
    /\ Goto(n, "record") \/ Goto(n, "recordFailure")
    /\ UNCHANGED <<sched, attempt, iteration, results, sharedState, childDepth,
                   saga, ending, store, unlocked>>

\* The success update is inside the try: if it fails the attempt has failed.
RecordFails(n) ==
    /\ At(n, "record") /\ "write" \in Faults
    /\ Goto(n, "recordFailure")
    /\ UNCHANGED <<sched, attempt, iteration, results, sharedState, childDepth,
                   saga, ending, store, unlocked>>

RecordSuccess(n) ==
    /\ At(n, "record")
    /\ stored' = stored \cup {n}
    /\ Succeed(n)
    /\ UNCHANGED <<sched, attempt, iteration, childDepth, saga, aborted, outcome,
                   leases, rows, unlocked>>

\* Defect: every loop iteration pushes a result.
LoopAgainWithResult(n) ==
    /\ At(n, "record") /\ Kind[n] = "loop" /\ iteration[n] < Iterations[n]
    /\ stored' = stored \cup {n}
    /\ results' = Append(results, Outcome(n, "success"))
    /\ iteration' = [iteration EXCEPT ![n] = @ + 1]
    /\ attempt' = [attempt EXCEPT ![n] = 1]
    /\ Goto(n, "save")
    /\ UNCHANGED <<sched, sharedState, childDepth, saga, ending, leases, rows,
                   unlocked>>

\* The loop's break conditions do not hold: the attempt counter restarts at 1.
LoopAgain(n) ==
    /\ At(n, "record") /\ Kind[n] = "loop" /\ iteration[n] < Iterations[n]
    /\ stored' = stored \cup {n}
    /\ iteration' = [iteration EXCEPT ![n] = @ + 1]
    /\ attempt' = [attempt EXCEPT ![n] = 1]
    /\ Goto(n, "save")
    /\ UNCHANGED <<sched, results, sharedState, childDepth, saga, ending,
                   leases, rows, unlocked>>

RecordFailure(n) ==
    /\ At(n, "recordFailure")
    /\ \/ /\ attempt[n] < MaxAttempts[n]
          /\ Goto(n, "backoff")
          /\ UNCHANGED <<results, sharedState, failed>>
       \/ attempt[n] >= MaxAttempts[n] /\ Fail(n)
    /\ UNCHANGED <<sched, attempt, iteration, childDepth, saga, aborted, outcome,
                   store, unlocked>>

\* Defect: the retry reuses the row of the failed attempt and its number.
RetrySameAttempt(n) ==
    /\ At(n, "backoff")
    /\ Goto(n, "execute")
    /\ UNCHANGED <<sched, attempt, iteration, results, sharedState, childDepth,
                   saga, ending, store, unlocked>>

Retry(n) ==
    /\ At(n, "backoff")
    /\ attempt' = [attempt EXCEPT ![n] = @ + 1]
    /\ Goto(n, "save")
    /\ UNCHANGED <<sched, iteration, results, sharedState, childDepth, saga,
                   ending, store, unlocked>>

\* markComplete returned: push on the saga stack and unlock the successors.
MarkComplete(n) ==
    /\ At(n, "mark")
    /\ sagaStack' = IF EnableSaga THEN Append(sagaStack, n) ELSE sagaStack
    /\ UnlockDownstream(n)
    /\ Goto(n, "release")
    /\ UNCHANGED <<main, active, raced, completedNodes, attempt, iteration,
                   results, sharedState, childDepth, undo, undone, ending, store>>

Release(n) ==
    /\ At(n, "release")
    /\ leases' = leases \ {n}
    /\ active' = active \ {n}
    /\ Goto(n, "settled")
    /\ UNCHANGED <<main, ready, raced, inDegree, completedNodes, attempt,
                   iteration, results, sharedState, childDepth, saga, ending,
                   rows, stored, unlocked>>

\* Awaits whose rejection nothing in processNode catches.  A rejection leaves
\* the lease behind (the composite store has its database row before Redis fails).
Unguarded == {"lease", "probe", "gate", "spawn", "await", "save", "recordFailure"}

Throw(n) ==
    /\ Yielded /\ pc[n] \in Unguarded /\ "throw" \in Faults
    /\ leases' = leases \cup {n}
    /\ Goto(n, "threw")
    /\ UNCHANGED <<sched, attempt, iteration, results, sharedState, childDepth,
                   saga, ending, rows, stored, unlocked>>

\* Everything processNode(n) does except waiting for the executor.
Bookkeeping(n) ==
    \/ GrantLease(n) \/ RefuseLease(n) \/ ProbeHit(n) \/ ProbeMiss(n)
    \/ RejectNode(n) \/ SpawnChild(n) \/ RejectDepth(n) \/ ChildSpawned(n)
    \/ Pause(n) \/ Save(n) \/ SaveConflict(n) \/ RecordFails(n)
    \/ RecordSuccess(n) \/ LoopAgain(n) \/ RecordFailure(n) \/ Retry(n)
    \/ MarkComplete(n) \/ Release(n) \/ Throw(n)

NodeStep(n) == Bookkeeping(n) \/ Execute(n) \/ ChildEnded(n)

-----------------------------------------------------------------------------
(* The environment: the execution timer and another worker on the run.     *)

Abort ==
    /\ "timeout" \in Faults /\ ~aborted
    /\ main \in {"race", "settle"}
    /\ aborted' = TRUE
    /\ UNCHANGED <<sched, work, saga, failed, outcome, store, unlocked>>

\* Another worker running the same execution checkpoints n.
PeerCompletes(n) ==
    /\ "peer" \in Faults /\ n \notin stored /\ Pred(n) \subseteq stored
    /\ stored' = stored \cup {n}
    /\ UNCHANGED <<sched, work, saga, ending, leases, rows, unlocked>>

Next ==
    \/ MainStep
    \/ \E n \in Node : NodeStep(n) \/ PeerCompletes(n)
    \/ Abort

Spec == Init /\ [][Next]_vars

\* Every await resolves and run() is not starved: its own steps are callbacks
\* of the event loop.  The timer and the other worker need not act.
Fairness == WF_vars(MainStep) /\ \A n \in Node : WF_vars(NodeStep(n))
FairSpec == Spec /\ Fairness

\* As FairSpec, but an executor or an awaited child may never answer.  The
\* timer does fire.
TimerSpec ==
    /\ Spec
    /\ WF_vars(MainStep) /\ WF_vars(Abort)
    /\ \A n \in Node : WF_vars(Bookkeeping(n))

-----------------------------------------------------------------------------
(* What run() promises.                                                    *)

Pcs == {"idle", "lease", "probe", "gate", "spawn", "await", "save", "execute",
        "record", "recordFailure", "backoff", "mark", "release", "settled", "threw"}

Statuses == {"success", "failed", "paused", "skipped"}

SchedTypeOK ==
    /\ main \in {"load", "fill", "race", "settle", "saga", "end"}
    /\ ready \subseteq Node /\ active \subseteq Node /\ raced \subseteq Node
    /\ inDegree \in [Node -> Int]
    /\ completedNodes \subseteq Node

WorkTypeOK ==
    /\ pc \in [Node -> Pcs]
    /\ attempt \in [Node -> Nat] /\ iteration \in [Node -> Nat]
    /\ results \in Seq([node : Node, status : Statuses])
    /\ sharedState \subseteq Node
    /\ childDepth \in Nat

SagaTypeOK ==
    /\ sagaStack \in Seq(Node)
    /\ undo \in 0..Len(sagaStack)
    /\ undone \in Seq([node : Node, ok : BOOLEAN])

StoreTypeOK ==
    /\ failed \in BOOLEAN /\ aborted \in BOOLEAN
    /\ outcome \in {"none", "completed", "failed", "threw"}
    /\ leases \subseteq Node
    /\ rows \subseteq Node \X Nat
    /\ stored \subseteq Node /\ unlocked \subseteq Node

TypeOK == SchedTypeOK /\ WorkTypeOK /\ SagaTypeOK /\ StoreTypeOK

\* The inductive invariant behind the theorems of DagRunner_proofs.  localInDegree
\* counts the predecessors that have not propagated their completion.
DegreeInv == \A n \in Node : inDegree[n] = Cardinality(Pred(n) \ unlocked)

\* A node propagates its completion once, on its way to the lease release.
UnlockedInv ==
    \A n \in unlocked : pc[n] \in {"release", "settled"} /\ Finished(n)

\* Queued and started nodes have all their predecessors propagated.
StartedInv ==
    \A n \in Node : /\ n \in ready => pc[n] = "idle"
                    /\ n \in ready \/ pc[n] # "idle" => Pred(n) \subseteq unlocked

\* ... and a node whose predecessors all did is queued, started or checkpointed.
QueuedInv ==
    main # "load" /\ (main = "end" => outcome # "threw") =>
        \A n \in Node : pc[n] = "idle" /\ Pred(n) \subseteq unlocked =>
            n \in ready \/ n \in completedNodes

ActiveInv == active = {n \in Node : pc[n] \notin {"idle", "settled"}}

BeforeLoadInv ==
    main = "load" => ready = {} /\ unlocked = {} /\ \A n \in Node : pc[n] = "idle"

\* A run that has not failed leaves its loop only when nothing is left to do.
DrainedInv ==
    /\ main = "settle" \/ outcome = "completed" =>
            failed \/ (ready = {} /\ active = {})
    /\ outcome = "completed" => main = "end" /\ ~failed

\* Unless the run failed, a finished node has propagated or is about to.
FinishedInv ==
    /\ \A n \in Node : pc[n] = "mark" => Finished(n)
    /\ ~failed =>
         \A n \in Node : /\ Finished(n) => n \in unlocked \/ pc[n] = "mark"
                         /\ ~HasResult(n, "failed")

SchedInv ==
    /\ DegreeInv /\ UnlockedInv /\ StartedInv /\ QueuedInv /\ ActiveInv
    /\ BeforeLoadInv /\ DrainedInv /\ FinishedInv

IndInv == TypeOK /\ SchedInv

\* A node's one result is the last thing it gets before markComplete or release.
ResultInv ==
    /\ \A i, j \in 1..Len(results) : results[i].node = results[j].node => i = j
    /\ \A i \in 1..Len(results) : pc[results[i].node] \in {"mark", "release", "settled"}
    /\ \A n \in Node : pc[n] = "mark" => HasResult(n, "success")

\* A lease is held between its grant and its release.
LeaseInv == \A n \in leases : pc[n] \notin {"idle", "lease", "settled"}

\* Compensation and the verdict come when every node is at rest, and the loop
\* is filled only while no node has failed.
RestInv ==
    /\ main = "saga" \/ outcome \in {"completed", "failed"} =>
            \A n \in Node : pc[n] \in {"idle", "settled", "threw"}
    /\ main = "end" <=> outcome # "none"
    /\ main \in {"load", "fill"} => ~failed
    /\ main = "saga" => failed

\* The saga stack holds each successful node, once, when markComplete has returned,
\* and no node above one that consumed its output.
StackInv ==
    /\ EnableSaga =>
         \A n \in Node : (\E i \in 1..Len(sagaStack) : sagaStack[i] = n)
                           <=> HasResult(n, "success") /\ pc[n] # "mark"
    /\ ~EnableSaga => sagaStack = <<>>
    /\ \A i \in 1..Len(sagaStack) : pc[sagaStack[i]] \in {"release", "settled"}
    /\ \A i, j \in 1..Len(sagaStack) : sagaStack[i] = sagaStack[j] => i = j
    /\ \A i, j \in 1..Len(sagaStack) :
         i < j => <<sagaStack[j], sagaStack[i]>> \notin Edges

\* What has been undone mirrors the top of the stack, all of it at a verdict.
UndoneInv ==
    /\ main \in {"load", "fill", "race", "settle"} \/ outcome = "threw" => undone = <<>>
    /\ main = "saga" => Len(undone) = Len(sagaStack) - undo
    /\ outcome = "failed" => Len(undone) = Len(sagaStack)
    /\ Len(undone) <= Len(sagaStack)
    /\ \A i \in 1..Len(undone) : undone[i].node = sagaStack[Len(sagaStack) + 1 - i]

VerdictInv == ResultInv /\ LeaseInv /\ RestInv /\ StackInv /\ UndoneInv

\* A node is taken up only after every predecessor has finished in this run,
\* so its gathered input is complete (in-degree counting in unlockDownstream).
PredecessorsFinished ==
    \A n \in Node : pc[n] # "idle" => \A m \in Pred(n) : Finished(m)

\* What a run takes up rests on successes that are in the database, so a process
\* that dies at any point loses no input of a node at work: the next run of the
\* execution finds the success of every predecessor.  Child workflow nodes are the
\* exception: no checkpoint is written for them.
InputsOutliveCrash ==
    \A n \in Node : pc[n] # "idle" => \A m \in Pred(n) : m \in stored \/ IsChild(m)

\* Why: who propagates its completion, or is about to, has its success stored.
StoredInv ==
    \A n \in Node : /\ n \in unlocked \/ pc[n] = "mark" => n \in stored \/ IsChild(n)
                    /\ pc[n] \in {"spawn", "await"} => IsChild(n)

\* run() returns at most one result per node, whatever retries, loop
\* iterations, skips and late settlements happened on the way.
OneResultPerNode ==
    \A i, j \in 1..Len(results) : results[i].node = results[j].node => i = j

\* A completed run forgot nobody: a node it never took up was checkpointed
\* before, or waits for a predecessor this run did not finish.
NoLostNode ==
    outcome = "completed" =>
        \A n \in Node : pc[n] = "idle" =>
            n \in completedNodes \/ \E m \in Pred(n) : ~Finished(m)

\* A completed run has no failed result and no node whose processing threw.
CompletedIsClean ==
    outcome = "completed" =>
        \A n \in Node : pc[n] # "threw" /\ ~HasResult(n, "failed")

\* When run() emits its terminal event no node of it is still at work, and the
\* only leases left are those of nodes whose processing threw.
QuietAtVerdict ==
    outcome \in {"completed", "failed"} =>
        \A n \in Node : /\ pc[n] \in {"idle", "settled", "threw"}
                        /\ n \in leases => pc[n] = "threw"

\* A failed run has visited the compensation of exactly the nodes it reports
\* as successful, those that finished while the run was draining included.
SagaCoversSuccesses ==
    outcome = "failed" /\ EnableSaga =>
        {n \in Node : HasResult(n, "success")}
            = {undone[i].node : i \in 1..Len(undone)}

\* Compensation respects dependencies: no node is compensated before a node
\* that consumed its output.
SagaReverseOrder ==
    \A i, j \in 1..Len(undone) :
        i < j => <<undone[i].node, undone[j].node>> \notin Edges

\* "Checkpoint/resume": a resumed run that completes has every node done,
\* now or before.
ResumedRunIsWhole ==
    outcome = "completed" => \A n \in Node : n \in stored

\* A run that stopped at an approval gate is paused, not completed.
PausedRunNotCompleted ==
    outcome = "completed" => \A n \in Node : ~HasResult(n, "paused")

\* A run whose global timeout fired before its end is not reported completed.
TimedOutNotCompleted == aborted => outcome # "completed"

\* A graph in which nodes wait for each other never completes: run() throws.
Acyclic ==
    \A S \in SUBSET Node \ {{}} : \E n \in S : Pred(n) \cap S = {}
CycleNotCompleted == outcome = "completed" => Acyclic

\* A fault-free bounded loop ends in a verdict, it does not throw.
LoopEndsInVerdict == Faults = {} => outcome # "threw"

\* Depth counts nesting: a run refuses a child only if the child itself would
\* be nested too deep.
DepthCountsNesting ==
    StartDepth + 1 <= MaxDepth =>
        \A n \in Node : IsChild(n) /\ MaxDepth > 0 => ~HasResult(n, "failed")

-----------------------------------------------------------------------------
(* run() seen from outside: RunContract, with what each node is known for.  *)

AtWork == {"lease", "probe", "gate", "spawn", "await", "save", "execute",
           "record", "recordFailure", "backoff"}

Phase == CASE main = "load" -> "loading"
           [] main \in {"fill", "race", "settle"} -> "running"
           [] main = "saga" -> "undoing"
           [] main = "end" -> outcome

\* A node that left without a result was refused its lease.
FateOf(n) ==
    IF pc[n] = "idle" THEN "waiting"
    ELSE IF pc[n] \in AtWork THEN "working"
    ELSE IF pc[n] = "threw" THEN "threw"
    ELSE IF HasResult(n, "success") THEN "success"
    ELSE IF HasResult(n, "skipped") THEN "skipped"
    ELSE IF HasResult(n, "paused") THEN "paused"
    ELSE IF HasResult(n, "failed") THEN "failed"
    ELSE "refused"

Fate == [n \in Node |-> FateOf(n)]
Undone == {undone[i].node : i \in 1..Len(undone)}

Contract == INSTANCE RunContract WITH
    Saga <- EnableSaga, phase <- Phase, before <- completedNodes, fate <- Fate,
    failing <- failed, undone <- Undone

\* run() keeps its contract: whatever queue, leases, attempts, rows, timer and
\* other workers do, each step is one the contract allows, or not seen outside.
KeepsContract == Contract!Spec

\* Once a node has failed or the timeout was noticed no further node is taken
\* up, though nodes in flight run on, retries included.
NoStartAfterFailure ==
    [][failed => \A n \in Node : pc[n] = "idle" => pc'[n] = "idle"]_vars

\* If executors and awaited children answer, run() returns, whatever fails.
Termination == <>(main = "end")

\* A run whose timer fired returns, even if an executor never answers.
TimeoutEndsRun == aborted ~> main = "end"

\* ... and every node it took up comes to rest, also when run() threw.
NodesComeToRest ==
    <>[](\A n \in Node : pc[n] \in {"idle", "settled", "threw"})
=============================================================================
