------------------------- MODULE ExecutionRecovery -------------------------
(***************************************************************************)
(* The life of one execution in execution-service: it is created and       *)
(* queued (startWorkflowExecution, enqueueWorkflow), taken by BullMQ       *)
(* workers (processWorkflowExecution, runWorkflowDAG), its status is       *)
(* written by event handlers nobody awaits (handleEvent), a failed run is  *)
(* queued for recovery or given up, and a process that starts queues every *)
(* unfinished execution again (recoverInterruptedJobs).                    *)
(*                                                                         *)
(* DagRunner models what happens inside a run; here it completes, fails    *)
(* (execution.failed) or throws.  A step is the code between two awaits.   *)
(***************************************************************************)
EXTENDS Integers, FiniteSets

CONSTANTS
    Proc,         \* worker processes
    Lane,         \* job slots (WORKER_CONCURRENCY per process and queue)
    Home,         \* lane -> its process
    Attempts,     \* attempts BullMQ gives a job
    MaxRecovery,  \* MAX_RECOVERY_ATTEMPTS
    MaxStops,     \* bound on the number of process stops
    RecordShape,  \* workflow.nodes as stored: "array", "graph" {nodes, edges}, "missing"
    Faults        \* what the environment of this instance may do

\* fail: nodes fail.  throw: run() throws.  stop: a process crashes or is
\* deployed.  submitter: the submitting process dies before it has queued the job.
\* db: a database statement fails.  reorder: an update nobody awaits is overtaken.
FaultKinds == {"fail", "throw", "stop", "submitter", "db", "reorder"}

ASSUME RecoveryAssumption ==
    /\ Home \in [Lane -> Proc] /\ IsFiniteSet(Lane)
    /\ Attempts \in Nat \ {0} /\ MaxRecovery \in Nat /\ MaxStops \in Nat
    /\ RecordShape \in {"array", "graph", "missing"}
    /\ Faults \subseteq FaultKinds

\* Recovery attempts: 0 is the first run; one more than the cap, to see it kept.
Run == 0..(MaxRecovery + 1)

\* A job: `run` is the recovery attempt it carries, `tries` its failed attempts,
\* `full` whether its node list is the workflow's (else it is empty).
Job == [kind : {"execution", "recovery"}, run : Run,
        tries : 0..Attempts-1, full : BOOLEAN]

\* A callback of handleEvent at work: what it does next, for which run.
Task == [proc : Proc, next : {"running", "success", "failed", "follow", "bury"},
         run : Run]

VARIABLES
    submitted,  \* where the submitting call stands
    status,     \* workflowExecution.status
    queue,      \* waiting and delayed jobs: how many of each
    lane,       \* what each lane does, on which job
    tasks,      \* callbacks of handleEvent: how many of each
    boot,       \* where the start-up of each process stands
    stops,      \* process stops so far
    dlq,        \* rows of the dead-letter queue for the whole workflow
    begun,      \* history: recovery attempts that have begun to run
    failedRuns, \* history: recovery attempts of which a run failed or threw
    completed   \* history: runs have completed over the workflow's nodes (TRUE), over none

work    == <<queue, lane, tasks>>
history == <<begun, failedRuns, completed>>
vars    == <<submitted, status, work, boot, stops, dlq, history>>

-----------------------------------------------------------------------------
ExecutionJob(r, full) == [kind |-> "execution", run |-> r, tries |-> 0, full |-> full]
RecoveryJob(r) == [kind |-> "recovery", run |-> r, tries |-> 0, full |-> TRUE]
Idle == [at |-> "free", job |-> RecoveryJob(0), opening |-> FALSE]

More(f, x) == [f EXCEPT ![x] = @ + 1]
Fewer(f, x) == [f EXCEPT ![x] = @ - 1]
TaskOf(l, what) == [proc |-> Home[l], next |-> what, run |-> lane[l].job.run]

At(l, p) == lane[l].at = p
Goto(l, p) == lane' = [lane EXCEPT ![l].at = p]
Free(l) == lane' = [lane EXCEPT ![l] = Idle]

\* Recoveries take the nodes from the workflow's record, if they are an array.
NodesOnRecord == RecordShape = "array"

Init ==
    /\ submitted = "no" /\ status = "none"
    /\ queue = [j \in Job |-> 0]
    /\ lane = [l \in Lane |-> Idle]
    /\ tasks = [t \in Task |-> 0]
    /\ boot = [p \in Proc |-> "up"]
    /\ stops = 0 /\ dlq = 0
    /\ begun = {} /\ failedRuns = {} /\ completed = {}

-----------------------------------------------------------------------------
(* Submission and start-up.                                                *)

\* Create the row; then the audit entry, the event and the version snapshot.
Create ==
    /\ submitted = "no"
    /\ submitted' = "created" /\ status' = "pending"
    /\ UNCHANGED <<work, boot, stops, dlq, history>>

Submit ==
    /\ submitted = "created"
    /\ submitted' = "queued"
    /\ queue' = More(queue, ExecutionJob(0, TRUE))
    /\ UNCHANGED <<status, lane, tasks, boot, stops, dlq, history>>

SubmitterDies ==
    /\ submitted = "created" /\ "submitter" \in Faults
    /\ submitted' = "lost"
    /\ UNCHANGED <<status, work, boot, stops, dlq, history>>

\* Defect: only pending executions are queried.
ScanPending(p) ==
    /\ boot[p] = "scan"
    /\ boot' = [boot EXCEPT ![p] = IF status = "pending" THEN "requeue" ELSE "up"]
    /\ UNCHANGED <<submitted, status, work, stops, dlq, history>>

\* start: query the unfinished executions, queue each of them, start the workers.
Scan(p) ==
    /\ boot[p] = "scan"
    /\ boot' = [boot EXCEPT ![p] = IF status \in {"pending", "running"}
                                     THEN "requeue" ELSE "up"]
    /\ UNCHANGED <<submitted, status, work, stops, dlq, history>>

Interrupted(p) ==
    /\ boot[p] = "requeue"
    /\ queue' = More(queue, ExecutionJob(0, NodesOnRecord))
    /\ boot' = [boot EXCEPT ![p] = "up"]
    /\ UNCHANGED <<submitted, status, lane, tasks, stops, dlq, history>>

\* The process exits: its callbacks are lost, BullMQ gives its jobs to others.
Stop(p) ==
    /\ "stop" \in Faults /\ stops < MaxStops
    /\ stops' = stops + 1
    /\ boot' = [boot EXCEPT ![p] = "scan"]
    /\ LET busy == {l \in Lane : Home[l] = p /\ ~At(l, "free")}
       IN  /\ queue' = [j \in Job |->
                queue[j] + Cardinality({l \in busy : lane[l].job = j})]
           /\ lane' = [l \in Lane |-> IF l \in busy THEN Idle ELSE lane[l]]
    /\ tasks' = [t \in Task |-> IF t.proc = p THEN 0 ELSE tasks[t]]
    /\ UNCHANGED <<submitted, status, dlq, history>>

-----------------------------------------------------------------------------
(* A job on a lane.                                                        *)

Take(l) ==
    /\ At(l, "free") /\ boot[Home[l]] = "up"
    /\ \E j \in Job :
         /\ queue[j] > 0
         /\ queue' = Fewer(queue, j)
         /\ lane' = [lane EXCEPT ![l] =
                [at |-> IF j.kind = "execution" THEN "mark" ELSE "requeue",
                 job |-> j, opening |-> FALSE]]
    /\ UNCHANGED <<submitted, status, tasks, boot, stops, dlq, history>>

\* processWorkflowExecution writes "running", the run begins and emits
\* execution.started, whose handler is about to write it again.
Mark(l) ==
    /\ At(l, "mark")
    /\ status' = "running"
    /\ lane' = [lane EXCEPT ![l].at = "run", ![l].opening = TRUE]
    /\ begun' = begun \cup {lane[l].job.run}
    /\ UNCHANGED <<submitted, queue, tasks, boot, stops, dlq, failedRuns,
                   completed>>

\* The handler of execution.started; a failing update is only logged.
Opened(l) ==
    /\ At(l, "run") /\ lane[l].opening
    /\ lane' = [lane EXCEPT ![l].opening = FALSE]
    /\ \/ status' = "running"
       \/ "db" \in Faults /\ UNCHANGED status
    /\ UNCHANGED <<submitted, queue, tasks, boot, stops, dlq, history>>

\* The run is over: its last event leaves a callback behind and the job is done.
\* An update still on its way outlives the run.
End(l, what) ==
    /\ At(l, "run")
    /\ lane[l].opening => "reorder" \in Faults
    /\ LET late == IF lane[l].opening THEN More(tasks, TaskOf(l, "running")) ELSE tasks
       IN  tasks' = More(late, TaskOf(l, what))
    /\ Free(l)

Complete(l) ==
    /\ End(l, "success")
    /\ completed' = completed \cup {lane[l].job.full}
    /\ UNCHANGED <<submitted, status, queue, boot, stops, dlq, begun,
                   failedRuns>>

\* execution.failed; a run over no nodes has none that fails.
FailRun(l) ==
    /\ "fail" \in Faults /\ lane[l].job.full
    /\ End(l, "failed")
    /\ failedRuns' = failedRuns \cup {lane[l].job.run}
    /\ UNCHANGED <<submitted, status, queue, boot, stops, dlq, begun, completed>>

\* run() rejects, as loadCompleted or save may: the catch block goes on.
ThrowRun(l) ==
    /\ "throw" \in Faults /\ At(l, "run")
    /\ lane[l].opening => "reorder" \in Faults
    /\ IF lane[l].opening
         THEN tasks' = More(tasks, TaskOf(l, "running")) ELSE UNCHANGED tasks
    /\ lane' = [lane EXCEPT ![l].at = "failed", ![l].opening = FALSE]
    /\ failedRuns' = failedRuns \cup {lane[l].job.run}
    /\ UNCHANGED <<submitted, status, queue, boot, stops, dlq, begun, completed>>

\* Defect: an execution that has failed counts as done.
RequeueUnfinished(l) ==
    /\ At(l, "requeue")
    /\ queue' = IF status = "failed" THEN queue
                ELSE More(queue, ExecutionJob(lane[l].job.run, NodesOnRecord))
    /\ Free(l)
    /\ UNCHANGED <<submitted, status, tasks, boot, stops, dlq, history>>

\* processWorkflowExecutionRecovery queues the execution again, whatever its status.
Requeue(l) ==
    /\ At(l, "requeue")
    /\ queue' = More(queue, ExecutionJob(lane[l].job.run, NodesOnRecord))
    /\ Free(l)
    /\ UNCHANGED <<submitted, status, tasks, boot, stops, dlq, history>>

\* An attempt of the job failed: BullMQ tries again or drops the job.
TryAgain(l) ==
    /\ At(l, "rethrow")
    /\ LET j == lane[l].job
       IN  queue' = IF j.tries + 1 < Attempts
                      THEN More(queue, [j EXCEPT !.tries = @ + 1]) ELSE queue
    /\ Free(l)
    /\ UNCHANGED <<submitted, status, tasks, boot, stops, dlq, history>>

\* An awaited statement of the job fails outside any try.
JobStatementFails(l) ==
    /\ "db" \in Faults /\ lane[l].at \in {"mark", "failed", "follow", "bury", "requeue"}
    /\ Goto(l, "rethrow")
    /\ UNCHANGED <<submitted, status, queue, tasks, boot, stops, dlq, history>>

-----------------------------------------------------------------------------
(* After a failed run: write its status, then follow it up with a recovery *)
(* or bury it.  The same code stands in the handler of execution.failed    *)
(* and in the catch block; next is where it goes on.                       *)

WriteFailed(step, next) ==
    /\ step = "failed" /\ next = "follow"
    /\ status' = "failed"
    /\ UNCHANGED <<queue, dlq>>

\* Defect: the cap is compared as if the next attempt had been used up.
ExhaustedOneEarly(r) == r + 1 >= MaxRecovery

\* Defect: one recovery more than the cap.
ExhaustedOneLate(r) == r > MaxRecovery

Exhausted(r) == r + 1 > MaxRecovery

\* Defect: the status is written and the dead-letter row forgotten.
GiveUpSilently(step, r, next) ==
    /\ step = "follow" /\ Exhausted(r) /\ next = "done"
    /\ status' = "recovery_exhausted"
    /\ UNCHANGED <<queue, dlq>>

GiveUp(step, r, next) ==
    /\ step = "follow" /\ Exhausted(r) /\ next = "bury"
    /\ status' = "recovery_exhausted"
    /\ UNCHANGED <<queue, dlq>>

\* A failing addJob is caught and logged.
AskRecovery(step, r, next) ==
    /\ step = "follow" /\ ~Exhausted(r) /\ next = "done"
    /\ \/ queue' = More(queue, RecoveryJob(r + 1))
       \/ "db" \in Faults /\ UNCHANGED queue
    /\ UNCHANGED <<status, dlq>>

Bury(step, next) ==
    /\ step = "bury" /\ next = "done"
    /\ dlq' = dlq + 1
    /\ UNCHANGED <<status, queue>>

FollowUp(step, r, next) ==
    \/ WriteFailed(step, next) \/ GiveUp(step, r, next)
    \/ AskRecovery(step, r, next) \/ Bury(step, next)

\* The catch block of runWorkflowDAG awaits every step, then throws again.
Catch(l) ==
    /\ \E next \in {"follow", "bury", "done"} :
         /\ FollowUp(lane[l].at, lane[l].job.run, next)
         /\ Goto(l, IF next = "done" THEN "rethrow" ELSE next)
    /\ UNCHANGED <<submitted, tasks, boot, stops, history>>

\* Defect: the name of the event is written as the status.
WriteEventName(t) ==
    /\ tasks[t] > 0 /\ t.next \in {"running", "success"}
    /\ status' = IF t.next = "success" THEN "completed" ELSE t.next
    /\ tasks' = Fewer(tasks, t)
    /\ UNCHANGED <<submitted, queue, lane, boot, stops, dlq, history>>

\* A callback of handleEvent writes a status that nobody waits for ...
WriteStatus(t) ==
    /\ tasks[t] > 0 /\ t.next \in {"running", "success"}
    /\ status' = t.next
    /\ tasks' = Fewer(tasks, t)
    /\ UNCHANGED <<submitted, queue, lane, boot, stops, dlq, history>>

\* ... or follows up a failed run.
HandleFailed(t) ==
    /\ tasks[t] > 0
    /\ \E next \in {"follow", "bury", "done"} :
         /\ FollowUp(t.next, t.run, next)
         /\ tasks' = IF next = "done" THEN Fewer(tasks, t)
                     ELSE More(Fewer(tasks, t), [t EXCEPT !.next = next])
    /\ UNCHANGED <<submitted, lane, boot, stops, history>>

\* A statement of a callback fails: an unhandled rejection, which is logged.
CallbackFails(t) ==
    /\ "db" \in Faults /\ tasks[t] > 0
    /\ tasks' = Fewer(tasks, t)
    /\ UNCHANGED <<submitted, status, queue, lane, boot, stops, dlq, history>>

-----------------------------------------------------------------------------
Submission == Create \/ Submit

LaneStep(l) ==
    \/ Take(l) \/ Mark(l) \/ Opened(l) \/ Complete(l) \/ FailRun(l) \/ ThrowRun(l)
    \/ Requeue(l) \/ TryAgain(l) \/ JobStatementFails(l) \/ Catch(l)

TaskStep(t) == WriteStatus(t) \/ HandleFailed(t) \/ CallbackFails(t)

BootStep(p) == Scan(p) \/ Interrupted(p)

Next ==
    \/ Submission \/ SubmitterDies
    \/ \E l \in Lane : LaneStep(l)
    \/ \E t \in Task : TaskStep(t)
    \/ \E p \in Proc : BootStep(p) \/ Stop(p)

Spec == Init /\ [][Next]_vars

\* Statements and jobs are answered, workers take jobs, stopped processes are
\* started again (the deployment restarts them).
Fairness ==
    /\ WF_vars(Submission)
    /\ \A l \in Lane : WF_vars(LaneStep(l))
    /\ \A t \in Task : WF_vars(TaskStep(t))
    /\ \A p \in Proc : WF_vars(BootStep(p))
FairSpec == Spec /\ Fairness

-----------------------------------------------------------------------------
(* What becomes of an execution.                                           *)

LanePcs == {"free", "mark", "run", "failed", "follow", "bury", "requeue", "rethrow"}

TypeOK ==
    /\ submitted \in {"no", "created", "queued", "lost"}
    /\ status \in {"none", "pending", "running", "success", "failed", "recovery_exhausted"}
    /\ queue \in [Job -> Nat]
    /\ lane \in [Lane -> [at : LanePcs, job : Job, opening : BOOLEAN]]
    /\ tasks \in [Task -> Nat]
    /\ boot \in [Proc -> {"up", "scan", "requeue"}]
    /\ stops \in 0..MaxStops /\ dlq \in Nat
    /\ begun \subseteq Run /\ failedRuns \subseteq Run /\ completed \subseteq BOOLEAN

Verdict == status \in {"success", "failed", "recovery_exhausted"}

\* Nothing is left to do for the execution.
Settled ==
    /\ submitted \in {"queued", "lost"}
    /\ \A j \in Job : queue[j] = 0
    /\ \A l \in Lane : At(l, "free")
    /\ \A t \in Task : tasks[t] = 0
    /\ \A p \in Proc : boot[p] = "up"

\* The inductive invariant behind the theorems.  Whatever carries attempt r got
\* it from a failed run of attempt r - 1.
Earned(r) == r <= MaxRecovery /\ 0..(r - 1) \subseteq failedRuns

\* A follow-up speaks of a run that failed; only an exhausted one is buried.
FollowsFailure(step, r) ==
    /\ step \in {"failed", "follow", "bury"} => r \in failedRuns
    /\ step = "bury" => Exhausted(r)

ChainInv ==
    /\ \A j \in Job : queue[j] > 0 => Earned(j.run)
    /\ \A l \in Lane : /\ Earned(lane[l].job.run)
                       /\ FollowsFailure(lane[l].at, lane[l].job.run)
    /\ \A t \in Task : tasks[t] > 0 => /\ Earned(t.run)
                                       /\ FollowsFailure(t.next, t.run)
    /\ dlq > 0 => 0..MaxRecovery \subseteq failedRuns

\* Who gives an execution up goes on to bury it.
BuriedInv ==
    status = "recovery_exhausted" =>
        \/ dlq > 0
        \/ \E l \in Lane : At(l, "bury")
        \/ \E t \in Task : t.next = "bury" /\ tasks[t] > 0

\* Nothing happens to an execution before it is created, and what happens has a
\* cause: a run or a callback belongs to an attempt that has begun, the callback of
\* a success to a run that has completed.
CauseInv ==
    /\ submitted = "no" <=> status = "none"
    /\ status = "none" =>
         /\ begun = {}
         /\ \A j \in Job : queue[j] = 0
         /\ \A l \in Lane : At(l, "free")
         /\ \A p \in Proc : boot[p] # "requeue"
    /\ \A l \in Lane : At(l, "run") => lane[l].job.run \in begun
    /\ \A t \in Task : tasks[t] > 0 =>
         t.run \in begun /\ (t.next = "success" => completed # {})
    /\ failedRuns \subseteq begun

\* No run carries a recovery attempt beyond the cap, whatever jobs are tried
\* again, returned by BullMQ or queued by a start-up.
CapKept ==
    /\ \A j \in Job : j.run > MaxRecovery => queue[j] = 0
    /\ \A l \in Lane : lane[l].job.run <= MaxRecovery

\* An execution is given up only after its first run and each recovery the cap
\* allows has failed.
NotGivenUpEarly == dlq > 0 => 0..MaxRecovery \subseteq failedRuns

\* When all is done, an execution given up has its row in the dead-letter queue.
ExhaustedIsBuried == Settled /\ status = "recovery_exhausted" => dlq > 0

\* A failed run below the cap is followed by the next recovery's run.
FailedRunFollowedUp ==
    \A r \in 0..MaxRecovery :
        r \in failedRuns /\ r < MaxRecovery ~> r + 1 \in begun

\* A queued execution ends with a verdict and keeps one, whatever processes stop.
EndsInVerdict == [](submitted = "queued" => <>[]Verdict)

\* The promise of the recovery protocol: no step but its own, and its progress.
Lifecycle == INSTANCE ExecutionLifecycle
RecoveryProtocol == Lifecycle!Spec
RecoverySteps == Lifecycle!SafeSpec

\* A start-up queues again only what no worker is executing.
OnlyInterruptedRequeued ==
    [][\A p \in Proc : boot[p] = "requeue" /\ boot'[p] = "up" /\ queue' # queue
           => \A l \in Lane : ~At(l, "run")]_vars

\* "The original run is attempt 0; first recovery is attempt 1, etc.": there are
\* never two jobs for one recovery attempt.
OneJobPerRecovery ==
    \A r \in Run \ {0} :
        /\ \A i, j \in Job : /\ i.run = r /\ j.run = r /\ queue[i] > 0 /\ queue[j] > 0
                             => i = j /\ queue[i] = 1
        /\ \A l, m \in Lane : /\ ~At(l, "free") /\ ~At(m, "free")
                              /\ lane[l].job.run = r /\ lane[m].job.run = r
                              => l = m

\* An execution given up stays given up.
ExhaustedIsFinal ==
    [][status = "recovery_exhausted" => status' = "recovery_exhausted"]_vars

\* A recovery runs the workflow: success means that a run over its nodes completed.
SuccessMeansCompleted == status = "success" => TRUE \in completed

\* An execution that was created gets a verdict, even if its submitter dies.
CreatedGetsVerdict == status = "pending" ~> Verdict
=============================================================================
