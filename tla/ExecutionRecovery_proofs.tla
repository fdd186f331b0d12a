---------------------- MODULE ExecutionRecovery_proofs ----------------------
(***************************************************************************)
(* Proofs about ExecutionRecovery: its types and the two promises of the   *)
(* recovery cap, for any processes, lanes, attempts, cap and faults; that  *)
(* an execution given up has its dead-letter row while statements arrive   *)
(* and processes stay up; and that under every fault a step is one of      *)
(* ExecutionLifecycle or a stutter.                                        *)
(***************************************************************************)
EXTENDS ExecutionRecovery, FiniteSetTheorems, TLAPS

\* The jobs the code builds are jobs, and what is on a lane has a run.
LEMMA Values ==
    /\ \A r \in Run, full \in BOOLEAN : ExecutionJob(r, full) \in Job
    /\ \A r \in Run : RecoveryJob(r) \in Job
    /\ Idle \in [at : LanePcs, job : Job, opening : BOOLEAN]
    /\ Idle.at = "free" /\ Idle.job.run = 0
    /\ NodesOnRecord \in BOOLEAN
    /\ 0 \in Run
BY RecoveryAssumption
   DEF ExecutionJob, RecoveryJob, Idle, Job, Run, LanePcs, NodesOnRecord

\* Adding to and taking from a count of jobs or of callbacks.
LEMMA Counts ==
    ASSUME NEW S, NEW f \in [S -> Nat], NEW x \in S
    PROVE  /\ More(f, x) \in [S -> Nat]
           /\ \A y \in S : More(f, x)[y] > 0 => y = x \/ f[y] > 0
           /\ f[x] > 0 => Fewer(f, x) \in [S -> Nat]
           /\ \A y \in S : Fewer(f, x)[y] > 0 => f[y] > 0
BY DEF More, Fewer

\* A follow-up changes the status, the queue and the dead-letter queue only.
LEMMA FollowUpStep ==
    ASSUME TypeOK, ChainInv, NEW step, NEW r \in Run, NEW next, FollowUp(step, r, next),
           Earned(r), FollowsFailure(step, r)
    PROVE  /\ status' \in {"none", "pending", "running", "success", "failed",
                           "recovery_exhausted"}
           /\ queue' \in [Job -> Nat]
           /\ dlq' \in Nat
           /\ next \in {"follow", "bury", "done"}
           /\ FollowsFailure(next, r)
           /\ \A j \in Job : queue'[j] > 0 => Earned(j.run)
           /\ dlq' > 0 => 0..MaxRecovery \subseteq failedRuns
<1>. USE DEF TypeOK
<1>1. CASE WriteFailed(step, next)
    BY <1>1 DEF WriteFailed, FollowsFailure, ChainInv
<1>2. CASE GiveUp(step, r, next)
    BY <1>2 DEF GiveUp, FollowsFailure, ChainInv
<1>3. CASE AskRecovery(step, r, next)
  <2>1. r \in failedRuns /\ r + 1 <= MaxRecovery /\ r \in Nat
      BY <1>3, RecoveryAssumption
         DEF AskRecovery, FollowsFailure, Exhausted, Run
  <2>2. r + 1 \in Run /\ RecoveryJob(r + 1) \in Job /\ RecoveryJob(r + 1).run = r + 1
      BY <2>1, Values, RecoveryAssumption DEF Run, RecoveryJob
  <2>3. Earned(r + 1)
      BY <2>1, RecoveryAssumption DEF Earned
  <2>4. CASE queue' = More(queue, RecoveryJob(r + 1))
      BY <1>3, <2>2, <2>3, <2>4, Counts DEF AskRecovery, ChainInv, FollowsFailure
  <2>5. CASE UNCHANGED queue
      BY <1>3, <2>5 DEF AskRecovery, ChainInv, FollowsFailure
  <2>. QED BY <1>3, <2>4, <2>5 DEF AskRecovery
<1>4. CASE Bury(step, next)
  <2>1. r \in failedRuns /\ r = MaxRecovery
      BY <1>4, RecoveryAssumption DEF Bury, FollowsFailure, Exhausted, Earned, Run
  <2>2. \A k \in 0..MaxRecovery : k \in 0..(r - 1) \/ k = r
      BY <2>1, RecoveryAssumption
  <2>3. 0..MaxRecovery \subseteq failedRuns
      BY <2>1, <2>2 DEF Earned
  <2>. QED BY <1>4, <2>3 DEF Bury, ChainInv, FollowsFailure
<1>. QED BY <1>1, <1>2, <1>3, <1>4 DEF FollowUp

\* What was earned stays earned when more runs have failed.
LEMMA EarnedStays ==
    ASSUME failedRuns \subseteq failedRuns'
    PROVE  /\ \A r : Earned(r) => Earned(r)'
           /\ \A step, r : FollowsFailure(step, r) => FollowsFailure(step, r)'
BY DEF Earned, FollowsFailure, Exhausted

LEMMA InitInv == Init => TypeOK /\ ChainInv
<1>. SUFFICES ASSUME Init  PROVE TypeOK /\ ChainInv
    OBVIOUS
<1>1. Earned(0)
    BY RecoveryAssumption DEF Earned
<1>2. TypeOK
  <2>1. queue \in [Job -> Nat] /\ tasks \in [Task -> Nat]
      BY DEF Init
  <2>2. lane \in [Lane -> [at : LanePcs, job : Job, opening : BOOLEAN]]
      BY Values DEF Init
  <2>3. stops \in 0..MaxStops
      BY RecoveryAssumption DEF Init
  <2>. QED BY <2>1, <2>2, <2>3 DEF Init, TypeOK
<1>3. ChainInv
    BY <1>1, Values DEF Init, ChainInv, FollowsFailure
<1>. QED BY <1>2, <1>3

\* Submission and start-up queue the execution as its first run.
LEMMA SubmitStep ==
    ASSUME TypeOK, ChainInv,
           Create \/ Submit \/ SubmitterDies
             \/ \E p \in Proc : Scan(p) \/ Interrupted(p)
    PROVE  TypeOK' /\ ChainInv'
<1>1. Earned(0)
    BY RecoveryAssumption DEF Earned
<1>2. CASE Create \/ SubmitterDies \/ \E p \in Proc : Scan(p)
    BY <1>2 DEF Create, SubmitterDies, Scan, work, history, TypeOK, ChainInv, Earned,
                FollowsFailure
<1>3. ASSUME NEW full \in BOOLEAN, queue' = More(queue, ExecutionJob(0, full)),
             UNCHANGED <<lane, tasks, dlq, failedRuns>>
      PROVE  queue' \in [Job -> Nat] /\ ChainInv'
  <2>1. ExecutionJob(0, full) \in Job /\ ExecutionJob(0, full).run = 0
      BY Values DEF ExecutionJob
  <2>2. /\ queue' \in [Job -> Nat]
        /\ \A j \in Job : queue'[j] > 0 => j = ExecutionJob(0, full) \/ queue[j] > 0
      BY <1>3, <2>1, Counts DEF TypeOK
  <2>. QED BY <1>1, <1>3, <2>1, <2>2 DEF ChainInv, Earned, FollowsFailure, Exhausted
<1>4. CASE Submit
    BY <1>3, <1>4 DEF Submit, history, TypeOK
<1>5. ASSUME NEW p \in Proc, Interrupted(p)  PROVE TypeOK' /\ ChainInv'
    BY <1>3, <1>5, Values DEF Interrupted, history, TypeOK
<1>. QED BY <1>2, <1>4, <1>5

\* A process stop loses callbacks and returns its lanes' jobs to the queue.
LEMMA StopStep ==
    ASSUME TypeOK, ChainInv, NEW p \in Proc, Stop(p)
    PROVE  TypeOK' /\ ChainInv'
<1>. DEFINE busy == {l \in Lane : Home[l] = p /\ ~At(l, "free")}
            Back(j) == {l \in busy : lane[l].job = j}
<1>1. /\ queue' = [j \in Job |-> queue[j] + Cardinality(Back(j))]
      /\ lane' = [l \in Lane |-> IF l \in busy THEN Idle ELSE lane[l]]
      /\ tasks' = [t \in Task |-> IF t.proc = p THEN 0 ELSE tasks[t]]
      /\ boot' = [boot EXCEPT ![p] = "scan"]
      /\ stops < MaxStops /\ stops' = stops + 1
      /\ UNCHANGED <<submitted, status, dlq, begun, failedRuns, completed>>
    BY DEF Stop, history
<1>2. \A j \in Job : /\ IsFiniteSet(Back(j))
                     /\ Cardinality(Back(j)) \in Nat
                     /\ Cardinality(Back(j)) > 0 => Back(j) # {}
  <2>1. \A j \in Job : Back(j) \subseteq Lane
      OBVIOUS
  <2>. QED BY <2>1, FS_Subset, FS_CardinalityType, FS_EmptySet, RecoveryAssumption
<1>3. queue' \in [Job -> Nat] /\ stops' \in 0..MaxStops
  <2>1. \A j \in Job : queue[j] + Cardinality(Back(j)) \in Nat
    <3>. SUFFICES ASSUME NEW j \in Job  PROVE queue[j] + Cardinality(Back(j)) \in Nat
        OBVIOUS
    <3>1. queue[j] \in Nat
        BY DEF TypeOK
    <3>2. Cardinality(Back(j)) \in Nat
        BY <1>2
    <3>. HIDE DEF Back
    <3>. QED BY <3>1, <3>2
  <2>2. stops' \in 0..MaxStops
      BY <1>1, RecoveryAssumption DEF TypeOK
  <2>. HIDE DEF Back
  <2>. QED BY <1>1, <2>1, <2>2
<1>4. TypeOK'
    BY <1>1, <1>3, Values DEF TypeOK
<1>5. \A j \in Job : queue'[j] > 0 => Earned(j.run)
  <2>. SUFFICES ASSUME NEW j \in Job, queue'[j] > 0  PROVE Earned(j.run)
      OBVIOUS
  <2>1. queue'[j] = queue[j] + Cardinality(Back(j)) /\ queue[j] \in Nat
      BY <1>1 DEF TypeOK
  <2>2. queue[j] > 0 \/ Cardinality(Back(j)) > 0
      BY <1>2, <2>1
  <2>3. queue[j] > 0 \/ Back(j) # {}
      BY <1>2, <2>2
  <2>. QED BY <2>3 DEF ChainInv
<1>6. \A l \in Lane : /\ Earned(lane'[l].job.run)
                      /\ FollowsFailure(lane'[l].at, lane'[l].job.run)
  <2>1. Earned(0)
      BY RecoveryAssumption DEF Earned
  <2>. QED BY <1>1, <2>1, Values DEF ChainInv, FollowsFailure
<1>7. \A t \in Task : tasks'[t] > 0 => Earned(t.run) /\ FollowsFailure(t.next, t.run)
    BY <1>1 DEF ChainInv
<1>. QED BY <1>1, <1>4, <1>5, <1>6, <1>7 DEF ChainInv, Earned, FollowsFailure, Exhausted

LaneRecord == [at : LanePcs, job : Job, opening : BOOLEAN]

\* A step that changes one lane keeps the invariant if what it leaves on the
\* lane, in the queue and to the callbacks is earned.
LEMMA OneLaneChanges ==
    ASSUME TypeOK, ChainInv, NEW l \in Lane, NEW x \in LaneRecord,
           lane' = [lane EXCEPT ![l] = x],
           failedRuns \subseteq failedRuns', failedRuns' \subseteq Run,
           (Earned(x.job.run) /\ FollowsFailure(x.at, x.job.run))',
           queue' \in [Job -> Nat],
           \A j \in Job : queue'[j] > 0 => Earned(j.run),
           tasks' \in [Task -> Nat],
           \A t \in Task : (tasks[t] > 0 => Earned(t.run) /\ FollowsFailure(t.next, t.run))',
           (dlq > 0 => 0..MaxRecovery \subseteq failedRuns)',
           status' \in {"none", "pending", "running", "success", "failed",
                        "recovery_exhausted"},
           dlq' \in Nat, begun' \subseteq Run, completed' \subseteq BOOLEAN,
           UNCHANGED <<submitted, boot, stops>>
    PROVE  TypeOK' /\ ChainInv'
<1>1. TypeOK'
    BY DEF TypeOK, LaneRecord
<1>2. \A m \in Lane : lane'[m] = x \/ lane'[m] = lane[m]
    BY DEF TypeOK
<1>3. \A m \in Lane : (/\ Earned(lane[m].job.run)
                       /\ FollowsFailure(lane[m].at, lane[m].job.run))'
  <2>. SUFFICES ASSUME NEW m \in Lane
                PROVE  (/\ Earned(lane[m].job.run)
                         /\ FollowsFailure(lane[m].at, lane[m].job.run))'
      OBVIOUS
  <2>1. CASE lane'[m] = x
      BY <2>1
  <2>2. CASE lane'[m] = lane[m]
      BY <2>2 DEF ChainInv, Earned, FollowsFailure, Exhausted
  <2>. QED BY <1>2, <2>1, <2>2
<1>4. \A j \in Job : (queue[j] > 0 => Earned(j.run))'
    BY DEF Earned
<1>. QED BY <1>1, <1>3, <1>4 DEF ChainInv

\* What is on a lane.
LEMMA OnLane ==
    ASSUME TypeOK, ChainInv, NEW l \in Lane
    PROVE  /\ lane[l] \in LaneRecord
           /\ lane[l].job \in Job /\ lane[l].job.run \in Run
           /\ Earned(lane[l].job.run) /\ FollowsFailure(lane[l].at, lane[l].job.run)
           /\ \A what \in {"running", "success", "failed"} :
                 /\ TaskOf(l, what) \in Task
                 /\ TaskOf(l, what).run = lane[l].job.run
                 /\ TaskOf(l, what).next = what
BY RecoveryAssumption DEF TypeOK, ChainInv, Job, LaneRecord, TaskOf, Task

\* Adding a job whose attempt is earned.
LEMMA QueueGrows ==
    ASSUME TypeOK, ChainInv, NEW j \in Job, Earned(j.run)
    PROVE  /\ More(queue, j) \in [Job -> Nat]
           /\ \A i \in Job : More(queue, j)[i] > 0 => Earned(i.run)
BY Counts DEF TypeOK, ChainInv

\* A free lane holds nothing to answer for.
LEMMA FreeLane ==
    /\ Idle \in LaneRecord
    /\ (Earned(Idle.job.run) /\ FollowsFailure(Idle.at, Idle.job.run))'
<1>1. \A k \in 0..(0 - 1) : FALSE
    OBVIOUS
<1>2. Idle.job.run = 0 /\ Idle.at = "free" /\ Idle \in LaneRecord
    BY Values DEF LaneRecord
<1>. QED BY <1>1, <1>2, RecoveryAssumption DEF Earned, FollowsFailure

LEMMA TakeStep ==
    ASSUME TypeOK, ChainInv, NEW l \in Lane, Take(l)
    PROVE  TypeOK' /\ ChainInv'
<1>1. PICK j \in Job :
          /\ queue[j] > 0 /\ queue' = Fewer(queue, j)
          /\ lane' = [lane EXCEPT ![l] =
                [at |-> IF j.kind = "execution" THEN "mark" ELSE "requeue",
                 job |-> j, opening |-> FALSE]]
    BY DEF Take
<1>. DEFINE x == [at |-> IF j.kind = "execution" THEN "mark" ELSE "requeue",
                  job |-> j, opening |-> FALSE]
<1>2. UNCHANGED <<submitted, status, tasks, boot, stops, dlq, begun, failedRuns, completed>>
    BY DEF Take, history
<1>3. queue' \in [Job -> Nat] /\ \A i \in Job : queue'[i] > 0 => Earned(i.run)
    BY <1>1, Counts DEF TypeOK, ChainInv
<1>4. x \in LaneRecord /\ (Earned(x.job.run) /\ FollowsFailure(x.at, x.job.run))'
    BY <1>1, <1>2 DEF LaneRecord, LanePcs, ChainInv, Earned, FollowsFailure
<1>5. \A t \in Task : (tasks[t] > 0 => Earned(t.run) /\ FollowsFailure(t.next, t.run))'
    BY <1>2 DEF ChainInv, Earned, FollowsFailure, Exhausted
<1>6. lane' = [lane EXCEPT ![l] = x]
    BY <1>1
<1>. HIDE DEF x
<1>. QED BY <1>2, <1>3, <1>4, <1>5, <1>6, OneLaneChanges DEF TypeOK, ChainInv

\* Steps of a lane that touch neither the queue nor the callbacks.
LEMMA LaneOnlyStep ==
    ASSUME TypeOK, ChainInv, NEW l \in Lane,
           Mark(l) \/ Opened(l) \/ JobStatementFails(l)
    PROVE  TypeOK' /\ ChainInv'
<1>. DEFINE k == lane[l]
<1>1. UNCHANGED <<submitted, queue, tasks, boot, stops, dlq, failedRuns, completed>>
    BY DEF Mark, Opened, JobStatementFails, history
<1>2. /\ status' \in {"none", "pending", "running", "success", "failed", "recovery_exhausted"}
      /\ begun' \subseteq Run
    BY OnLane DEF Mark, Opened, JobStatementFails, history, TypeOK
<1>3. \E x \in LaneRecord : /\ lane' = [lane EXCEPT ![l] = x]
                            /\ x.job = lane[l].job
                            /\ x.at \in {"run", "rethrow"}
  <2>1. CASE Mark(l)
    <3>. DEFINE x == [k EXCEPT !.at = "run", !.opening = TRUE]
    <3>1. x \in LaneRecord /\ x.job = lane[l].job /\ x.at = "run"
        BY OnLane DEF LaneRecord, LanePcs
    <3>2. lane' = [lane EXCEPT ![l] = x]
        BY <2>1, OnLane DEF Mark, TypeOK, LaneRecord
    <3>. QED BY <3>1, <3>2
  <2>2. CASE Opened(l)
    <3>. DEFINE x == [k EXCEPT !.opening = FALSE]
    <3>1. x \in LaneRecord /\ x.job = lane[l].job /\ x.at = "run"
        BY <2>2, OnLane DEF LaneRecord, LanePcs, Opened, At
    <3>2. lane' = [lane EXCEPT ![l] = x]
        BY <2>2, OnLane DEF Opened, TypeOK, LaneRecord
    <3>. QED BY <3>1, <3>2
  <2>3. CASE JobStatementFails(l)
    <3>. DEFINE x == [k EXCEPT !.at = "rethrow"]
    <3>1. x \in LaneRecord /\ x.job = lane[l].job /\ x.at = "rethrow"
        BY OnLane DEF LaneRecord, LanePcs
    <3>2. lane' = [lane EXCEPT ![l] = x]
        BY <2>3, OnLane DEF JobStatementFails, Goto, TypeOK, LaneRecord
    <3>. QED BY <3>1, <3>2
  <2>. QED BY <2>1, <2>2, <2>3
<1>4. PICK x \in LaneRecord : /\ lane' = [lane EXCEPT ![l] = x]
                              /\ x.job = lane[l].job
                              /\ x.at \in {"run", "rethrow"}
    BY <1>3
<1>5. (Earned(x.job.run) /\ FollowsFailure(x.at, x.job.run))'
    BY <1>1, <1>4, OnLane DEF Earned, FollowsFailure
<1>6. /\ \A t \in Task : (tasks[t] > 0 => Earned(t.run) /\ FollowsFailure(t.next, t.run))'
      /\ \A j \in Job : queue'[j] > 0 => Earned(j.run)
    BY <1>1 DEF ChainInv, Earned, FollowsFailure, Exhausted
<1>. QED BY <1>1, <1>2, <1>4, <1>5, <1>6, OneLaneChanges DEF TypeOK, ChainInv

\* Steps of a lane that give its job up or queue another.
LEMMA LeaveStep ==
    ASSUME TypeOK, ChainInv, NEW l \in Lane, Requeue(l) \/ TryAgain(l)
    PROVE  TypeOK' /\ ChainInv'
<1>1. /\ UNCHANGED <<submitted, status, tasks, boot, stops, dlq, begun, failedRuns,
                     completed>>
      /\ lane' = [lane EXCEPT ![l] = Idle]
    BY DEF Requeue, TryAgain, history, Free
<1>2. queue' \in [Job -> Nat] /\ \A j \in Job : queue'[j] > 0 => Earned(j.run)
  <2>1. CASE Requeue(l)
    <3>. DEFINE j == ExecutionJob(lane[l].job.run, NodesOnRecord)
    <3>1. j \in Job /\ j.run = lane[l].job.run /\ queue' = More(queue, j)
        BY <2>1, Values, OnLane DEF ExecutionJob, Requeue
    <3>. HIDE DEF j
    <3>. QED BY <3>1, OnLane, QueueGrows
  <2>2. CASE TryAgain(l)
    <3>. DEFINE j == [lane[l].job EXCEPT !.tries = @ + 1]
    <3>1. CASE lane[l].job.tries + 1 < Attempts
      <4>1. j \in Job /\ j.run = lane[l].job.run
          BY <3>1, OnLane, RecoveryAssumption DEF Job
      <4>2. queue' = More(queue, j)
          BY <2>2, <3>1 DEF TryAgain
      <4>. HIDE DEF j
      <4>. QED BY <4>1, <4>2, OnLane, QueueGrows
    <3>2. CASE ~(lane[l].job.tries + 1 < Attempts)
        BY <2>2, <3>2 DEF TryAgain, TypeOK, ChainInv
    <3>. QED BY <3>1, <3>2
  <2>. QED BY <2>1, <2>2
<1>3. \A t \in Task : (tasks[t] > 0 => Earned(t.run) /\ FollowsFailure(t.next, t.run))'
    BY <1>1 DEF ChainInv, Earned, FollowsFailure, Exhausted
<1>. QED BY <1>1, <1>2, <1>3, FreeLane, OneLaneChanges DEF TypeOK, ChainInv

\* Adding a callback whose run is earned, after more runs may have failed.
LEMMA TasksGrow ==
    ASSUME TypeOK, ChainInv, NEW l \in Lane, failedRuns \subseteq failedRuns',
           NEW f \in [Task -> Nat],
           \A t \in Task : f[t] > 0 => (Earned(t.run) /\ FollowsFailure(t.next, t.run))',
           NEW what \in {"running", "success", "failed"},
           what = "failed" => lane[l].job.run \in failedRuns'
    PROVE  /\ More(f, TaskOf(l, what)) \in [Task -> Nat]
           /\ \A t \in Task : More(f, TaskOf(l, what))[t] > 0
                => (Earned(t.run) /\ FollowsFailure(t.next, t.run))'
<1>1. PICK n \in Task : /\ n = TaskOf(l, what) /\ n.run = lane[l].job.run
                       /\ n.next = what /\ Earned(n.run)
    BY OnLane
<1>3. \A t \in Task : t = n => (Earned(t.run) /\ FollowsFailure(t.next, t.run))'
    BY <1>1 DEF Earned, FollowsFailure
<1>4. More(f, n) \in [Task -> Nat] /\ \A t \in Task : More(f, n)[t] > 0 => t = n \/ f[t] > 0
    BY <1>1, Counts
<1>. QED BY <1>1, <1>3, <1>4

\* The run is over: what it leaves to the callbacks is earned.
LEMMA RunOverStep ==
    ASSUME TypeOK, ChainInv, NEW l \in Lane, Complete(l) \/ FailRun(l) \/ ThrowRun(l)
    PROVE  TypeOK' /\ ChainInv'
<1>. DEFINE Good(f) == /\ f \in [Task -> Nat]
                       /\ \A t \in Task : f[t] > 0
                            => (Earned(t.run) /\ FollowsFailure(t.next, t.run))'
            late == IF lane[l].opening THEN More(tasks, TaskOf(l, "running")) ELSE tasks
<1>1. /\ UNCHANGED <<submitted, status, queue, boot, stops, dlq, begun>>
      /\ failedRuns \subseteq failedRuns' /\ failedRuns' \subseteq Run
      /\ completed' \subseteq BOOLEAN
    BY OnLane DEF Complete, FailRun, ThrowRun, history, TypeOK, Job
<1>2. Good(tasks)
    BY <1>1 DEF TypeOK, ChainInv, Earned, FollowsFailure, Exhausted
<1>3. Good(late)
  <2>1. CASE lane[l].opening
    <3>. HIDE DEF Good
    <3>1. Good(More(tasks, TaskOf(l, "running")))
        BY <1>1, <1>2, TasksGrow DEF Good
    <3>. QED BY <2>1, <3>1
  <2>2. CASE ~lane[l].opening
      BY <1>2, <2>2
  <2>. QED BY <2>1, <2>2
<1>4. /\ \A j \in Job : queue'[j] > 0 => Earned(j.run)
      /\ (dlq > 0 => 0..MaxRecovery \subseteq failedRuns)'
    BY <1>1 DEF ChainInv
<1>5. CASE Complete(l) \/ FailRun(l)
  <2>1. PICK what \in {"success", "failed"} :
            /\ End(l, what)
            /\ what = "failed" => lane[l].job.run \in failedRuns'
      BY <1>5 DEF Complete, FailRun
  <2>2. lane' = [lane EXCEPT ![l] = Idle] /\ tasks' = More(late, TaskOf(l, what))
      BY <2>1 DEF End, Free
  <2>3. Good(More(late, TaskOf(l, what)))
    <3>. HIDE DEF late
    <3>. QED BY <1>1, <1>3, <2>1, TasksGrow
  <2>4. /\ tasks' \in [Task -> Nat]
        /\ \A t \in Task : (tasks[t] > 0 => Earned(t.run) /\ FollowsFailure(t.next, t.run))'
      BY <2>2, <2>3
  <2>. QED BY <1>1, <1>4, <2>2, <2>4, FreeLane, OneLaneChanges DEF TypeOK
<1>6. CASE ThrowRun(l)
  <2>. DEFINE k == [lane[l] EXCEPT !.at = "failed", !.opening = FALSE]
  <2>1. lane' = [lane EXCEPT ![l] = k] /\ tasks' = late
      BY <1>6, OnLane DEF ThrowRun, TypeOK, LaneRecord
  <2>2. k \in LaneRecord /\ k.at = "failed" /\ k.job = lane[l].job
      BY OnLane DEF LaneRecord, LanePcs
  <2>3. PICK x \in LaneRecord : lane' = [lane EXCEPT ![l] = x] /\ x.at = "failed"
                               /\ x.job = lane[l].job
      BY <2>1, <2>2
  <2>4. lane[l].job.run \in failedRuns'
      BY <1>6 DEF ThrowRun
  <2>5. (Earned(x.job.run) /\ FollowsFailure(x.at, x.job.run))'
      BY <1>1, <2>3, <2>4, OnLane DEF Earned, FollowsFailure
  <2>6. /\ tasks' \in [Task -> Nat]
        /\ \A t \in Task : (tasks[t] > 0 => Earned(t.run) /\ FollowsFailure(t.next, t.run))'
      BY <1>3, <2>1
  <2>. QED BY <1>1, <1>4, <2>3, <2>5, <2>6, OneLaneChanges DEF TypeOK
<1>. QED BY <1>5, <1>6

LEMMA CatchStep ==
    ASSUME TypeOK, ChainInv, NEW l \in Lane, Catch(l)
    PROVE  TypeOK' /\ ChainInv'
<1>1. PICK next \in {"follow", "bury", "done"} :
          /\ FollowUp(lane[l].at, lane[l].job.run, next)
          /\ lane' = [lane EXCEPT ![l].at = IF next = "done" THEN "rethrow" ELSE next]
    BY DEF Catch, Goto
<1>2. UNCHANGED <<submitted, tasks, boot, stops, begun, failedRuns, completed>>
    BY DEF Catch, history
<1>3. /\ status' \in {"none", "pending", "running", "success", "failed", "recovery_exhausted"}
      /\ queue' \in [Job -> Nat] /\ dlq' \in Nat
      /\ FollowsFailure(next, lane[l].job.run)
      /\ \A j \in Job : queue'[j] > 0 => Earned(j.run)
      /\ dlq' > 0 => 0..MaxRecovery \subseteq failedRuns
    BY <1>1, OnLane, FollowUpStep
<1>. DEFINE k == [lane[l] EXCEPT !.at = IF next = "done" THEN "rethrow" ELSE next]
<1>4. lane' = [lane EXCEPT ![l] = k]
    BY <1>1, OnLane DEF TypeOK, LaneRecord
<1>5. /\ k \in LaneRecord /\ k.job = lane[l].job
      /\ k.at = next \/ k.at = "rethrow"
    BY OnLane DEF LaneRecord, LanePcs
<1>6. PICK x \in LaneRecord : /\ lane' = [lane EXCEPT ![l] = x]
                              /\ x.job = lane[l].job
                              /\ x.at = next \/ x.at = "rethrow"
    BY <1>4, <1>5
<1>7. (Earned(x.job.run) /\ FollowsFailure(x.at, x.job.run))'
    BY <1>2, <1>3, <1>6, OnLane DEF Earned, FollowsFailure, Exhausted
<1>8. /\ tasks' \in [Task -> Nat]
      /\ \A t \in Task : (tasks[t] > 0 => Earned(t.run) /\ FollowsFailure(t.next, t.run))'
    BY <1>2 DEF TypeOK, ChainInv, Earned, FollowsFailure, Exhausted
<1>9. (dlq > 0 => 0..MaxRecovery \subseteq failedRuns)'
    BY <1>2, <1>3
<1>. QED BY <1>2, <1>3, <1>6, <1>7, <1>8, <1>9, OneLaneChanges DEF TypeOK

\* A step of a callback.
LEMMA CallbackStep ==
    ASSUME TypeOK, ChainInv, NEW t \in Task, TaskStep(t)
    PROVE  TypeOK' /\ ChainInv'
<1>1. UNCHANGED <<submitted, lane, boot, stops, begun, failedRuns, completed>>
    BY DEF TaskStep, WriteStatus, HandleFailed, CallbackFails, history
<1>2. t.run \in Run /\ tasks[t] > 0 /\ Earned(t.run) /\ FollowsFailure(t.next, t.run)
    BY DEF TaskStep, WriteStatus, HandleFailed, CallbackFails, ChainInv, Task
<1>3. CASE WriteStatus(t) \/ CallbackFails(t)
  <2>1. /\ tasks' = Fewer(tasks, t)
        /\ UNCHANGED <<queue, dlq>>
        /\ status' \in {"none", "pending", "running", "success", "failed", "recovery_exhausted"}
      BY <1>3 DEF WriteStatus, CallbackFails, TypeOK
  <2>2. tasks' \in [Task -> Nat] /\ \A y \in Task : tasks'[y] > 0 => tasks[y] > 0
      BY <1>2, <2>1, Counts DEF TypeOK
  <2>. QED BY <1>1, <2>1, <2>2 DEF TypeOK, ChainInv, Earned, FollowsFailure, Exhausted
<1>4. CASE HandleFailed(t)
  <2>1. PICK next \in {"follow", "bury", "done"} :
            /\ FollowUp(t.next, t.run, next)
            /\ tasks' = IF next = "done" THEN Fewer(tasks, t)
                        ELSE More(Fewer(tasks, t), [t EXCEPT !.next = next])
      BY <1>4 DEF HandleFailed
  <2>2. /\ status' \in {"none", "pending", "running", "success", "failed", "recovery_exhausted"}
        /\ queue' \in [Job -> Nat] /\ dlq' \in Nat
        /\ FollowsFailure(next, t.run)
        /\ \A j \in Job : queue'[j] > 0 => Earned(j.run)
        /\ dlq' > 0 => 0..MaxRecovery \subseteq failedRuns
      BY <1>2, <2>1, FollowUpStep
  <2>. DEFINE u == [t EXCEPT !.next = next]
  <2>3. /\ Fewer(tasks, t) \in [Task -> Nat]
        /\ \A y \in Task : Fewer(tasks, t)[y] > 0 => tasks[y] > 0
      BY <1>2, Counts DEF TypeOK
  <2>4. next # "done" => u \in Task /\ u.run = t.run /\ u.next = next
      BY DEF Task
  <2>. HIDE DEF u
  <2>5. /\ tasks' \in [Task -> Nat]
        /\ \A y \in Task : tasks'[y] > 0 => tasks[y] > 0 \/ (next # "done" /\ y = u)
    <3>1. CASE next = "done"
        BY <2>1, <2>3, <3>1
    <3>2. CASE next # "done"
      <4>1. tasks' = More(Fewer(tasks, t), u)
          BY <2>1, <3>2 DEF u
      <4>. QED BY <2>3, <2>4, <3>2, <4>1, Counts
    <3>. QED BY <3>1, <3>2
  <2>6. \A y \in Task : tasks'[y] > 0 => Earned(y.run) /\ FollowsFailure(y.next, y.run)
      BY <1>2, <2>2, <2>4, <2>5 DEF ChainInv
  <2>. QED BY <1>1, <2>2, <2>5, <2>6 DEF TypeOK, ChainInv, Earned, FollowsFailure, Exhausted
<1>. QED BY <1>3, <1>4 DEF TaskStep

\* The invariant is inductive.
LEMMA Inductive == TypeOK /\ ChainInv /\ [Next]_vars => (TypeOK /\ ChainInv)'
<1>. SUFFICES ASSUME TypeOK, ChainInv, [Next]_vars  PROVE (TypeOK /\ ChainInv)'
    OBVIOUS
<1>1. CASE UNCHANGED vars
    BY <1>1 DEF vars, work, history, TypeOK, ChainInv, Earned, FollowsFailure, Exhausted
<1>2. CASE Submission \/ SubmitterDies \/ \E p \in Proc : BootStep(p)
    BY <1>2, SubmitStep DEF Submission, BootStep
<1>3. ASSUME NEW l \in Lane, LaneStep(l)  PROVE (TypeOK /\ ChainInv)'
    BY <1>3, TakeStep, LaneOnlyStep, LeaveStep, RunOverStep, CatchStep DEF LaneStep
<1>4. ASSUME NEW t \in Task, TaskStep(t)  PROVE (TypeOK /\ ChainInv)'
    BY <1>4, CallbackStep
<1>5. ASSUME NEW p \in Proc, Stop(p)  PROVE (TypeOK /\ ChainInv)'
    BY <1>5, StopStep
<1>. QED BY <1>1, <1>2, <1>3, <1>4, <1>5 DEF Next

LEMMA AlwaysChained == Spec => [](TypeOK /\ ChainInv)
BY InitInv, Inductive, PTL DEF Spec

-----------------------------------------------------------------------------
\* Type correctness: the status is one of the six the service writes, counts of
\* jobs, callbacks and rows never go below zero.
THEOREM TypeCorrect == Spec => []TypeOK
BY AlwaysChained, PTL

\* No run carries a recovery attempt beyond MAX_RECOVERY_ATTEMPTS, whatever
\* BullMQ tries again, a stopped process returns or a start-up queues again.
THEOREM CapIsKept == Spec => []CapKept
<1>1. TypeOK /\ ChainInv => CapKept
  <2>. SUFFICES ASSUME TypeOK, ChainInv  PROVE CapKept
      OBVIOUS
  <2>1. \A r \in Run : Earned(r) => ~(r > MaxRecovery)
      BY RecoveryAssumption DEF Earned, Run
  <2>2. \A j \in Job : j.run \in Run /\ queue[j] \in Nat
      BY DEF TypeOK, Job
  <2>3. \A j \in Job : j.run > MaxRecovery => queue[j] = 0
      BY <2>1, <2>2 DEF ChainInv
  <2>. QED BY <2>3, OnLane DEF CapKept, Earned
<1>. QED BY <1>1, AlwaysChained, PTL

\* An execution has a row in the dead-letter queue only after its first run and
\* every recovery up to the cap has failed.
THEOREM NotGivenUpTooEarly == Spec => []NotGivenUpEarly
<1>1. ChainInv => NotGivenUpEarly
    BY DEF ChainInv, NotGivenUpEarly
<1>. QED BY <1>1, AlwaysChained, PTL

-----------------------------------------------------------------------------
(* Giving up leaves its dead-letter row.                                     *)

\* What has been given up and not yet buried stays in somebody's hands.
LEMMA StillBuried ==
    ASSUME BuriedInv, UNCHANGED <<status, dlq>>,
           \A l \in Lane : At(l, "bury") => At(l, "bury")',
           \A t \in Task : t.next = "bury" /\ tasks[t] > 0 => tasks'[t] > 0
    PROVE  BuriedInv'
BY DEF BuriedInv

\* A step that writes another status leaves nothing to bury.
LEMMA NothingToBury == ASSUME status' # "recovery_exhausted" PROVE BuriedInv'
BY DEF BuriedInv

\* Giving up and burying, by a lane or by a callback.
LEMMA FollowUpBuries ==
    ASSUME TypeOK, BuriedInv, NEW step, NEW r \in Run, NEW next, FollowUp(step, r, next)
    PROVE  \/ dlq' > 0 \/ status' # "recovery_exhausted"
           \/ next = "bury"
           \/ UNCHANGED <<status, dlq>> /\ step # "bury"
BY DEF FollowUp, WriteFailed, GiveUp, AskRecovery, Bury, TypeOK

\* If statements succeed and processes do not stop, who gives up buries.
LEMMA BuriedStep ==
    ASSUME "db" \notin Faults, "stop" \notin Faults, TypeOK, ChainInv, BuriedInv,
           [Next]_vars
    PROVE  BuriedInv'
<1>. USE DEF At
<1>1. CASE UNCHANGED vars
    BY <1>1, StillBuried DEF vars, work
<1>2. CASE Submission \/ SubmitterDies \/ \E p \in Proc : BootStep(p)
  <2>1. CASE Create
      BY <2>1, NothingToBury DEF Create
  <2>2. CASE Submit \/ SubmitterDies \/ \E p \in Proc : BootStep(p)
      BY <2>2, StillBuried DEF Submit, SubmitterDies, BootStep, Scan, Interrupted, work
  <2>. QED BY <1>2, <2>1, <2>2 DEF Submission
<1>3. ASSUME NEW l \in Lane, LaneStep(l)  PROVE BuriedInv'
  <2>1. CASE Mark(l) \/ Opened(l)
      BY <1>3, <2>1, NothingToBury DEF Mark, Opened
  <2>2. CASE Take(l) \/ Requeue(l) \/ TryAgain(l)
    <3>1. /\ UNCHANGED <<status, dlq, tasks>>
          /\ ~At(l, "bury")
          /\ \E x : lane' = [lane EXCEPT ![l] = x]
        BY <2>2 DEF Take, Requeue, TryAgain, Free
    <3>2. \A m \in Lane : At(m, "bury") => At(m, "bury")'
        BY <3>1 DEF TypeOK
    <3>. QED BY <3>1, <3>2, StillBuried
  <2>3. CASE Complete(l) \/ FailRun(l) \/ ThrowRun(l)
    <3>1. /\ UNCHANGED <<status, dlq>>
          /\ At(l, "run")
          /\ \E x : \/ lane' = [lane EXCEPT ![l] = x]
                    \/ lane' = [lane EXCEPT ![l].at = "failed", ![l].opening = FALSE]
        BY <2>3 DEF Complete, FailRun, ThrowRun, End, Free
    <3>2. \A m \in Lane : At(m, "bury") => At(m, "bury")'
        BY <3>1 DEF TypeOK
    <3>. DEFINE late == IF lane[l].opening THEN More(tasks, TaskOf(l, "running")) ELSE tasks
    <3>3. /\ late \in [Task -> Nat]
          /\ \A t \in Task : tasks[t] > 0 => late[t] > 0
        BY OnLane DEF TypeOK, More
    <3>4. \/ tasks' = late
          \/ \E what \in {"success", "failed"} : tasks' = More(late, TaskOf(l, what))
        BY <2>3 DEF Complete, FailRun, ThrowRun, End
    <3>5. \A t \in Task : tasks[t] > 0 => tasks'[t] > 0
      <4>. HIDE DEF late
      <4>. QED BY <3>3, <3>4, OnLane DEF More
    <3>. QED BY <3>1, <3>2, <3>5, StillBuried
  <2>4. CASE Catch(l)
    <3>1. PICK next \in {"follow", "bury", "done"} :
              /\ FollowUp(lane[l].at, lane[l].job.run, next)
              /\ lane' = [lane EXCEPT ![l].at = IF next = "done" THEN "rethrow" ELSE next]
        BY <2>4 DEF Catch, Goto
    <3>2. UNCHANGED tasks
        BY <2>4 DEF Catch
    <3>3. CASE dlq' > 0 \/ status' # "recovery_exhausted"
        BY <3>3 DEF BuriedInv
    <3>4. CASE next = "bury"
        BY <3>1, <3>4 DEF BuriedInv, TypeOK
    <3>5. CASE UNCHANGED <<status, dlq>> /\ lane[l].at # "bury"
      <4>1. \A m \in Lane : At(m, "bury") => At(m, "bury")'
          BY <3>1, <3>5 DEF TypeOK
      <4>. QED BY <3>2, <3>5, <4>1, StillBuried
    <3>. QED BY <3>1, <3>3, <3>4, <3>5, FollowUpBuries, OnLane
  <2>. QED BY <1>3, <2>1, <2>2, <2>3, <2>4 DEF LaneStep, JobStatementFails
<1>4. ASSUME NEW t \in Task, TaskStep(t)  PROVE BuriedInv'
  <2>1. CASE WriteStatus(t)
    <3>1. status' # "recovery_exhausted"
        BY <2>1 DEF WriteStatus
    <3>. QED BY <3>1, NothingToBury
  <2>2. CASE HandleFailed(t)
    <3>1. PICK next \in {"follow", "bury", "done"} :
              /\ FollowUp(t.next, t.run, next)
              /\ tasks' = IF next = "done" THEN Fewer(tasks, t)
                          ELSE More(Fewer(tasks, t), [t EXCEPT !.next = next])
        BY <2>2 DEF HandleFailed
    <3>2. UNCHANGED lane /\ tasks[t] > 0 /\ t.run \in Run
        BY <2>2 DEF HandleFailed, Task
    <3>3. CASE dlq' > 0 \/ status' # "recovery_exhausted"
        BY <3>3 DEF BuriedInv
    <3>. DEFINE u == [t EXCEPT !.next = next]
    <3>4. next # "done" => u \in Task /\ u.next = next
        BY DEF Task
    <3>5. /\ Fewer(tasks, t) \in [Task -> Nat]
          /\ \A y \in Task \ {t} : Fewer(tasks, t)[y] = tasks[y]
        BY <3>2 DEF Fewer, TypeOK
    <3>. HIDE DEF u
    <3>6. next # "done" => tasks' = More(Fewer(tasks, t), u)
        BY <3>1 DEF u
    <3>7. CASE next = "bury"
      <4>1. tasks'[u] > 0
          BY <3>4, <3>5, <3>6, <3>7 DEF More
      <4>. QED BY <3>4, <3>7, <4>1 DEF BuriedInv
    <3>8. CASE UNCHANGED <<status, dlq>> /\ t.next # "bury"
      <4>1. \A y \in Task \ {t} : tasks[y] > 0 => tasks'[y] > 0
          BY <3>1, <3>4, <3>5, <3>6 DEF More
      <4>2. \A y \in Task : y.next = "bury" /\ tasks[y] > 0 => tasks'[y] > 0
          BY <3>8, <4>1
      <4>. QED BY <3>2, <3>8, <4>2, StillBuried
    <3>. QED BY <3>1, <3>2, <3>3, <3>7, <3>8, FollowUpBuries
  <2>. QED BY <1>4, <2>1, <2>2 DEF TaskStep, CallbackFails
<1>. QED BY <1>1, <1>2, <1>3, <1>4 DEF Next, Stop

\* An execution given up has its dead-letter row once everything is at rest, also
\* when runs throw, nodes fail and late updates overtake: only a failing statement
\* or a stop between the two writes can lose the row.
THEOREM GivenUpIsBuried ==
    ASSUME "db" \notin Faults, "stop" \notin Faults
    PROVE  Spec => []ExhaustedIsBuried
<1>1. Init => BuriedInv
    BY DEF Init, BuriedInv
<1>2. TypeOK /\ ChainInv /\ BuriedInv /\ [Next]_vars => (TypeOK /\ ChainInv /\ BuriedInv)'
    BY Inductive, BuriedStep
<1>3. BuriedInv => ExhaustedIsBuried
    BY DEF BuriedInv, ExhaustedIsBuried, Settled, At
<1>. QED BY InitInv, <1>1, <1>2, <1>3, PTL DEF Spec

-----------------------------------------------------------------------------
(* The refinement of the recovery protocol.                                  *)

\* A step of the protocol.
LStep == [Lifecycle!Next]_(Lifecycle!vars)

LEMMA Stutters ==
    ASSUME UNCHANGED <<status, begun, failedRuns, completed, dlq>>  PROVE LStep
BY DEF LStep, Lifecycle!vars

\* An attempt that is earned may begin, once there is an execution.
LEMMA BeginsStep ==
    ASSUME NEW r \in Run, Earned(r), status # "none", status' = "running",
           begun' = begun \cup {r}, UNCHANGED <<failedRuns, completed, dlq>>
    PROVE  LStep
<1>1. r \in Lifecycle!Attempt
    BY RecoveryAssumption DEF Lifecycle!Attempt, Run, Earned
<1>2. r > 0 => r - 1 \in failedRuns
    BY RecoveryAssumption DEF Run, Earned
<1>3. Lifecycle!Begin(r)
    BY <1>2 DEF Lifecycle!Begin
<1>. QED BY <1>1, <1>3 DEF LStep, Lifecycle!Next

\* A run that has begun may fail.
LEMMA FailsStep ==
    ASSUME NEW r \in Run, Earned(r), r \in begun, failedRuns' = failedRuns \cup {r},
           UNCHANGED <<status, begun, completed, dlq>>
    PROVE  LStep
<1>1. r \in Lifecycle!Attempt
    BY RecoveryAssumption DEF Lifecycle!Attempt, Run, Earned
<1>. QED BY <1>1 DEF LStep, Lifecycle!Next, Lifecycle!FailRun

\* What a follow-up does to the status and the dead-letter queue is the protocol's.
LEMMA FollowUpIsProtocol ==
    ASSUME NEW step, NEW r \in Run, NEW next, FollowUp(step, r, next),
           Earned(r), FollowsFailure(step, r),
           UNCHANGED <<begun, failedRuns, completed>>
    PROVE  LStep
<1>1. Exhausted(r) /\ r \in failedRuns => Lifecycle!AllFailed
  <2>. SUFFICES ASSUME Exhausted(r), r \in failedRuns  PROVE Lifecycle!AllFailed
      OBVIOUS
  <2>1. r = MaxRecovery /\ r \in Nat
      BY RecoveryAssumption DEF Exhausted, Earned, Run
  <2>2. \A k \in 0..MaxRecovery : k \in 0..(r - 1) \/ k = r
      BY <2>1, RecoveryAssumption
  <2>. QED BY <2>1, <2>2 DEF Earned, Lifecycle!AllFailed, Lifecycle!Attempt
<1>2. CASE WriteFailed(step, next)
    BY <1>2 DEF WriteFailed, FollowsFailure, LStep, Lifecycle!Next, Lifecycle!Report
<1>3. CASE GiveUp(step, r, next)
    BY <1>1, <1>3 DEF GiveUp, FollowsFailure, LStep, Lifecycle!Next, Lifecycle!GiveUp
<1>4. CASE AskRecovery(step, r, next)
    BY <1>4, Stutters DEF AskRecovery
<1>5. CASE Bury(step, next)
    BY <1>1, <1>5 DEF Bury, FollowsFailure, LStep, Lifecycle!Next, Lifecycle!Bury
<1>. QED BY <1>2, <1>3, <1>4, <1>5 DEF FollowUp

\* What is at work has begun, so there is an execution.
LEMMA Created ==
    ASSUME CauseInv
    PROVE  /\ \A l \in Lane : ~At(l, "free") => status # "none"
           /\ \A t \in Task : tasks[t] > 0 => status # "none"
BY DEF CauseInv

\* A lane's step.
LEMMA LaneIsProtocol ==
    ASSUME TypeOK, ChainInv, CauseInv, NEW l \in Lane, LaneStep(l)
    PROVE  LStep
<1>. DEFINE r == lane[l].job.run
<1>1. /\ r \in Run /\ Earned(r) /\ FollowsFailure(lane[l].at, r)
      /\ At(l, "run") => r \in begun /\ status # "none"
      /\ ~At(l, "free") => status # "none"
    BY OnLane, Created DEF CauseInv, At
<1>2. CASE Take(l) \/ Requeue(l) \/ TryAgain(l) \/ JobStatementFails(l)
    BY <1>2, Stutters DEF Take, Requeue, TryAgain, JobStatementFails, history
<1>3. CASE Mark(l)
  <2>1. /\ status # "none" /\ status' = "running" /\ begun' = begun \cup {r}
        /\ UNCHANGED <<failedRuns, completed, dlq>>
      BY <1>1, <1>3 DEF Mark, At
  <2>. QED BY <1>1, <2>1, BeginsStep
<1>4. CASE Opened(l)
  <2>1. r \in begun /\ status # "none" /\ UNCHANGED <<begun, failedRuns, completed, dlq>>
      BY <1>1, <1>4 DEF Opened, history
  <2>2. begun' = begun \cup {r}
      BY <2>1
  <2>3. CASE UNCHANGED status
      BY <2>1, <2>3, Stutters
  <2>4. CASE status' = "running"
      BY <1>1, <2>1, <2>2, <2>4, BeginsStep
  <2>. QED BY <1>4, <2>3, <2>4 DEF Opened
<1>5. CASE Complete(l)
  <2>1. begun # {} /\ UNCHANGED <<status, begun, failedRuns, dlq>>
      BY <1>1, <1>5 DEF Complete, End
  <2>2. \E whole \in BOOLEAN : completed' = completed \cup {whole}
      BY <1>5, OnLane DEF Complete, Job
  <2>. QED BY <2>1, <2>2 DEF LStep, Lifecycle!Next, Lifecycle!CompleteRun
<1>6. CASE FailRun(l) \/ ThrowRun(l)
  <2>1. /\ r \in begun /\ failedRuns' = failedRuns \cup {r}
        /\ UNCHANGED <<status, begun, completed, dlq>>
      BY <1>1, <1>6 DEF FailRun, ThrowRun, End
  <2>. QED BY <1>1, <2>1, FailsStep
<1>7. CASE Catch(l)
  <2>1. PICK next : FollowUp(lane[l].at, r, next)
      BY <1>7 DEF Catch
  <2>2. UNCHANGED <<begun, failedRuns, completed>>
      BY <1>7 DEF Catch, history
  <2>. QED BY <1>1, <2>1, <2>2, FollowUpIsProtocol
<1>. QED BY <1>2, <1>3, <1>4, <1>5, <1>6, <1>7 DEF LaneStep

\* A callback's step.
LEMMA TaskIsProtocol ==
    ASSUME TypeOK, ChainInv, CauseInv, NEW t \in Task, TaskStep(t)
    PROVE  LStep
<1>1. tasks[t] > 0
    BY DEF TaskStep, WriteStatus, HandleFailed, CallbackFails
<1>2. /\ t.run \in Run /\ Earned(t.run) /\ FollowsFailure(t.next, t.run)
      /\ t.run \in begun /\ status # "none"
      /\ t.next = "success" => completed # {}
    BY <1>1, Created DEF ChainInv, CauseInv, Task
<1>3. CASE WriteStatus(t)
  <2>1. UNCHANGED <<begun, failedRuns, completed, dlq>> /\ begun' = begun \cup {t.run}
      BY <1>2, <1>3 DEF WriteStatus, history
  <2>2. CASE t.next = "running"
    <3>1. status' = "running"
        BY <1>3, <2>2 DEF WriteStatus
    <3>. QED BY <1>2, <2>1, <3>1, BeginsStep
  <2>3. CASE t.next = "success"
    <3>1. status' = "success" /\ completed # {}
        BY <1>2, <1>3, <2>3 DEF WriteStatus
    <3>. QED BY <2>1, <3>1 DEF LStep, Lifecycle!Next, Lifecycle!Report
  <2>. QED BY <1>3, <2>2, <2>3 DEF WriteStatus
<1>4. CASE HandleFailed(t)
  <2>1. PICK next : FollowUp(t.next, t.run, next)
      BY <1>4 DEF HandleFailed
  <2>2. UNCHANGED <<begun, failedRuns, completed>>
      BY <1>4 DEF HandleFailed, history
  <2>. QED BY <1>2, <2>1, <2>2, FollowUpIsProtocol
<1>5. CASE CallbackFails(t)
    BY <1>5, Stutters DEF CallbackFails, history
<1>. QED BY <1>3, <1>4, <1>5 DEF TaskStep

\* Every step is one of the protocol's.
LEMMA StepIsProtocol ==
    ASSUME TypeOK, ChainInv, CauseInv, [Next]_vars
    PROVE  LStep
<1>1. CASE UNCHANGED vars
    BY <1>1, Stutters DEF vars, history
<1>2. CASE Create
  <2>1. status = "none"
      BY <1>2 DEF Create, CauseInv
  <2>. QED BY <1>2, <2>1 DEF Create, history, LStep, Lifecycle!Next, Lifecycle!Submit
<1>3. CASE Submit \/ SubmitterDies \/ \E p \in Proc : BootStep(p) \/ Stop(p)
    BY <1>3, Stutters DEF Submit, SubmitterDies, BootStep, Scan, Interrupted, Stop, history
<1>. QED BY <1>1, <1>2, <1>3, LaneIsProtocol, TaskIsProtocol DEF Next, Submission

\* What has a cause keeps it: a step that lets history grow, changes at most the
\* position of lanes that are not free, and adds callbacks with a cause.
LEMMA CauseStays ==
    ASSUME CauseInv, status # "none", status' # "none", UNCHANGED submitted,
           begun \subseteq begun', completed \subseteq completed',
           failedRuns' \subseteq begun',
           \A l \in Lane : At(l, "run")' => \/ lane'[l].job.run \in begun'
                                            \/ lane'[l] = lane[l],
           \A t \in Task : tasks'[t] > 0 =>
              \/ tasks[t] > 0
              \/ t.run \in begun' /\ (t.next = "success" => completed' # {})
    PROVE  CauseInv'
<1>1. (submitted = "no" <=> status = "none")' /\ status' # "none"
    BY DEF CauseInv
<1>2. \A l \in Lane : (At(l, "run") => lane[l].job.run \in begun)'
    BY DEF CauseInv, At
<1>3. \A t \in Task : (tasks[t] > 0 =>
        t.run \in begun /\ (t.next = "success" => completed # {}))'
    BY DEF CauseInv
<1>. QED BY <1>1, <1>2, <1>3 DEF CauseInv

\* Causes are kept by submission, start-up and stops.
LEMMA CauseOfStart ==
    ASSUME TypeOK, CauseInv,
           \/ Create \/ Submit \/ SubmitterDies
           \/ \E p \in Proc : BootStep(p) \/ Stop(p)
    PROVE  CauseInv'
<1>1. CASE Create
    BY <1>1 DEF Create, work, history, CauseInv, At
<1>2. CASE Submit \/ SubmitterDies
  <2>1. /\ status # "none" /\ status' # "none"
        /\ submitted # "no" /\ submitted' # "no"
        /\ UNCHANGED <<lane, tasks, begun, failedRuns, completed>>
      BY <1>2 DEF Submit, SubmitterDies, work, history, CauseInv
  <2>. QED BY <2>1 DEF CauseInv, At
<1>3. ASSUME NEW p \in Proc, Interrupted(p)  PROVE CauseInv'
  <2>1. /\ status # "none" /\ status' # "none" /\ UNCHANGED submitted
        /\ UNCHANGED <<lane, tasks, begun, failedRuns, completed>>
      BY <1>3 DEF Interrupted, history, CauseInv
  <2>. QED BY <2>1 DEF CauseInv, At
<1>4. ASSUME NEW p \in Proc, Scan(p)  PROVE CauseInv'
  <2>1. /\ UNCHANGED <<submitted, status, queue, lane, tasks, begun, failedRuns, completed>>
        /\ status = "none" => \A q \in Proc : boot'[q] # "requeue"
      BY <1>4 DEF Scan, work, history, CauseInv, TypeOK
  <2>. QED BY <2>1 DEF CauseInv, At
<1>5. ASSUME NEW p \in Proc, Stop(p)  PROVE CauseInv'
  <2>1. /\ UNCHANGED <<submitted, status, begun, failedRuns, completed>>
        /\ \A l \in Lane : lane'[l] = Idle \/ lane'[l] = lane[l]
        /\ \A t \in Task : tasks'[t] = 0 \/ tasks'[t] = tasks[t]
      BY <1>5 DEF Stop, history
  <2>2. \A l \in Lane : At(l, "free") => At(l, "free")'
      BY <2>1, Values DEF At
  <2>3. \A l \in Lane : At(l, "run")' => lane'[l] = lane[l]
      BY <2>1, Values DEF At
  <2>4. \A q \in Proc : boot'[q] = boot[q] \/ boot'[q] = "scan"
      BY <1>5 DEF Stop, TypeOK
  <2>5. CASE status = "none"
    <3>1. \A l \in Lane : At(l, "free")
        BY <2>5 DEF CauseInv
    <3>2. {l \in Lane : Home[l] = p /\ ~At(l, "free")} = {}
        BY <3>1
    <3>3. queue' = [j \in Job |-> queue[j] + Cardinality({l \in {} : lane[l].job = j})]
        BY <1>5, <3>2 DEF Stop
    <3>4. \A j \in Job : Cardinality({l \in {} : lane[l].job = j}) = 0
      <4>1. \A j \in Job : {l \in {} : lane[l].job = j} = {}
          OBVIOUS
      <4>. QED BY <4>1, FS_EmptySet
    <3>5. \A j \in Job : queue'[j] = 0
        BY <2>5, <3>3, <3>4 DEF CauseInv
    <3>6. \A t \in Task : ~(tasks'[t] > 0)
        BY <2>1, <2>5 DEF CauseInv
    <3>7. /\ \A l \in Lane : At(l, "free")'
          /\ \A q \in Proc : boot'[q] # "requeue"
        BY <2>2, <2>4, <2>5, <3>1 DEF CauseInv
    <3>8. \A l \in Lane : (~At(l, "run"))'
        BY <3>7 DEF At
    <3>. QED BY <2>1, <3>5, <3>6, <3>7, <3>8 DEF CauseInv
  <2>6. CASE status # "none"
    <3>1. failedRuns' \subseteq begun'
        BY <2>1 DEF CauseInv
    <3>2. \A t \in Task : tasks'[t] > 0 => tasks[t] > 0
        BY <2>1
    <3>. QED BY <2>1, <2>3, <2>6, <3>1, <3>2, CauseStays
  <2>. QED BY <2>5, <2>6
<1>. QED BY <1>1, <1>2, <1>3, <1>4, <1>5 DEF BootStep

\* ... by lanes ...
LEMMA CauseOfLane ==
    ASSUME TypeOK, ChainInv, CauseInv, NEW l \in Lane, LaneStep(l)
    PROVE  CauseInv'
<1>. DEFINE r == lane[l].job.run
            late == IF lane[l].opening THEN More(tasks, TaskOf(l, "running")) ELSE tasks
<1>1. status # "none"
  <2>1. CASE Take(l)
      BY <2>1 DEF Take, CauseInv, TypeOK
  <2>2. CASE ~Take(l)
    <3>1. ~At(l, "free")
        BY <2>2 DEF LaneStep, Mark, Opened, Complete, FailRun, ThrowRun, End, Requeue,
              TryAgain, JobStatementFails, Catch, FollowUp, WriteFailed, GiveUp,
              AskRecovery, Bury, At
    <3>. QED BY <3>1, Created
  <2>. QED BY <2>1, <2>2
<1>2. /\ status' # "none" /\ UNCHANGED submitted
      /\ begun \subseteq begun' /\ completed \subseteq completed'
    BY <1>1 DEF LaneStep, Take, Mark, Opened, Complete, FailRun, ThrowRun, End, Requeue,
       TryAgain, JobStatementFails, Catch, FollowUp, WriteFailed, GiveUp,
       AskRecovery, Bury, history
<1>3. At(l, "run") => r \in begun
    BY DEF CauseInv
<1>4. failedRuns' \subseteq begun'
    BY <1>2, <1>3 DEF LaneStep, Take, Mark, Opened, Complete, FailRun, ThrowRun, End, Requeue,
       TryAgain, JobStatementFails, Catch, history, CauseInv
<1>5. \A m \in Lane : At(m, "run")' => lane'[m].job.run \in begun' \/ lane'[m] = lane[m]
  <2>1. \A m \in Lane : m # l => lane'[m] = lane[m]
      BY DEF LaneStep, Take, Mark, Opened, Complete, FailRun, ThrowRun, End, Requeue,
             TryAgain, JobStatementFails, Catch, Goto, Free, TypeOK
  <2>2. At(l, "run")' => lane'[l].job.run \in begun'
    <3>1. CASE Mark(l)
        BY <3>1 DEF Mark, TypeOK
    <3>2. CASE Opened(l)
        BY <1>2, <1>3, <3>2 DEF Opened, TypeOK
    <3>3. CASE Take(l)
        BY <3>3 DEF Take, At, TypeOK
    <3>4. CASE Complete(l) \/ FailRun(l) \/ Requeue(l) \/ TryAgain(l)
        BY <3>4, Values DEF Complete, FailRun, End, Requeue, TryAgain, Free, At, TypeOK
    <3>5. CASE ThrowRun(l) \/ JobStatementFails(l) \/ Catch(l)
        BY <3>5 DEF ThrowRun, JobStatementFails, Catch, Goto, At, TypeOK
    <3>. QED BY <3>1, <3>2, <3>3, <3>4, <3>5 DEF LaneStep
  <2>. QED BY <2>1, <2>2
<1>6. \A t \in Task : tasks'[t] > 0 =>
        \/ tasks[t] > 0
        \/ t.run \in begun' /\ (t.next = "success" => completed' # {})
  <2>1. CASE Complete(l) \/ FailRun(l) \/ ThrowRun(l)
    <3>1. r \in begun' /\ (Complete(l) => completed' # {})
        BY <1>2, <1>3, <2>1 DEF Complete, FailRun, ThrowRun, End
    <3>2. /\ late \in [Task -> Nat]
          /\ \A t \in Task : late[t] > 0 => tasks[t] > 0 \/ t = TaskOf(l, "running")
        BY OnLane, Counts DEF TypeOK
    <3>3. \/ tasks' = late
          \/ \E what \in {"success", "failed"} :
                /\ tasks' = More(late, TaskOf(l, what))
                /\ what = "success" => Complete(l)
        BY <2>1 DEF Complete, FailRun, ThrowRun, End
    <3>. HIDE DEF late
    <3>4. CASE tasks' = late
        BY <3>1, <3>2, <3>4, OnLane
    <3>5. ASSUME NEW what \in {"success", "failed"}, tasks' = More(late, TaskOf(l, what)),
                 what = "success" => Complete(l), NEW t \in Task, tasks'[t] > 0
          PROVE  \/ tasks[t] > 0
                 \/ t.run \in begun' /\ (t.next = "success" => completed' # {})
      <4>1. t = TaskOf(l, what) \/ late[t] > 0
          BY <3>2, <3>5, OnLane, Counts
      <4>. QED BY <3>1, <3>2, <3>5, <4>1, OnLane
    <3>. QED BY <3>3, <3>4, <3>5
  <2>2. CASE ~(Complete(l) \/ FailRun(l) \/ ThrowRun(l))
      BY <2>2 DEF LaneStep, Take, Mark, Opened, Requeue, TryAgain, JobStatementFails, Catch
  <2>. QED BY <2>1, <2>2
<1>. QED BY <1>1, <1>2, <1>4, <1>5, <1>6, CauseStays

\* ... and by callbacks.
LEMMA CauseOfTask ==
    ASSUME TypeOK, ChainInv, CauseInv, NEW t \in Task, TaskStep(t)
    PROVE  CauseInv'
<1>1. tasks[t] > 0 /\ t.run \in begun /\ status # "none"
    BY Created DEF TaskStep, WriteStatus, HandleFailed, CallbackFails, CauseInv
<1>2. UNCHANGED <<submitted, lane, begun, failedRuns, completed>>
    BY DEF TaskStep, WriteStatus, HandleFailed, CallbackFails, history
<1>3. status' # "none"
    BY <1>1 DEF TaskStep, WriteStatus, HandleFailed, CallbackFails, FollowUp,
       WriteFailed, GiveUp, AskRecovery, Bury
<1>4. Fewer(tasks, t) \in [Task -> Nat]
      /\ \A u \in Task : Fewer(tasks, t)[u] > 0 => tasks[u] > 0
    BY <1>1, Counts DEF TypeOK
<1>5. \A u \in Task : tasks'[u] > 0 =>
        \/ tasks[u] > 0
        \/ u.run \in begun' /\ (u.next = "success" => completed' # {})
  <2>1. CASE WriteStatus(t) \/ CallbackFails(t)
      BY <1>4, <2>1 DEF WriteStatus, CallbackFails
  <2>2. CASE HandleFailed(t)
    <3>1. PICK next \in {"follow", "bury", "done"} :
              tasks' = IF next = "done" THEN Fewer(tasks, t)
                       ELSE More(Fewer(tasks, t), [t EXCEPT !.next = next])
        BY <2>2 DEF HandleFailed
    <3>. DEFINE v == [t EXCEPT !.next = next]
    <3>2. next # "done" => v \in Task /\ v.run = t.run /\ v.next # "success"
        BY DEF Task
    <3>3. next # "done" => tasks' = More(Fewer(tasks, t), v)
        BY <3>1
    <3>. HIDE DEF v
    <3>4. CASE next = "done"
        BY <1>4, <3>1, <3>4
    <3>5. CASE next # "done"
      <4>1. \A u \in Task : tasks'[u] > 0 => u = v \/ tasks[u] > 0
          BY <1>4, <3>2, <3>3, <3>5, Counts
      <4>. QED BY <1>1, <1>2, <3>2, <3>5, <4>1
    <3>. QED BY <3>4, <3>5
  <2>. QED BY <2>1, <2>2 DEF TaskStep
<1>6. failedRuns' \subseteq begun'
    BY <1>2 DEF CauseInv
<1>. QED BY <1>1, <1>2, <1>3, <1>5, <1>6, CauseStays

\* The service implements the recovery protocol under every fault: whatever runs
\* throw, processes stop, statements fail and updates overtake each other, each
\* step is the protocol's or changes nothing the protocol speaks of.  That it also
\* makes the protocol's progress is liveness and not claimed here.
THEOREM ImplementsProtocol == Spec => RecoverySteps
<1>1. Init => CauseInv
    BY Values DEF Init, CauseInv, At
<1>2. TypeOK /\ ChainInv /\ CauseInv /\ [Next]_vars => CauseInv'
  <2>. SUFFICES ASSUME TypeOK, ChainInv, CauseInv, [Next]_vars  PROVE CauseInv'
      OBVIOUS
  <2>1. CASE UNCHANGED vars
      BY <2>1 DEF vars, work, history, CauseInv, At
  <2>. QED BY <2>1, CauseOfStart, CauseOfLane, CauseOfTask DEF Next, Submission
<1>3. Init => Lifecycle!Init
    BY DEF Init, Lifecycle!Init
<1>4. TypeOK /\ ChainInv /\ CauseInv /\ [Next]_vars => LStep
    BY StepIsProtocol
<1>. QED BY InitInv, Inductive, <1>1, <1>2, <1>3, <1>4, PTL
     DEF Spec, RecoverySteps, Lifecycle!SafeSpec, LStep
=============================================================================
