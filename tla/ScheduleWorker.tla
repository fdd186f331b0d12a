--------------------------- MODULE ScheduleWorker ---------------------------
(***************************************************************************)
(* One schedule of the scheduler service and the workers that poll for it. *)
(* A worker loads the due schedule, queues the workflow's execution and    *)
(* writes back the whole row it loaded, with the run recorded.  The API    *)
(* pauses, activates and deletes the row in between.                       *)
(*                                                                         *)
(* Time is counted in units of the schedule's period.  The row keeps its   *)
(* nextRunAt when the next run is unknown: Prisma skips undefined columns. *)
(***************************************************************************)
EXTENDS Integers

CONSTANTS
    Worker,
    FirstRun,       \* nextRunAt of the new row
    Periodic,       \* the next run can be computed: recurring, or a valid cron
    MaxRuns,        \* maxRuns, 0 for none
    EndAt,          \* endAt, MaxTime for none
    ScheduleFaults, \* what the environment of this instance may do
    MaxTime, MaxEdits, MaxMisfires   \* bounds of the instance

ScheduleFaultKinds == {"start", "write", "stop", "workflow"}

ASSUME ScheduleAssumption ==
    /\ FirstRun \in Nat /\ MaxRuns \in Nat /\ EndAt \in Nat
    /\ Periodic \in BOOLEAN
    /\ ScheduleFaults \subseteq ScheduleFaultKinds
    /\ MaxTime \in Nat /\ MaxEdits \in Nat /\ MaxMisfires \in Nat

VARIABLES
    now,
    row,        \* the stored schedule: status, nextRunAt, runCount; or deleted
    poll,       \* where tick() of a worker stands
    copy,       \* the schedule object it loaded
    fired,      \* executions created, by the nextRunAt they were created for
    started,    \* history: how many in all
    edits,      \* pauses and activations through the API
    activated,  \* history: how many of them activated one whose runs were used up
    misfires    \* history: executions created whose run was not recorded

scheduleVars == <<now, row, poll, copy, fired, started, edits, activated, misfires>>

RowStatus == {"active", "paused", "completed", "failed", "deleted"}
Row == [status : RowStatus, next : Nat, runs : Nat]

ScheduleTypeOK ==
    /\ now \in Nat
    /\ row \in Row
    /\ poll \in [Worker -> {"idle", "due", "queued", "write"}]
    /\ copy \in [Worker -> Row]
    /\ fired \in [0..MaxTime -> Nat]
    /\ started \in Nat /\ edits \in Nat /\ activated \in Nat /\ misfires \in Nat

ScheduleInit ==
    /\ now = 0
    /\ row = [status |-> "active", next |-> FirstRun, runs |-> 0]
    /\ poll = [w \in Worker |-> "idle"]
    /\ copy = [w \in Worker |-> [status |-> "active", next |-> FirstRun, runs |-> 0]]
    /\ fired = [t \in 0..MaxTime |-> 0]
    /\ started = 0 /\ edits = 0 /\ activated = 0 /\ misfires = 0

-----------------------------------------------------------------------------
Due == row.status = "active" /\ row.next <= now /\ now <= EndAt

Move(w, place) == poll' = [poll EXCEPT ![w] = place]

Clock ==
    /\ now < MaxTime
    /\ now' = now + 1
    /\ UNCHANGED <<row, poll, copy, fired, started, edits, activated, misfires>>

\* Defect: a schedule is due whatever its status.
FindDueAnyStatus(w) ==
    /\ poll[w] = "idle" /\ row.status # "deleted" /\ row.next <= now
    /\ copy' = [copy EXCEPT ![w] = row]
    /\ Move(w, "due")
    /\ UNCHANGED <<now, row, fired, started, edits, activated, misfires>>

\* tick(): findDueSchedules.  A tick that finds the last one running does nothing.
FindDue(w) ==
    /\ poll[w] = "idle" /\ Due
    /\ copy' = [copy EXCEPT ![w] = row]
    /\ Move(w, "due")
    /\ UNCHANGED <<now, row, fired, started, edits, activated, misfires>>

\* The execution row is committed: it is queued by the call itself, or, being
\* pending, by the next start-up of an execution worker.
Created(w) ==
    /\ fired' = [fired EXCEPT ![copy[w].next] = @ + 1]
    /\ started' = started + 1

\* startWorkflowExecution has queued the workflow.
StartExecution(w) ==
    /\ poll[w] = "due"
    /\ Created(w)
    /\ Move(w, "queued")
    /\ UNCHANGED <<now, row, copy, edits, activated, misfires>>

\* Defect: the exception leaves the tick's running flag set.
StartFailsStillRunning(w) ==
    /\ "start" \in ScheduleFaults /\ poll[w] = "due"
    /\ Move(w, "stuck")
    /\ UNCHANGED <<now, row, copy, fired, started, edits, activated, misfires>>

\* It throws: before the row is committed (with the schema of this commit always, as
\* the row names no tenant and no workflow version), or between the row and the job.
\* The schedule stays due.
StartFails(w) ==
    /\ "start" \in ScheduleFaults /\ poll[w] = "due"
    /\ \/ UNCHANGED <<fired, started, misfires>>
       \/ misfires < MaxMisfires /\ misfires' = misfires + 1 /\ Created(w)
    /\ Move(w, "idle")
    /\ UNCHANGED <<now, row, copy, edits, activated>>

\* The workflow is gone: markFailed.
WorkflowGone(w) ==
    /\ "workflow" \in ScheduleFaults /\ poll[w] = "due"
    /\ copy' = [copy EXCEPT ![w].status = "failed"]
    /\ Move(w, "write")
    /\ UNCHANGED <<now, row, fired, started, edits, activated, misfires>>

\* Defect: the next run is counted from the missed one.
RecordFromMissed(w) ==
    /\ poll[w] = "queued"
    /\ LET runs == copy[w].runs + 1 IN
       copy' = [copy EXCEPT ![w] =
                  [status |-> IF MaxRuns # 0 /\ runs >= MaxRuns THEN "completed"
                              ELSE @.status,
                   next |-> IF Periodic THEN now ELSE @.next,
                   runs |-> runs]]
    /\ Move(w, "write")
    /\ UNCHANGED <<now, row, fired, started, edits, activated, misfires>>

\* recordRun on the loaded object, with the next run counted from now.
RecordRun(w) ==
    /\ poll[w] = "queued"
    /\ LET runs == copy[w].runs + 1 IN
       copy' = [copy EXCEPT ![w] =
                  [status |-> IF MaxRuns # 0 /\ runs >= MaxRuns THEN "completed"
                              ELSE @.status,
                   next |-> IF Periodic THEN now + 1 ELSE @.next,
                   runs |-> runs]]
    /\ Move(w, "write")
    /\ UNCHANGED <<now, row, fired, started, edits, activated, misfires>>

\* repo.update writes every column of the loaded object.
WriteBack(w) ==
    /\ poll[w] = "write" /\ row.status # "deleted"
    /\ row' = copy[w]
    /\ Move(w, "idle")
    /\ UNCHANGED <<now, copy, fired, started, edits, activated, misfires>>

\* The update throws, of a row deleted meanwhile always: the tick logs and goes on.
UpdateFails(w) ==
    /\ poll[w] = "write"
    /\ row.status = "deleted" \/ ("write" \in ScheduleFaults /\ misfires < MaxMisfires)
    /\ misfires' = misfires + IF copy[w].status = "failed" THEN 0 ELSE 1
    /\ Move(w, "idle")
    /\ UNCHANGED <<now, row, copy, fired, started, edits, activated>>

WorkerStops(w) ==
    /\ "stop" \in ScheduleFaults /\ misfires < MaxMisfires
    /\ poll[w] \in {"queued", "write"}
    /\ misfires' = misfires + 1
    /\ Move(w, "idle")
    /\ UNCHANGED <<now, row, copy, fired, started, edits, activated>>

\* POST /schedules/:id/pause and /activate look at nothing.
Pause ==
    /\ edits < MaxEdits /\ row.status # "deleted"
    /\ row' = [row EXCEPT !.status = "paused"]
    /\ edits' = edits + 1
    /\ UNCHANGED <<now, poll, copy, fired, started, activated, misfires>>

Activate ==
    /\ edits < MaxEdits /\ row.status # "deleted"
    /\ row' = [row EXCEPT !.status = "active"]
    /\ edits' = edits + 1
    /\ activated' = activated + IF row.runs >= MaxRuns THEN 1 ELSE 0
    /\ UNCHANGED <<now, poll, copy, fired, started, misfires>>

Delete ==
    /\ edits < MaxEdits /\ row.status # "deleted"
    /\ row' = [row EXCEPT !.status = "deleted"]
    /\ edits' = edits + 1
    /\ UNCHANGED <<now, poll, copy, fired, started, activated, misfires>>

\* A statement or the start is answered, with success or an error.
WorkerStep(w) ==
    \/ FindDue(w) \/ StartExecution(w) \/ StartFails(w) \/ WorkflowGone(w)
    \/ RecordRun(w) \/ WriteBack(w) \/ UpdateFails(w)

ScheduleNext ==
    \/ Clock \/ Pause \/ Activate \/ Delete
    \/ \E w \in Worker : WorkerStep(w) \/ WorkerStops(w)

ScheduleSpec == ScheduleInit /\ [][ScheduleNext]_scheduleVars

\* The poll goes on every 15 s and gets answers, though never a start that succeeds.
FairScheduleSpec == ScheduleSpec /\ \A w \in Worker : WF_scheduleVars(WorkerStep(w))

-----------------------------------------------------------------------------
\* An execution has been created and its run is not recorded in the row yet.
Unrecorded(w) ==
    poll[w] = "queued" \/ (poll[w] = "write" /\ copy[w].status # "failed")

\* The inductive invariant behind the two promises of a single worker: between
\* its load and its write the row keeps the loaded run, and what it is going to
\* write records that run.
CopyInv ==
    \A w \in Worker :
        /\ poll[w] \in {"due", "queued"} =>
             /\ copy[w].status = "active" /\ copy[w].next <= now
             /\ copy[w].next = row.next /\ copy[w].runs = row.runs
        /\ poll[w] = "write" /\ copy[w].status = "failed" =>
             copy[w].next = row.next /\ copy[w].runs = row.runs
        /\ poll[w] = "write" /\ copy[w].status # "failed" =>
             /\ Periodic => copy[w].next > row.next
             /\ copy[w].runs = row.runs + 1
             /\ MaxRuns # 0 /\ copy[w].status = "active" => copy[w].runs < MaxRuns

\* The run of the due time at hand is created once, or not yet.
FiredInv ==
    \A t \in 0..MaxTime :
        fired[t] <= misfires +
            IF t < row.next \/ (t = row.next /\ \E w \in Worker : Unrecorded(w))
              THEN 1 ELSE 0

\* What is created has been recorded, is about to be, or never will be.
StartedInv ==
    /\ started <= row.runs + misfires
                    + IF \E w \in Worker : Unrecorded(w) THEN 1 ELSE 0
    /\ MaxRuns # 0 =>
         /\ row.runs <= MaxRuns + activated
         /\ row.status = "active" => row.runs < MaxRuns + activated
         /\ (\E w \in Worker : poll[w] = "due" \/ Unrecorded(w))
              => row.runs < MaxRuns + activated

\* At most one execution is created for one due time by a single worker, and one more
\* for every run it could not record, whether the write-back failed or the start threw
\* after its row was committed, through pauses and activations.
FiredOncePerDueTime ==
    \A t \in 0..MaxTime : fired[t] <= 1 + misfires

\* maxRuns counts: one worker creates no more executions than that, except
\* for runs it could not record and a schedule activated again after its last.
MaxRunsKept ==
    MaxRuns # 0 => started <= MaxRuns + misfires + activated

\* A schedule that is due is tried, again after every failure as long as it is due.
DueIsTried == Due ~> ~Due \/ \E w \in Worker : poll[w] = "due"

\* A schedule that was paused stays paused until it is activated.
PauseSticks ==
    [][row.status = "paused" /\ row'.status = "active" => edits' # edits]_scheduleVars
=============================================================================
