------------------------- MODULE ExecutionLifecycle -------------------------
(***************************************************************************)
(* What the recovery protocol of an execution promises, whatever jobs are  *)
(* tried again, returned or queued twice: recoveries run one after a       *)
(* failed other, a status is written only for what has happened, and an    *)
(* execution is given up and buried only when every recovery the cap       *)
(* allows has failed.  ExecutionRecovery implements it under every fault.  *)
(* A status may be written over another one at any time: there may be      *)
(* several jobs for one recovery attempt.                                  *)
(***************************************************************************)
EXTENDS Integers

CONSTANT MaxRecovery

VARIABLES
    status,     \* the execution's status
    begun,      \* attempts that have begun to run: 0, then the recoveries
    failedRuns, \* attempts of which a run has failed
    completed,  \* whole or not: the runs that have completed
    dlq         \* its rows in the dead-letter queue

vars == <<status, begun, failedRuns, completed, dlq>>

Attempt == 0..MaxRecovery

Init ==
    /\ status = "none" /\ dlq = 0
    /\ begun = {} /\ failedRuns = {} /\ completed = {}

Submit ==
    /\ status = "none"
    /\ status' = "pending"
    /\ UNCHANGED <<begun, failedRuns, completed, dlq>>

\* Attempt r runs, for the first time or again; it may be said more than once.
Begin(r) ==
    /\ status # "none"
    /\ r > 0 => r - 1 \in failedRuns
    /\ status' = "running"
    /\ begun' = begun \cup {r}
    /\ UNCHANGED <<failedRuns, completed, dlq>>

FailRun(r) ==
    /\ r \in begun
    /\ failedRuns' = failedRuns \cup {r}
    /\ UNCHANGED <<status, begun, completed, dlq>>

CompleteRun ==
    /\ begun # {}
    /\ \E whole \in BOOLEAN : completed' = completed \cup {whole}
    /\ UNCHANGED <<status, begun, failedRuns, dlq>>

\* What the status says has happened to a run, now or earlier.
Report ==
    /\ \/ status' = "success" /\ completed # {}
       \/ status' = "failed" /\ failedRuns # {}
    /\ UNCHANGED <<begun, failedRuns, completed, dlq>>

AllFailed == Attempt \subseteq failedRuns

GiveUp ==
    /\ AllFailed
    /\ status' = "recovery_exhausted"
    /\ UNCHANGED <<begun, failedRuns, completed, dlq>>

Bury ==
    /\ AllFailed
    /\ dlq' = dlq + 1
    /\ UNCHANGED <<status, begun, failedRuns, completed>>

Next ==
    \/ Submit \/ CompleteRun \/ Report \/ GiveUp \/ Bury
    \/ \E r \in Attempt : Begin(r) \/ FailRun(r)

\* What an execution may do, and ...
SafeSpec == Init /\ [][Next]_vars

\* ... what it does sooner or later: the first run, then the next recovery after
\* each failed one, each to its end; and as long as no run has completed, an
\* execution whose runs have all failed is given up and buried.
Progress ==
    /\ \A r \in Attempt :
         /\ WF_vars(r \notin begun /\ Begin(r))
         /\ WF_vars(r \notin failedRuns /\ completed = {} /\ (FailRun(r) \/ CompleteRun))
    /\ WF_vars(completed = {} /\ GiveUp)
    /\ WF_vars(dlq = 0 /\ Bury)

Spec == SafeSpec /\ Progress
=============================================================================
