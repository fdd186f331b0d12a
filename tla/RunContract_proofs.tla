------------------------ MODULE RunContract_proofs ------------------------
(***************************************************************************)
(* DagRunner implements RunContract for every graph, node kind, retry      *)
(* policy, parallelism and fault set: under the invariants of              *)
(* DagRunner_proofs every step of run(), of a node, of the timer or of     *)
(* another worker is a step the contract allows, or a stutter.             *)
(***************************************************************************)
EXTENDS DagRunner_proofs

View == <<Phase, completedNodes, Fate, failed, Undone>>
CStep == [Contract!Next]_View

\* The variables the view is computed from.
Shown == <<main, outcome, completedNodes, pc, results, failed, undone>>

LEMMA UnseenStep == ASSUME UNCHANGED Shown PROVE CStep
BY DEF Shown, CStep, View, Phase, Fate, FateOf, HasResult, Outcome, Undone

-----------------------------------------------------------------------------
(* What a move of one node shows.                                          *)

\* The other nodes are known for what they were.
LEMMA OtherFates ==
    ASSUME TypeOK, NEW n \in Node, NEW p \in Pcs, Goto(n, p),
           \A m \in Node, s \in Statuses :
               m # n => (HasResult(m, s)' <=> HasResult(m, s))
    PROVE  \A m \in Node : m # n => FateOf(m)' = FateOf(m)
<1> SUFFICES ASSUME NEW m \in Node, m # n PROVE FateOf(m)' = FateOf(m)
  OBVIOUS
<1>1. pc'[m] = pc[m]
  BY DEF Goto, TypeOK, WorkTypeOK
<1>2. /\ HasResult(m, "success")' <=> HasResult(m, "success")
      /\ HasResult(m, "skipped")' <=> HasResult(m, "skipped")
      /\ HasResult(m, "paused")' <=> HasResult(m, "paused")
      /\ HasResult(m, "failed")' <=> HasResult(m, "failed")
  BY DEF Statuses
<1>3. QED
  BY <1>1, <1>2 DEF FateOf

LEMMA SameResults ==
    ASSUME UNCHANGED results
    PROVE  \A m \in Node, s \in Statuses : HasResult(m, s)' <=> HasResult(m, s)
BY DEF HasResult, Outcome

\* While a node is at work its position is nobody's business.
LEMMA WorkUnseen ==
    ASSUME TypeOK, NEW n \in Node, NEW p \in AtWork, pc[n] \in AtWork, Goto(n, p),
           UNCHANGED <<main, outcome, completedNodes, results, failed, undone>>
    PROVE  CStep
<1>1. p \in Pcs
  BY DEF AtWork, Pcs
<1>2. \A m \in Node : m # n => FateOf(m)' = FateOf(m)
  BY <1>1, OtherFates, SameResults
<1>3. FateOf(n) = "working" /\ FateOf(n)' = "working"
  <2>1. pc'[n] = p
    BY DEF Goto, TypeOK, WorkTypeOK
  <2>2. QED
    BY <2>1 DEF FateOf, AtWork
<1>4. Fate' = Fate
  BY <1>2, <1>3 DEF Fate
<1>5. QED
  BY <1>4 DEF CStep, View, Phase, Undone

\* A node that has its result keeps it while it propagates and lets go.
LEMMA AnswerKept ==
    ASSUME TypeOK, NEW n \in Node, NEW p \in {"release", "settled"},
           pc[n] \in {"mark", "release"}, Goto(n, p),
           UNCHANGED <<main, outcome, completedNodes, results, failed, undone>>
    PROVE  CStep
<1>1. p \in Pcs
  BY DEF Pcs
<1>2. \A m \in Node : m # n => FateOf(m)' = FateOf(m)
  BY <1>1, OtherFates, SameResults
<1>3. FateOf(n)' = FateOf(n)
  <2>1. pc'[n] = p
    BY DEF Goto, TypeOK, WorkTypeOK
  <2>2. /\ HasResult(n, "success")' <=> HasResult(n, "success")
        /\ HasResult(n, "skipped")' <=> HasResult(n, "skipped")
        /\ HasResult(n, "paused")' <=> HasResult(n, "paused")
        /\ HasResult(n, "failed")' <=> HasResult(n, "failed")
    BY SameResults DEF Statuses
  <2>3. QED
    BY <2>1, <2>2 DEF FateOf, AtWork
<1>4. Fate' = Fate
  BY <1>2, <1>3 DEF Fate
<1>5. QED
  BY <1>4 DEF CStep, View, Phase, Undone

\* A step of a node happens while run() waits, or after it threw.
LEMMA NodePhase ==
    ASSUME IndInv, VerdictInv, NEW n \in Node, NodeStep(n)
    PROVE  /\ Phase \in {"running", "threw"}
           /\ UNCHANGED <<main, outcome, undone>>
<1>1. /\ main \in {"race", "settle", "end"} /\ outcome \notin {"completed", "failed"}
      /\ UNCHANGED <<main, outcome, undone>>
  BY NodeStepFrame
<1>2. main = "end" => outcome = "threw"
  BY <1>1 DEF VerdictInv, RestInv, IndInv, TypeOK, StoreTypeOK
<1>3. QED
  BY <1>1, <1>2 DEF Phase

\* Once the fate of a node at work is known, that is an answer.
LEMMA FateIsAnswer ==
    ASSUME TypeOK, NEW n \in Node, pc[n] \in AtWork,
           Phase \in {"running", "threw"},
           NEW answer \in Contract!Answers,
           FateOf(n)' = answer, failed' = (failed \/ answer = "failed"),
           \A m \in Node : m # n => FateOf(m)' = FateOf(m),
           UNCHANGED <<main, outcome, completedNodes, undone>>
    PROVE  CStep
<1>1. Fate[n] = "working"
  <2>1. FateOf(n) = "working"
    BY DEF FateOf, AtWork
  <2>2. QED
    BY <2>1 DEF Fate
<1>2. Fate' = [Fate EXCEPT ![n] = answer]
  BY DEF Fate
<1>3. UNCHANGED <<Phase, completedNodes, Undone>>
  BY DEF Phase, Undone
<1>4. Contract!Answer(n)
  BY <1>1, <1>2, <1>3 DEF Contract!Answer
<1>5. QED
  BY <1>4 DEF CStep, Contract!Next

\* The step that gives a node its result answers it.
LEMMA ResultAnswers ==
    ASSUME IndInv, VerdictInv, NEW n \in Node, NodeStep(n), pc[n] \in AtWork,
           NEW s \in Statuses, results' = Append(results, Outcome(n, s)),
           Goto(n, IF s = "success" THEN "mark" ELSE "release"),
           failed' = (failed \/ s = "failed"), UNCHANGED completedNodes
    PROVE  CStep
<1> USE DEF IndInv, VerdictInv
<1>1. /\ Phase \in {"running", "threw"}
      /\ UNCHANGED <<main, outcome, undone>>
  BY NodePhase
<1>2. \A m \in Node, t \in Statuses :
         HasResult(m, t)' <=> HasResult(m, t) \/ (m = n /\ t = s)
  BY AppendOutcome DEF TypeOK
<1>3. \A m \in Node : m # n => FateOf(m)' = FateOf(m)
  <2>1. (IF s = "success" THEN "mark" ELSE "release") \in Pcs
    BY DEF Pcs
  <2>2. QED
    BY <1>2, <2>1, OtherFates
<1>4. FateOf(n)' = s
  <2>1. \A t \in Statuses : ~HasResult(n, t)
    <3>1. pc[n] \in Unanswered
      BY DEF AtWork, Unanswered, Pcs
    <3>2. QED
      BY <3>1, NoResultYet
  <2>2. \A t \in Statuses : HasResult(n, t)' <=> t = s
    BY <1>2, <2>1
  <2>3. pc'[n] \in {"mark", "release"}
    BY DEF Goto, TypeOK, WorkTypeOK
  <2>4. /\ HasResult(n, "success")' <=> s = "success"
        /\ HasResult(n, "skipped")' <=> s = "skipped"
        /\ HasResult(n, "paused")' <=> s = "paused"
        /\ HasResult(n, "failed")' <=> s = "failed"
    BY <2>2 DEF Statuses
  <2>5. QED
    BY <2>3, <2>4 DEF FateOf, AtWork, Statuses
<1>5. s \in Contract!Answers
  BY DEF Contract!Answers, Statuses
<1>6. QED
  BY <1>1, <1>3, <1>4, <1>5, FateIsAnswer

\* A node that leaves without a result was refused, or its processing threw.
LEMMA LeavingAnswers ==
    ASSUME IndInv, VerdictInv, NEW n \in Node, NodeStep(n), pc[n] \in AtWork,
           NEW p \in {"settled", "threw"}, Goto(n, p),
           UNCHANGED <<results, failed, completedNodes>>
    PROVE  CStep
<1> USE DEF IndInv, VerdictInv
<1>1. /\ Phase \in {"running", "threw"}
      /\ UNCHANGED <<main, outcome, undone>>
  BY NodePhase
<1>2. \A m \in Node : m # n => FateOf(m)' = FateOf(m)
  <2>1. p \in Pcs
    BY DEF Pcs
  <2>2. QED
    BY <2>1, OtherFates, SameResults
<1>3. FateOf(n)' = IF p = "threw" THEN "threw" ELSE "refused"
  <2>1. \A t \in Statuses : ~HasResult(n, t)
    <3>1. pc[n] \in Unanswered
      BY DEF AtWork, Unanswered, Pcs
    <3>2. QED
      BY <3>1, NoResultYet
  <2>2. \A t \in Statuses : ~HasResult(n, t)'
    BY <2>1, SameResults
  <2>3. pc'[n] = p
    BY DEF Goto, TypeOK, WorkTypeOK
  <2>4. /\ ~HasResult(n, "success")' /\ ~HasResult(n, "skipped")'
        /\ ~HasResult(n, "paused")' /\ ~HasResult(n, "failed")'
    BY <2>2 DEF Statuses
  <2>5. QED
    BY <2>3, <2>4 DEF FateOf, AtWork
<1>4. FateOf(n)' \in Contract!Answers \ {"failed"}
  BY <1>3 DEF Contract!Answers
<1>5. failed' = (failed \/ FateOf(n)' = "failed")
  BY <1>4 DEF TypeOK, StoreTypeOK
<1>6. QED
  BY <1>1, <1>2, <1>4, <1>5, FateIsAnswer

LEMMA NodeStepKeeps ==
    ASSUME IndInv, VerdictInv, NEW n \in Node, NodeStep(n) PROVE CStep
<1> USE DEF At, IndInv, VerdictInv
<1>1. UNCHANGED <<main, outcome, undone, completedNodes>>
  <2>1. UNCHANGED completedNodes
    BY DEF NodeStep, Bookkeeping, GrantLease, RefuseLease, ProbeHit, ProbeMiss,
       RejectNode, SpawnChild, RejectDepth, ChildSpawned, Pause, Save, SaveConflict,
       RecordFails, RecordSuccess, LoopAgain, RecordFailure, Retry, MarkComplete,
       Release, Throw, Execute, ChildEnded, sched
  <2>2. QED
    BY <2>1, NodePhase
<1>2. ASSUME NEW p \in AtWork, Goto(n, p), pc[n] \in AtWork, UNCHANGED <<results, failed>>
      PROVE  CStep
  BY <1>1, <1>2, WorkUnseen
<1>3. ASSUME Succeed(n) \/ Fail(n), pc[n] \in AtWork PROVE CStep
  <2>1. CASE Succeed(n)
    <3>1. failed' = (failed \/ "success" = "failed")
      BY <2>1 DEF Succeed, TypeOK, StoreTypeOK
    <3>2. QED
      BY <1>1, <1>3, <2>1, <3>1, ResultAnswers DEF Succeed, Statuses
  <2>2. CASE Fail(n)
    BY <1>1, <1>3, <2>2, ResultAnswers DEF Fail, Statuses
  <2>3. QED
    BY <1>3, <2>1, <2>2
<1>4. CASE GrantLease(n) \/ ProbeMiss(n) \/ SpawnChild(n)
  BY <1>2, <1>4 DEF GrantLease, ProbeMiss, SpawnChild, AtWork, ending
<1>5. CASE Save(n) \/ RecordFails(n) \/ LoopAgain(n) \/ Retry(n) \/ Execute(n)
  BY <1>2, <1>5 DEF Save, RecordFails, LoopAgain, Retry, Execute, AtWork, ending
<1>6. CASE RefuseLease(n) \/ SaveConflict(n) \/ Throw(n)
  BY <1>1, <1>6, LeavingAnswers DEF RefuseLease, SaveConflict, Throw, Unguarded, AtWork,
     ending
<1>7. CASE RejectNode(n) \/ RejectDepth(n) \/ ChildEnded(n) \/ RecordSuccess(n)
  BY <1>3, <1>7 DEF RejectNode, RejectDepth, ChildEnded, RecordSuccess, AtWork
<1>8. CASE ChildSpawned(n)
  BY <1>2, <1>3, <1>8 DEF ChildSpawned, AtWork
<1>9. CASE RecordFailure(n)
  BY <1>2, <1>3, <1>9 DEF RecordFailure, AtWork
<1>10. CASE ProbeHit(n)
  <2>1. failed' = (failed \/ "skipped" = "failed")
    BY <1>10 DEF ProbeHit, ending, TypeOK, StoreTypeOK
  <2>2. QED
    BY <1>1, <1>10, <2>1, ResultAnswers DEF ProbeHit, Statuses, AtWork
<1>11. CASE Pause(n)
  <2>1. failed' = (failed \/ "paused" = "failed")
    BY <1>11 DEF Pause, ending, TypeOK, StoreTypeOK
  <2>2. QED
    BY <1>1, <1>11, <2>1, ResultAnswers DEF Pause, Statuses, AtWork
<1>12. CASE MarkComplete(n) \/ Release(n)
  BY <1>1, <1>12, AnswerKept DEF MarkComplete, Release, ending
<1>13. QED
  BY <1>4, <1>5, <1>6, <1>7, <1>8, <1>9, <1>10, <1>11, <1>12 DEF NodeStep, Bookkeeping
-----------------------------------------------------------------------------
(* What a step of run() shows.                                             *)

\* A finished node is known as done.
LEMMA FinishedIsDone ==
    ASSUME IndInv, VerdictInv, NEW m \in Node
    PROVE  Finished(m) <=> Contract!Done(m)
<1>1. Finished(m) => pc[m] \notin Unanswered
  BY NoResultYet DEF VerdictInv, Finished, Statuses
<1>2. pc[m] \in Pcs
  BY DEF IndInv, TypeOK, WorkTypeOK
<1>3. Finished(m) <=> FateOf(m) \in {"success", "skipped"}
  BY <1>1, <1>2 DEF FateOf, Finished, AtWork, Unanswered, Pcs
<1>4. QED
  BY <1>3 DEF Contract!Done, Fate

\* StartNode: what the queue holds may be taken up.
LEMMA StartTakes ==
    ASSUME IndInv, VerdictInv, NEW n \in Node, StartNode(n) PROVE CStep
<1> USE DEF IndInv, VerdictInv
<1>1. /\ main = "fill" /\ n \in ready /\ n \notin completedNodes
      /\ Goto(n, "lease")
      /\ UNCHANGED <<main, outcome, completedNodes, results, failed, undone>>
  BY DEF StartNode, Goto, saga, ending
<1>2. pc[n] = "idle" /\ Pred(n) \subseteq unlocked /\ ~failed
  BY <1>1 DEF SchedInv, StartedInv, RestInv
<1>3. \A m \in Node : <<m, n>> \in Edges => Contract!Done(m)
  BY <1>2, FinishedIsDone DEF SchedInv, UnlockedInv, Pred
<1>4. Fate[n] = "waiting" /\ Fate' = [Fate EXCEPT ![n] = "working"]
  <2>1. \A m \in Node : m # n => FateOf(m)' = FateOf(m)
    BY <1>1, OtherFates, SameResults DEF Pcs
  <2>2. pc'[n] = "lease"
    BY <1>1 DEF Goto, TypeOK, WorkTypeOK
  <2>3. FateOf(n) = "waiting" /\ FateOf(n)' = "working"
    BY <1>2, <2>2 DEF FateOf, AtWork
  <2>4. QED
    BY <2>1, <2>3 DEF Fate
<1>5. Contract!Take(n)
  BY <1>1, <1>2, <1>3, <1>4 DEF Contract!Take, Phase, Undone
<1>6. QED
  BY <1>5 DEF CStep, Contract!Next

\* Load: the run begins with what it found checkpointed, or refuses the graph.
LEMMA LoadBegins == ASSUME IndInv, VerdictInv, Load PROVE CStep
<1> USE DEF IndInv, VerdictInv
<1>1. /\ main = "load" /\ UNCHANGED <<pc, results, failed, undone>>
      /\ Phase = "loading"
  BY DEF Load, saga, Phase
<1>2. UNCHANGED <<Fate, failed, Undone>>
  BY <1>1 DEF Fate, FateOf, HasResult, Outcome, Undone
<1>3. CASE main' = "end"
  <2>1. Phase' = "threw" /\ UNCHANGED completedNodes
    BY <1>1, <1>3 DEF Load, Phase
  <2>2. Contract!Reject
    BY <1>1, <1>2, <2>1 DEF Contract!Reject
  <2>3. QED
    BY <2>2 DEF CStep, Contract!Next
<1>4. CASE main' = "fill"
  <2>1. Phase' = "running" /\ completedNodes' \in SUBSET Node
    BY <1>1, <1>4 DEF Load, Phase, TypeOK, StoreTypeOK
  <2>2. Contract!Begin
    BY <1>1, <1>2, <2>1 DEF Contract!Begin
  <2>3. QED
    BY <2>2 DEF CStep, Contract!Next
<1>5. main' \in {"fill", "end"}
  BY DEF Load
<1>6. QED
  BY <1>3, <1>4, <1>5

\* At rest every node is waiting, answered, or threw.
LEMMA RestIsQuiet ==
    ASSUME IndInv, \A n \in Node : pc[n] \in {"idle", "settled", "threw"}
    PROVE  Contract!Quiet
BY DEF Contract!Quiet, Fate, FateOf, AtWork

\* Settle: completed, failed, or on to compensation.
LEMMA SettleEnds == ASSUME IndInv, VerdictInv, Settle PROVE CStep
<1> USE DEF IndInv, VerdictInv
<1>1. /\ main = "settle" /\ outcome = "none" /\ Phase = "running"
      /\ UNCHANGED <<completedNodes, pc, results, failed, undone>>
  BY DEF Settle, work, Phase, RestInv
<1>2. UNCHANGED <<completedNodes, Fate, failed, Undone>>
  BY <1>1 DEF Fate, FateOf, HasResult, Outcome, Undone
<1>3. \A n \in Node : pc[n] \in {"idle", "settled", "threw"}
  BY DEF Settle, SchedInv, ActiveInv
<1>4. Contract!Quiet
  BY <1>3, RestIsQuiet
<1>5. CASE failed /\ EnableSaga /\ sagaStack # <<>>
  <2>1. Phase' = "undoing"
    BY <1>5 DEF Settle, Phase
  <2>2. Contract!Unwind
    BY <1>1, <1>2, <1>4, <1>5, <2>1 DEF Contract!Unwind
  <2>3. QED
    BY <2>2 DEF CStep, Contract!Next
<1>6. CASE failed /\ ~(EnableSaga /\ sagaStack # <<>>)
  <2>1. Phase' = "failed"
    BY <1>6 DEF Settle, Phase
  <2>2. EnableSaga => \A n \in Node : Fate[n] # "success"
    <3>1. ASSUME EnableSaga, NEW n \in Node PROVE ~HasResult(n, "success")
      BY <1>3, <1>6, <3>1 DEF StackInv
    <3>2. QED
      BY <3>1 DEF Fate, FateOf
  <2>3. Contract!Fail
    BY <1>1, <1>2, <1>4, <1>6, <2>1, <2>2 DEF Contract!Fail
  <2>4. QED
    BY <2>3 DEF CStep, Contract!Next
<1>7. CASE ~failed
  <2>1. Phase' = "completed"
    BY <1>7 DEF Settle, Phase
  <2>2. ready = {} /\ active = {}
    BY <1>1, <1>7 DEF SchedInv, DrainedInv
  <2>3. ASSUME NEW n \in Node PROVE Fate[n] \notin {"failed", "threw"}
    <3>1. ~HasResult(n, "failed") /\ pc[n] # "threw"
      BY <1>7, <2>2 DEF SchedInv, FinishedInv, ActiveInv
    <3>2. QED
      BY <3>1 DEF Fate, FateOf
  <2>4. ASSUME NEW n \in Node, Fate[n] = "waiting", n \notin completedNodes
        PROVE  \E m \in Node : <<m, n>> \in Edges /\ ~Contract!Done(m)
    <3>1. pc[n] = "idle"
      BY <2>4 DEF Fate, FateOf
    <3>2. PICK m \in Pred(n) : m \notin unlocked
      BY <1>1, <2>2, <2>4, <3>1 DEF SchedInv, QueuedInv
    <3>3. m \in Node /\ <<m, n>> \in Edges /\ ~Finished(m)
      BY <1>7, <2>2, <3>2 DEF SchedInv, FinishedInv, ActiveInv, Pred
    <3>4. QED
      BY <3>3, FinishedIsDone
  <2>5. Contract!Complete
    BY <1>1, <1>2, <1>4, <1>7, <2>1, <2>3, <2>4 DEF Contract!Complete
  <2>6. QED
    BY <2>5 DEF CStep, Contract!Next
<1>8. QED
  BY <1>5, <1>6, <1>7
\* What has been undone is the upper part of the saga stack.
LEMMA UndoneIsTop ==
    ASSUME IndInv, VerdictInv, main = "saga"
    PROVE  Undone = {sagaStack[i] : i \in (undo + 1)..Len(sagaStack)}
<1>1. /\ Len(undone) = Len(sagaStack) - undo /\ Len(sagaStack) \in Nat
      /\ undo \in 0..Len(sagaStack)
      /\ \A i \in 1..Len(undone) : undone[i].node = sagaStack[Len(sagaStack) + 1 - i]
  BY DEF VerdictInv, UndoneInv, IndInv, TypeOK, SagaTypeOK
<1>2. ASSUME NEW i \in 1..Len(undone)
      PROVE  undone[i].node \in {sagaStack[k] : k \in (undo + 1)..Len(sagaStack)}
  <2>1. Len(sagaStack) + 1 - i \in (undo + 1)..Len(sagaStack)
    BY <1>1
  <2>2. QED
    BY <1>1, <2>1
<1>3. ASSUME NEW k \in (undo + 1)..Len(sagaStack)
      PROVE  sagaStack[k] \in {undone[i].node : i \in 1..Len(undone)}
  <2>1. /\ Len(sagaStack) + 1 - k \in 1..Len(undone)
        /\ Len(sagaStack) + 1 - (Len(sagaStack) + 1 - k) = k
    BY <1>1
  <2>2. undone[Len(sagaStack) + 1 - k].node = sagaStack[k]
    BY <1>1, <2>1
  <2>3. QED
    BY <2>1, <2>2
<1>4. QED
  BY <1>2, <1>3 DEF Undone

\* While a run compensates, the stack holds what is known as a success.
LEMMA StackIsSuccesses ==
    ASSUME IndInv, VerdictInv, main = "saga", EnableSaga, NEW n \in Node
    PROVE  Fate[n] = "success" <=> \E i \in 1..Len(sagaStack) : sagaStack[i] = n
<1> USE DEF IndInv, VerdictInv
<1>1. pc[n] \in {"idle", "settled", "threw"}
  BY DEF RestInv
<1>2. (\E i \in 1..Len(sagaStack) : sagaStack[i] = n) <=> HasResult(n, "success")
  BY <1>1 DEF StackInv
<1>3. HasResult(n, "success") => pc[n] = "settled"
  <2>1. pc[n] \in Unanswered => ~HasResult(n, "success")
    BY NoResultYet DEF Statuses
  <2>2. QED
    BY <1>1, <2>1 DEF Unanswered, Pcs
<1>4. Fate[n] = "success" <=> HasResult(n, "success")
  BY <1>1, <1>3 DEF Fate, FateOf, AtWork
<1>5. QED
  BY <1>2, <1>4

\* Only a run with compensation is ever seen compensating.
LEMMA SagaEnabled ==
    ASSUME IndInv, VerdictInv, main = "saga", undo > 0 PROVE EnableSaga
<1>1. sagaStack # <<>>
  BY DEF IndInv, TypeOK, SagaTypeOK
<1>2. QED
  BY <1>1 DEF VerdictInv, StackInv

\* Compensate: the entry below those undone is a success not undone yet, and the
\* entries below it did not consume its output.
LEMMA CompensateUndoes == ASSUME IndInv, VerdictInv, Compensate PROVE CStep
<1> USE DEF IndInv, VerdictInv
<1> DEFINE n == sagaStack[undo]
<1>1. /\ main = "saga" /\ undo > 0 /\ EnableSaga /\ Phase = "undoing"
      /\ UNCHANGED <<main, outcome, completedNodes, pc, results, failed>>
  BY SagaEnabled DEF Compensate, Phase, sched, work, ending
<1>2. /\ undo \in 1..Len(sagaStack) /\ Len(sagaStack) \in Nat
      /\ \A i \in 1..Len(sagaStack) : sagaStack[i] \in Node
  BY <1>1 DEF TypeOK, SagaTypeOK
<1>3. n \in Node
  BY <1>2
<1>4. UNCHANGED <<Phase, completedNodes, Fate, failed>>
  BY <1>1 DEF Phase, Fate, FateOf, HasResult, Outcome
<1>5. Undone = {sagaStack[i] : i \in (undo + 1)..Len(sagaStack)}
  BY <1>1, UndoneIsTop
<1>6. Fate[n] = "success"
  BY <1>1, <1>2, <1>3, StackIsSuccesses
<1>7. n \notin Undone
  <2>1. \A i, j \in 1..Len(sagaStack) : sagaStack[i] = sagaStack[j] => i = j
    BY DEF StackInv
  <2>2. \A i \in (undo + 1)..Len(sagaStack) : i \in 1..Len(sagaStack) /\ i # undo
    BY <1>2
  <2>3. QED
    BY ONLY <1>2, <1>5, <2>1, <2>2
<1>8. \A m \in Node \ (Undone \cup {n}) : Fate[m] = "success" => <<n, m>> \notin Edges
  <2> SUFFICES ASSUME NEW m \in Node, m \notin Undone, m # n, Fate[m] = "success"
               PROVE  <<n, m>> \notin Edges
    OBVIOUS
  <2>1. PICK i \in 1..Len(sagaStack) : sagaStack[i] = m
    BY <1>1, StackIsSuccesses
  <2>2. i \notin (undo + 1)..Len(sagaStack) /\ i # undo
    BY <1>5, <2>1
  <2>3. i < undo
    BY <1>2, <2>2
  <2>4. QED
    BY <1>2, <2>1, <2>3 DEF StackInv
<1>9. Undone' = Undone \cup {n}
  <2>1. PICK ok \in BOOLEAN :
          undone' = Append(undone, [node |-> sagaStack[undo], ok |-> ok])
    BY DEF Compensate
  <2>2. /\ Len(undone') = Len(undone) + 1 /\ Len(undone) \in Nat
        /\ \A i \in 1..Len(undone) : undone'[i] = undone[i]
        /\ undone'[Len(undone) + 1].node = n
    BY <2>1 DEF TypeOK, SagaTypeOK
  <2>3. \A i \in 1..Len(undone') : i \in 1..Len(undone) \/ i = Len(undone) + 1
    BY <2>2
  <2>4. Undone' = {undone'[i].node : i \in 1..Len(undone')}
    BY DEF Undone
  <2>5. Len(undone) + 1 \in 1..Len(undone') /\ 1..Len(undone) \subseteq 1..Len(undone')
    BY <2>2
  <2> HIDE DEF n
  <2>6. QED
    BY ONLY <2>2, <2>3, <2>4, <2>5 DEF Undone
<1> HIDE DEF n
<1>10. Contract!Undo(n)
  BY <1>1, <1>4, <1>6, <1>7, <1>8, <1>9 DEF Contract!Undo
<1>11. QED
  BY <1>3, <1>10 DEF CStep, Contract!Next

\* SagaDone: the whole stack has been visited.
LEMMA SagaDoneFails == ASSUME IndInv, VerdictInv, SagaDone PROVE CStep
<1> USE DEF IndInv, VerdictInv
<1>1. /\ main = "saga" /\ undo = 0 /\ failed /\ Phase = "undoing" /\ Phase' = "failed"
      /\ UNCHANGED <<completedNodes, pc, results, failed, undone>>
  BY DEF SagaDone, RestInv, Phase, work, saga
<1>2. UNCHANGED <<completedNodes, Fate, failed, Undone>>
  BY <1>1 DEF Fate, FateOf, HasResult, Outcome, Undone
<1>3. Contract!Quiet
  BY <1>1, RestIsQuiet DEF RestInv
<1>4. EnableSaga => \A n \in Node : Fate[n] = "success" => n \in Undone
  <2> SUFFICES ASSUME EnableSaga, NEW n \in Node, Fate[n] = "success" PROVE n \in Undone
    OBVIOUS
  <2>1. \E i \in 1..Len(sagaStack) : sagaStack[i] = n
    BY <1>1, StackIsSuccesses
  <2>2. Undone = {sagaStack[i] : i \in (undo + 1)..Len(sagaStack)}
    BY <1>1, UndoneIsTop
  <2>3. QED
    BY <1>1, <2>1, <2>2
<1>5. Contract!Fail
  BY <1>1, <1>2, <1>3, <1>4 DEF Contract!Fail
<1>6. QED
  BY <1>5 DEF CStep, Contract!Next

LEMMA MainStepKeeps == ASSUME IndInv, VerdictInv, MainStep PROVE CStep
<1>1. CASE FillDone \/ Refill \/ LeaveLoop \/ \E n \in Node : DropCompleted(n)
  <2>1. Phase' = Phase
    BY <1>1 DEF FillDone, Refill, LeaveLoop, Woken, DropCompleted, Phase, ending
  <2>2. UNCHANGED <<completedNodes, pc, results, failed, undone>>
    BY <1>1 DEF FillDone, Refill, LeaveLoop, DropCompleted, work, saga, ending
  <2>3. QED
    BY <2>1, <2>2 DEF CStep, View, Fate, FateOf, HasResult, Outcome, Undone
<1>2. CASE NoticeTimeout
  <2>1. /\ Phase = "running" /\ Phase' = "running" /\ ~failed /\ failed' = TRUE
        /\ UNCHANGED <<completedNodes, pc, results, undone>>
    BY <1>2 DEF NoticeTimeout, Woken, Phase, work, saga
  <2>2. UNCHANGED <<Fate, Undone>>
    BY <2>1 DEF Fate, FateOf, HasResult, Outcome, Undone
  <2>3. Contract!GiveUp
    BY <2>1, <2>2 DEF Contract!GiveUp
  <2>4. QED
    BY <2>3 DEF CStep, Contract!Next
<1>3. CASE RaceRejects
  <2>1. /\ Phase = "running" /\ Phase' = "threw"
        /\ UNCHANGED <<completedNodes, pc, results, failed, undone>>
    BY <1>3 DEF RaceRejects, Phase, work, saga
  <2>2. UNCHANGED <<Fate, Undone>>
    BY <2>1 DEF Fate, FateOf, HasResult, Outcome, Undone
  <2>3. \E n \in Node : Fate[n] = "threw"
    BY <1>3 DEF RaceRejects, IndInv, TypeOK, SchedTypeOK, Fate, FateOf, AtWork
  <2>4. Contract!Throw
    BY <2>1, <2>2, <2>3 DEF Contract!Throw
  <2>5. QED
    BY <2>4 DEF CStep, Contract!Next
<1>4. QED
  BY <1>1, <1>2, <1>3, LoadBegins, StartTakes, SettleEnds, CompensateUndoes,
     SagaDoneFails DEF MainStep

LEMMA InitKeeps == ASSUME Init PROVE Contract!Init
BY DEF Init, Contract!Init, Phase, Fate, FateOf, Undone

\* run() keeps its contract on every graph, with every mix of node kinds, retries,
\* parallelism and faults: it takes up a node only when its inputs are there and
\* nothing has failed, answers each node once, completes only if it left out no one
\* without a reason, and undoes each success once, after what consumed its output.
THEOREM ImplementsContract == Spec => KeepsContract
<1>1. IndInv /\ VerdictInv /\ [Next]_vars => CStep
  <2> SUFFICES ASSUME IndInv, VerdictInv, [Next]_vars PROVE CStep
    OBVIOUS
  <2>1. CASE Abort \/ (\E n \in Node : PeerCompletes(n)) \/ UNCHANGED vars
    <3>1. UNCHANGED Shown
      BY <2>1 DEF Abort, PeerCompletes, vars, sched, work, saga, ending, Shown
    <3>2. QED
      BY <3>1, UnseenStep
  <2>2. QED
    BY <2>1, MainStepKeeps, NodeStepKeeps DEF Next
<1>2. QED
  BY <1>1, InitKeeps, VerdictInductive, PTL
     DEF Spec, KeepsContract, Contract!Spec, CStep, View, Contract!view
=============================================================================
