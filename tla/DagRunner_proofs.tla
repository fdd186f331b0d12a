-------------------------- MODULE DagRunner_proofs --------------------------
(***************************************************************************)
(* Theorems about DagRunner for every graph, node kind, retry policy and   *)
(* fault set.  The inductive invariant IndInv rests on the counting of     *)
(* in-degrees; the theorems on scheduling follow from it.  VerdictInv, in  *)
(* the second half, is about results, verdict and compensation.            *)
(***************************************************************************)
EXTENDS DagRunner, FiniteSetTheorems, TLAPS

-----------------------------------------------------------------------------
(* Type correctness, one lemma per group of variables.                     *)

LEMMA SchedTypeStep ==
    ASSUME SchedTypeOK, stored \subseteq Node, Next PROVE SchedTypeOK'
<1> USE DEF SchedTypeOK, sched
<1>1. CASE MainStep
  BY <1>1 DEF MainStep, Load, Roots, FillDone, Refill, NoticeTimeout, LeaveLoop,
     RaceRejects, Settle, Compensate, SagaDone, DropCompleted, StartNode
<1>2. ASSUME NEW n \in Node, NodeStep(n) PROVE SchedTypeOK'
  BY <1>2 DEF NodeStep, Bookkeeping, GrantLease, RefuseLease, ProbeHit, ProbeMiss,
     RejectNode, SpawnChild, RejectDepth, ChildSpawned, Pause, Save, SaveConflict,
     RecordFails, RecordSuccess, LoopAgain, RecordFailure, Retry, MarkComplete,
     Release, Throw, Execute, ChildEnded, UnlockDownstream
<1>3. QED
  BY <1>1, <1>2 DEF Next, PeerCompletes, Abort

LEMMA WorkTypeStep ==
    ASSUME WorkTypeOK, stored \subseteq Node, Next PROVE WorkTypeOK'
<1> USE DEF WorkTypeOK
<1>1. CASE MainStep
  <2>1. CASE Load
    BY <2>1 DEF Load
  <2>2. ASSUME NEW n \in Node, StartNode(n) PROVE WorkTypeOK'
    BY <2>2 DEF StartNode, Pcs
  <2>3. QED
    BY <1>1, <2>1, <2>2 DEF MainStep, FillDone, Refill, NoticeTimeout, LeaveLoop,
       RaceRejects, Settle, Compensate, SagaDone, DropCompleted, work
<1>2. ASSUME NEW n \in Node, NodeStep(n) PROVE WorkTypeOK'
  <2> USE DEF Pcs, Statuses, Goto, Outcome
  <2>1. ASSUME Succeed(n) \/ Fail(n), UNCHANGED <<attempt, iteration, childDepth>>
        PROVE  WorkTypeOK'
    <3>1. CASE Succeed(n)
      BY <2>1, <3>1 DEF Succeed
    <3>2. CASE Fail(n)
      BY <2>1, <3>2 DEF Fail
    <3>3. QED
      BY <2>1, <3>1, <3>2
  <2>2. CASE ProbeHit(n)
    BY <2>2 DEF ProbeHit
  <2>3. CASE Pause(n)
    BY <2>3 DEF Pause
  <2>4. CASE MarkComplete(n) \/ Release(n) \/ RefuseLease(n) \/ GrantLease(n)
    BY <2>4 DEF MarkComplete, Release, RefuseLease, GrantLease
  <2>5. CASE Save(n) \/ SaveConflict(n) \/ Execute(n) \/ RecordFails(n) \/ Throw(n)
    BY <2>5 DEF Save, SaveConflict, Execute, RecordFails, Throw
  <2>6. CASE ProbeMiss(n)
    BY <2>6 DEF ProbeMiss
  <2>7. CASE Retry(n)
    BY <2>7 DEF Retry
  <2>13. CASE LoopAgain(n)
    <3>1. iteration' \in [Node -> Nat] /\ attempt' \in [Node -> Nat]
      BY <2>13 DEF LoopAgain
    <3>2. QED
      BY <2>13, <3>1 DEF LoopAgain
  <2>8. CASE SpawnChild(n)
    BY <2>8 DEF SpawnChild
  <2>9. CASE RejectNode(n) \/ RejectDepth(n) \/ ChildEnded(n) \/ RecordSuccess(n)
    BY <2>1, <2>9 DEF RejectNode, RejectDepth, ChildEnded, RecordSuccess
  <2>10. CASE ChildSpawned(n)
    BY <2>1, <2>10 DEF ChildSpawned
  <2>11. CASE RecordFailure(n)
    BY <2>1, <2>11 DEF RecordFailure
  <2>12. QED
    BY <1>2, <2>2, <2>3, <2>4, <2>5, <2>6, <2>7, <2>8, <2>9, <2>10, <2>11,
       <2>13 DEF NodeStep, Bookkeeping
<1>3. QED
  BY <1>1, <1>2 DEF Next, PeerCompletes, Abort, work

LEMMA SagaTypeStep == ASSUME SagaTypeOK, Next PROVE SagaTypeOK'
<1> USE DEF SagaTypeOK
<1>1. CASE MainStep
  <2>1. CASE Settle
    BY <2>1 DEF Settle
  <2>2. CASE Compensate
    BY <2>2 DEF Compensate
  <2>3. QED
    BY <1>1, <2>1, <2>2 DEF MainStep, Load, FillDone, Refill, NoticeTimeout,
       LeaveLoop, RaceRejects, SagaDone, DropCompleted, StartNode, saga
<1>2. ASSUME NEW n \in Node, NodeStep(n) PROVE SagaTypeOK'
  <2>1. CASE MarkComplete(n)
    BY <2>1 DEF MarkComplete
  <2>2. QED
    BY <1>2, <2>1 DEF NodeStep, Bookkeeping, GrantLease, RefuseLease, ProbeHit,
       ProbeMiss, RejectNode, SpawnChild, RejectDepth, ChildSpawned, Pause, Save,
       SaveConflict, RecordFails, RecordSuccess, LoopAgain, RecordFailure, Retry,
       Release, Throw, Execute, ChildEnded, saga
<1>3. QED
  BY <1>1, <1>2 DEF Next, PeerCompletes, Abort, saga

LEMMA StoreTypeStep ==
    ASSUME StoreTypeOK, attempt \in [Node -> Nat], Next PROVE StoreTypeOK'
<1> USE DEF StoreTypeOK, ending, store
<1>1. CASE MainStep
  BY <1>1 DEF MainStep, Load, FillDone, Refill, NoticeTimeout, LeaveLoop,
     RaceRejects, Settle, Compensate, SagaDone, DropCompleted, StartNode
<1>2. ASSUME NEW n \in Node, NodeStep(n) PROVE StoreTypeOK'
  <2>1. <<n, attempt[n]>> \in Node \X Nat
    OBVIOUS
  <2>2. CASE Save(n)
    BY <2>1, <2>2 DEF Save
  <2>3. CASE MarkComplete(n) \/ ProbeHit(n)
    BY <2>3 DEF MarkComplete, ProbeHit, UnlockDownstream
  <2>4. QED
    BY <1>2, <2>2, <2>3 DEF NodeStep, Bookkeeping, GrantLease, RefuseLease,
       ProbeMiss, RejectNode, SpawnChild, RejectDepth, ChildSpawned, Pause,
       SaveConflict, RecordFails, RecordSuccess, LoopAgain, RecordFailure, Retry,
       Release, Throw, Execute, ChildEnded, Succeed, Fail
<1>3. QED
  BY <1>1, <1>2 DEF Next, PeerCompletes, Abort

LEMMA NextTypeOK == ASSUME TypeOK, [Next]_vars PROVE TypeOK'
<1>1. CASE Next
  BY <1>1, SchedTypeStep, WorkTypeStep, SagaTypeStep, StoreTypeStep
     DEF TypeOK, WorkTypeOK, StoreTypeOK
<1>2. CASE UNCHANGED vars
  BY <1>2 DEF vars, sched, work, saga, ending, store, TypeOK, SchedTypeOK,
     WorkTypeOK, SagaTypeOK, StoreTypeOK
<1>3. QED
  BY <1>1, <1>2

LEMMA PredFinite ==
    ASSUME NEW n, NEW S
    PROVE  IsFiniteSet(Pred(n) \ S) /\ Cardinality(Pred(n) \ S) \in Nat
<1>1. (Pred(n) \ S) \in SUBSET Node
  BY DEF Pred
<1>2. IsFiniteSet(Pred(n) \ S)
  BY <1>1, FS_Subset, GraphAssumption
<1>3. QED
  BY <1>2, FS_CardinalityType

LEMMA InitTypeOK == ASSUME Init PROVE TypeOK
<1> USE GraphAssumption, OptionAssumption DEF Init
<1>1. SchedTypeOK
  <2>1. ASSUME NEW n \in Node PROVE Cardinality(Pred(n)) \in Int
    <3>1. Pred(n) = Pred(n) \ {}
      OBVIOUS
    <3>2. Cardinality(Pred(n) \ {}) \in Nat
      BY PredFinite
    <3>3. QED
      BY <3>1, <3>2
  <2>2. QED
    BY <2>1 DEF SchedTypeOK, InitialDegree
<1>2. WorkTypeOK
  BY DEF WorkTypeOK, Pcs, Statuses
<1>3. SagaTypeOK
  BY DEF SagaTypeOK
<1>4. StoreTypeOK
  BY DEF StoreTypeOK
<1>5. QED
  BY <1>1, <1>2, <1>3, <1>4 DEF TypeOK

\* Every variable keeps its type: in particular compensation never reads past
\* the saga stack (undo stays within it), whatever fails while the run drains.
THEOREM TypeCorrect == Spec => []TypeOK
  BY InitTypeOK, NextTypeOK, PTL DEF Spec

-----------------------------------------------------------------------------
(* Counting predecessors.                                                  *)

\* Propagating n's completion takes exactly one from the count of each node
\* that waits for n, and nothing from the others.
LEMMA DegreeDrops ==
    ASSUME NEW m \in Node, NEW n \in Node, NEW U, n \notin U
    PROVE  /\ n \in Pred(m) =>
                Cardinality(Pred(m) \ (U \cup {n})) = Cardinality(Pred(m) \ U) - 1
           /\ n \notin Pred(m) => Pred(m) \ (U \cup {n}) = Pred(m) \ U
<1>1. CASE n \in Pred(m)
  <2>1. IsFiniteSet(Pred(m) \ U) /\ n \in Pred(m) \ U
    BY <1>1, PredFinite
  <2>2. Cardinality((Pred(m) \ U) \ {n}) = Cardinality(Pred(m) \ U) - 1
    BY <2>1, FS_RemoveElement
  <2>3. Pred(m) \ (U \cup {n}) = (Pred(m) \ U) \ {n}
    OBVIOUS
  <2>4. QED
    BY <1>1, <2>2, <2>3
<1>2. CASE n \notin Pred(m)
  BY <1>2
<1>3. QED
  BY <1>1, <1>2

\* The count is one exactly when n is the last predecessor missing.
LEMMA LastPredecessor ==
    ASSUME NEW m \in Node, NEW n \in Node, NEW U, n \notin U, n \in Pred(m)
    PROVE  Cardinality(Pred(m) \ U) = 1 <=> Pred(m) \subseteq U \cup {n}
<1> DEFINE S == Pred(m) \ U
<1>1. IsFiniteSet(S) /\ IsFiniteSet(S \ {n}) /\ Cardinality(S) \in Nat /\ n \in S
  <2>1. S \ {n} = Pred(m) \ (U \cup {n})
    OBVIOUS
  <2>2. QED
    BY <2>1, PredFinite
<1>2. Cardinality(S \ {n}) = Cardinality(S) - 1
  BY <1>1, FS_RemoveElement
<1>3. Cardinality(S \ {n}) = 0 <=> S \ {n} = {}
  BY <1>1, FS_EmptySet
<1>4. S \ {n} = {} <=> Pred(m) \subseteq U \cup {n}
  OBVIOUS
<1>5. QED
  BY <1>1, <1>2, <1>3, <1>4

\* Appending an outcome gives its node that status and changes no other.
LEMMA AppendOutcome ==
    ASSUME WorkTypeOK, NEW n \in Node, NEW s \in Statuses,
           results' = Append(results, Outcome(n, s))
    PROVE  \A m \in Node, t \in Statuses :
               HasResult(m, t)' <=> HasResult(m, t) \/ (m = n /\ t = s)
<1> TAKE m \in Node, t \in Statuses
<1>1. Outcome(n, s) \in [node : Node, status : Statuses]
  BY DEF Outcome
<1>2. /\ Len(results') = Len(results) + 1 /\ Len(results) \in Nat
      /\ \A i \in 1..Len(results) : results'[i] = results[i]
      /\ results'[Len(results) + 1] = Outcome(n, s)
  BY <1>1 DEF WorkTypeOK
<1>3. Outcome(m, t) = Outcome(n, s) <=> m = n /\ t = s
  BY DEF Outcome
<1>4. HasResult(m, t)' <=> \E i \in 1..Len(results') : results'[i] = Outcome(m, t)
  BY DEF HasResult, Outcome
<1>5. QED
  BY <1>2, <1>3, <1>4 DEF HasResult

-----------------------------------------------------------------------------
(* The ways a step can disturb SchedInv, whatever action takes it.         *)

Busy == Pcs \ {"idle", "mark", "release", "settled"}

\* A node moves between two awaits and nothing else of the scheduling changes.
LEMMA BusyMove ==
    ASSUME IndInv, NEW n \in Node, NEW p \in Busy, pc[n] \in Busy, Goto(n, p),
           UNCHANGED <<main, ready, active, inDegree, completedNodes, unlocked,
                       results, failed, outcome>>
    PROVE  SchedInv'
<1> USE DEF IndInv, TypeOK, WorkTypeOK, StoreTypeOK, SchedInv, Busy, Pcs, Goto
<1>1. /\ pc'[n] = p
      /\ \A m \in Node : m # n => pc'[m] = pc[m]
  OBVIOUS
<1>2. \A m \in Node : /\ Finished(m)' <=> Finished(m)
                      /\ HasResult(m, "failed")' <=> HasResult(m, "failed")
  BY DEF Finished, HasResult, Outcome
<1>3. DegreeInv' /\ BeforeLoadInv'
  BY DEF DegreeInv, BeforeLoadInv, Pred
<1>4. UnlockedInv' /\ FinishedInv'
  BY <1>1, <1>2 DEF UnlockedInv, FinishedInv
<1>5. StartedInv' /\ QueuedInv' /\ ActiveInv' /\ DrainedInv'
  BY <1>1 DEF StartedInv, QueuedInv, ActiveInv, DrainedInv, Pred
<1>6. QED
  BY <1>3, <1>4, <1>5

\* A node gets a result: success goes on to markComplete, failure fails the run.
LEMMA ResultMove ==
    ASSUME IndInv, NEW n \in Node, NEW s \in {"success", "failed", "paused"},
           pc[n] \in Busy, results' = Append(results, Outcome(n, s)),
           Goto(n, IF s = "success" THEN "mark" ELSE "release"),
           failed' = (failed \/ s = "failed"),
           UNCHANGED <<main, ready, active, inDegree, completedNodes, unlocked,
                       outcome>>
    PROVE  SchedInv'
<1> USE DEF IndInv, TypeOK, WorkTypeOK, StoreTypeOK, SchedInv, Busy, Pcs, Goto
<1>1. /\ pc'[n] = IF s = "success" THEN "mark" ELSE "release"
      /\ \A m \in Node : m # n => pc'[m] = pc[m]
  OBVIOUS
<1>2. \A m \in Node :
         /\ Finished(m)' <=> Finished(m) \/ (m = n /\ s = "success")
         /\ HasResult(m, "failed")' <=> HasResult(m, "failed") \/ (m = n /\ s = "failed")
  BY AppendOutcome DEF Finished, Statuses
<1>3. DegreeInv' /\ BeforeLoadInv'
  BY DEF DegreeInv, BeforeLoadInv, Pred
<1>4. UnlockedInv' /\ FinishedInv'
  BY <1>1, <1>2 DEF UnlockedInv, FinishedInv
<1>5. StartedInv' /\ QueuedInv' /\ ActiveInv'
  BY <1>1 DEF StartedInv, QueuedInv, ActiveInv, Pred
<1>6. DrainedInv'
  BY DEF ActiveInv, DrainedInv
<1>7. QED
  BY <1>3, <1>4, <1>5, <1>6

\* A node leaves the active map for good.
LEMMA LeaveMove ==
    ASSUME IndInv, NEW n \in Node, pc[n] \in {"lease", "release"},
           Goto(n, "settled"), active' = active \ {n},
           UNCHANGED <<main, ready, inDegree, completedNodes, unlocked, results,
                       failed, outcome>>
    PROVE  SchedInv'
<1> USE DEF IndInv, TypeOK, WorkTypeOK, StoreTypeOK, SchedInv, Pcs, Goto
<1>1. /\ pc'[n] = "settled"
      /\ \A m \in Node : m # n => pc'[m] = pc[m]
  OBVIOUS
<1>2. \A m \in Node : /\ Finished(m)' <=> Finished(m)
                      /\ HasResult(m, "failed")' <=> HasResult(m, "failed")
  BY DEF Finished, HasResult, Outcome
<1>3. DegreeInv' /\ BeforeLoadInv'
  BY DEF DegreeInv, BeforeLoadInv, Pred
<1>4. UnlockedInv' /\ FinishedInv'
  BY <1>1, <1>2 DEF UnlockedInv, FinishedInv
<1>5. StartedInv' /\ QueuedInv' /\ ActiveInv' /\ DrainedInv'
  BY <1>1 DEF StartedInv, QueuedInv, ActiveInv, DrainedInv, Pred
<1>6. QED
  BY <1>3, <1>4, <1>5

\* A finished node propagates its completion, unless the run has failed.
LEMMA UnlockMove ==
    ASSUME IndInv, NEW n \in Node, pc[n] \in {"probe", "mark"},
           UnlockDownstream(n), Goto(n, "release"),
           \A m \in Node : Finished(m)' <=> Finished(m) \/ m = n,
           \A m \in Node : HasResult(m, "failed")' <=> HasResult(m, "failed"),
           UNCHANGED <<main, active, completedNodes, failed, outcome>>
    PROVE  SchedInv'
<1> USE DEF IndInv, TypeOK, WorkTypeOK, StoreTypeOK, SchedInv, Pcs, Goto
<1>1. /\ pc'[n] = "release"
      /\ \A m \in Node : m # n => pc'[m] = pc[m]
  OBVIOUS
<1>2. n \notin unlocked
  BY DEF UnlockedInv
<1>3. BeforeLoadInv' /\ ActiveInv' /\ FinishedInv'
  BY <1>1 DEF BeforeLoadInv, ActiveInv, FinishedInv, UnlockDownstream
<1>4. UnlockedInv'
  BY <1>1 DEF UnlockedInv, UnlockDownstream
<1>5. DrainedInv'
  BY DEF ActiveInv, DrainedInv, UnlockDownstream
<1>6. DegreeInv' /\ StartedInv' /\ QueuedInv'
  <2>1. CASE failed
    BY <1>1, <2>1 DEF UnlockDownstream, DegreeInv, StartedInv, QueuedInv, Pred
  <2>2. CASE ~failed
    <3>1. /\ unlocked' = unlocked \cup {n}
          /\ \A m \in Node : inDegree'[m] = IF n \in Pred(m) THEN inDegree[m] - 1
                                                             ELSE inDegree[m]
          /\ ready' = ready \cup {m \in Node : n \in Pred(m) /\ inDegree[m] = 1}
      BY <2>2 DEF UnlockDownstream
    <3>2. DegreeInv'
      <4> SUFFICES ASSUME NEW m \in Node
                   PROVE  inDegree'[m] = Cardinality(Pred(m) \ unlocked')
        BY DEF DegreeInv
      <4>1. inDegree[m] = Cardinality(Pred(m) \ unlocked)
        BY DEF DegreeInv
      <4>2. /\ n \in Pred(m) => Cardinality(Pred(m) \ (unlocked \cup {n}))
                                  = Cardinality(Pred(m) \ unlocked) - 1
            /\ n \notin Pred(m) =>
                 Pred(m) \ (unlocked \cup {n}) = Pred(m) \ unlocked
        <5>1. n \notin unlocked
          BY <1>2
        <5>2. QED
          BY ONLY <5>1, DegreeDrops, m \in Node, n \in Node
      <4>3. QED
        BY <3>1, <4>1, <4>2
    <3>3. \A m \in Node : n \in Pred(m) =>
             /\ inDegree[m] = 1 <=> Pred(m) \subseteq unlocked'
             /\ pc[m] = "idle" /\ m # n
      <4>1. ASSUME NEW m \in Node, n \in Pred(m)
            PROVE  inDegree[m] = 1 <=> Pred(m) \subseteq unlocked'
        <5>1. inDegree[m] = Cardinality(Pred(m) \ unlocked) /\ n \notin unlocked
          BY <1>2 DEF DegreeInv
        <5>2. Cardinality(Pred(m) \ unlocked) = 1 <=> Pred(m) \subseteq unlocked \cup {n}
          BY ONLY <4>1, <5>1, n \in Node, LastPredecessor
        <5>3. QED
          BY ONLY <3>1, <5>1, <5>2
      <4>2. ASSUME NEW m \in Node, n \in Pred(m), pc[m] # "idle" PROVE FALSE
        BY <1>2, <4>2 DEF StartedInv
      <4>3. QED
        BY <4>1, <4>2
    <3>4. StartedInv'
      BY <1>1, <3>1, <3>3 DEF StartedInv, Pred
    <3>5. QueuedInv'
      BY <1>1, <3>1, <3>3 DEF QueuedInv, Pred
    <3>6. QED
      BY <3>2, <3>4, <3>5
  <2>3. QED
    BY <2>1, <2>2
<1>7. QED
  BY <1>3, <1>4, <1>5, <1>6

-----------------------------------------------------------------------------
(* Every step preserves the inductive invariant.                           *)

LEMMA MainStepInv == ASSUME IndInv, MainStep PROVE SchedInv'
<1> USE DEF IndInv, TypeOK, SchedTypeOK, WorkTypeOK, StoreTypeOK, SchedInv
<1>1. ASSUME UNCHANGED <<pc, active, inDegree, unlocked, results>>,
             failed => failed'
      PROVE  DegreeInv' /\ UnlockedInv' /\ ActiveInv' /\ FinishedInv'
  <2>1. \A m \in Node : /\ Finished(m)' <=> Finished(m)
                        /\ HasResult(m, "failed")' <=> HasResult(m, "failed")
    BY <1>1 DEF Finished, HasResult, Outcome
  <2>2. DegreeInv' /\ ActiveInv'
    BY <1>1 DEF DegreeInv, ActiveInv, Pred
  <2>3. UnlockedInv' /\ FinishedInv'
    BY <1>1, <2>1 DEF UnlockedInv, FinishedInv
  <2>4. QED
    BY <2>2, <2>3
<1>2. CASE Load
  <2>1. /\ UNCHANGED <<pc, active, inDegree, unlocked, results, failed>>
        /\ main' \in {"fill", "end"} /\ outcome' \in {outcome, "threw"}
    BY <1>2 DEF Load, saga, store
  <2>2. /\ unlocked' = {} /\ ready' \subseteq Roots
        /\ main' = "fill" => ready' = Roots
        /\ main' = "end" => outcome' = "threw"
    BY <1>2 DEF Load, BeforeLoadInv
  <2>6. \A n \in Node : pc'[n] = "idle" /\ (n \in Roots <=> Pred(n) = {})
    BY <1>2, <2>1 DEF Load, BeforeLoadInv, Roots
  <2>7. StartedInv' /\ BeforeLoadInv'
    BY <2>1, <2>2, <2>6 DEF StartedInv, BeforeLoadInv
  <2>8. QueuedInv'
    BY <2>1, <2>2, <2>6 DEF QueuedInv
  <2>3. StartedInv' /\ QueuedInv' /\ BeforeLoadInv'
    BY <2>7, <2>8
  <2>4. DrainedInv'
    BY <1>2, <2>1 DEF DrainedInv, Load
  <2>5. QED
    BY <1>1, <2>1, <2>3, <2>4
<1>3. ASSUME NEW n \in Node, DropCompleted(n) PROVE SchedInv'
  <2>1. /\ UNCHANGED <<main, pc, active, inDegree, unlocked, results, failed,
                       outcome, completedNodes>>
        /\ ready' = ready \ {n} /\ main = "fill" /\ n \in ready
        /\ n \in completedNodes \cup active
    BY <1>3 DEF DropCompleted, work, saga, ending, store
  <2>2. n \in completedNodes
    BY <2>1 DEF ActiveInv, StartedInv
  <2>3. StartedInv' /\ QueuedInv' /\ BeforeLoadInv' /\ DrainedInv'
    BY <2>1, <2>2 DEF StartedInv, QueuedInv, BeforeLoadInv, DrainedInv, Pred
  <2>4. QED
    BY <1>1, <2>1, <2>3
<1>4. ASSUME NEW n \in Node, StartNode(n) PROVE SchedInv'
  <2>1. /\ UNCHANGED <<main, inDegree, unlocked, results, failed, outcome,
                       completedNodes>>
        /\ ready' = ready \ {n} /\ main = "fill" /\ n \in ready
        /\ active' = active \cup {n}
        /\ pc'[n] = "lease" /\ pc[n] = "idle"
        /\ \A m \in Node : m # n => pc'[m] = pc[m]
    BY <1>4 DEF StartNode, saga, ending, store, StartedInv
  <2>2. \A m \in Node : /\ Finished(m)' <=> Finished(m)
                        /\ HasResult(m, "failed")' <=> HasResult(m, "failed")
    BY <2>1 DEF Finished, HasResult, Outcome
  <2>3. DegreeInv' /\ BeforeLoadInv' /\ DrainedInv'
    BY <2>1 DEF DegreeInv, BeforeLoadInv, DrainedInv, Pred
  <2>4. UnlockedInv' /\ FinishedInv'
    BY <2>1, <2>2 DEF UnlockedInv, FinishedInv
  <2>5. StartedInv' /\ QueuedInv' /\ ActiveInv'
    BY <2>1 DEF StartedInv, QueuedInv, ActiveInv, Pred
  <2>6. QED
    BY <2>3, <2>4, <2>5
<1>5. ASSUME UNCHANGED <<ready, active, inDegree, completedNodes, pc, results,
                         unlocked>>,
             main \notin {"load", "end"}, main' # "load", failed => failed',
             DrainedInv'
      PROVE  SchedInv'
  BY <1>1, <1>5 DEF StartedInv, QueuedInv, BeforeLoadInv, Pred
<1>6. CASE FillDone
  <2>1. active = {} => HasRoom
    BY FS_EmptySet, OptionAssumption DEF HasRoom
  <2>2. DrainedInv'
    BY <1>6, <2>1 DEF FillDone, DrainedInv, ending
  <2>3. QED
    BY <1>5, <1>6, <2>2 DEF FillDone, work, ending
<1>7. CASE Refill \/ NoticeTimeout \/ LeaveLoop \/ RaceRejects
  <2>1. DrainedInv'
    BY <1>7 DEF Refill, NoticeTimeout, LeaveLoop, RaceRejects, Woken, DrainedInv,
       ending
  <2>2. QED
    BY <1>5, <1>7, <2>1 DEF Refill, NoticeTimeout, LeaveLoop, RaceRejects, Woken,
       work, ending
<1>8. CASE Settle
  <2>1. DrainedInv'
    BY <1>8 DEF Settle, DrainedInv
  <2>2. QED
    BY <1>5, <1>8, <2>1 DEF Settle, work
<1>9. CASE Compensate \/ SagaDone
  <2>1. DrainedInv'
    BY <1>9 DEF Compensate, SagaDone, DrainedInv, sched, ending
  <2>2. QED
    BY <1>5, <1>9, <2>1 DEF Compensate, SagaDone, sched, work, ending
<1>10. QED
  BY <1>2, <1>3, <1>4, <1>6, <1>7, <1>8, <1>9 DEF MainStep

LEMMA NodeStepInv == ASSUME IndInv, NEW n \in Node, NodeStep(n) PROVE SchedInv'
<1> USE DEF At
<1>1. CASE GrantLease(n) \/ ProbeMiss(n) \/ SpawnChild(n)
  BY <1>1, BusyMove DEF GrantLease, ProbeMiss, SpawnChild, Busy, Pcs, sched, ending
<1>2. CASE Save(n) \/ SaveConflict(n) \/ RecordFails(n) \/ LoopAgain(n) \/ Retry(n)
  BY <1>2, BusyMove DEF Save, SaveConflict, RecordFails, LoopAgain, Retry, Busy,
     Pcs, sched, ending
<1>3. CASE Throw(n)
  BY <1>3, BusyMove DEF Throw, Unguarded, Busy, Pcs, sched, ending
<1>4. CASE Execute(n)
  <2>1. Goto(n, "record") \/ Goto(n, "recordFailure")
    BY <1>4 DEF Execute
  <2>2. QED
    BY <1>4, <2>1, BusyMove DEF Execute, Busy, Pcs, sched, ending
<1>5. ASSUME Succeed(n) \/ Fail(n), pc[n] \in Busy, UNCHANGED <<sched, outcome, unlocked>>
      PROVE  SchedInv'
  <2>1. CASE Succeed(n)
    <3>1. failed' = (failed \/ "success" = "failed")
      BY <2>1 DEF Succeed, IndInv, TypeOK, StoreTypeOK
    <3>2. QED
      BY <1>5, <2>1, <3>1, ResultMove DEF Succeed, sched
  <2>2. CASE Fail(n)
    BY <1>5, <2>2, ResultMove DEF Fail, sched
  <2>3. QED
    BY <1>5, <2>1, <2>2
<1>6. CASE RejectNode(n) \/ RejectDepth(n) \/ ChildEnded(n) \/ RecordSuccess(n)
  BY <1>5, <1>6 DEF RejectNode, RejectDepth, ChildEnded, RecordSuccess, Busy, Pcs
<1>7. CASE ChildSpawned(n)
  <2>1. CASE Succeed(n)
    BY <1>5, <1>7, <2>1 DEF ChildSpawned, Busy, Pcs
  <2>2. CASE Goto(n, "await") /\ UNCHANGED <<results, sharedState, failed>>
    BY <1>7, <2>2, BusyMove DEF ChildSpawned, Busy, Pcs, sched
  <2>3. QED
    BY <1>7, <2>1, <2>2 DEF ChildSpawned
<1>8. CASE RecordFailure(n)
  <2>1. CASE Fail(n)
    BY <1>5, <1>8, <2>1 DEF RecordFailure, Busy, Pcs
  <2>2. CASE Goto(n, "backoff") /\ UNCHANGED <<results, sharedState, failed>>
    BY <1>8, <2>2, BusyMove DEF RecordFailure, Busy, Pcs, sched
  <2>3. QED
    BY <1>8, <2>1, <2>2 DEF RecordFailure
<1>9. CASE Pause(n)
  <2>1. failed' = (failed \/ "paused" = "failed")
    BY <1>9 DEF Pause, ending, IndInv, TypeOK, StoreTypeOK
  <2>2. QED
    BY <1>9, <2>1, ResultMove DEF Pause, Busy, Pcs, sched, ending
<1>10. CASE ProbeHit(n)
  <2>1. \A m \in Node : /\ Finished(m)' <=> Finished(m) \/ m = n
                        /\ HasResult(m, "failed")' <=> HasResult(m, "failed")
    BY <1>10, AppendOutcome DEF ProbeHit, Finished, Statuses, IndInv, TypeOK
  <2>2. QED
    BY <1>10, <2>1, UnlockMove DEF ProbeHit, ending
<1>11. CASE MarkComplete(n)
  <2>1. \A m \in Node : /\ Finished(m)' <=> Finished(m) \/ m = n
                        /\ HasResult(m, "failed")' <=> HasResult(m, "failed")
    BY <1>11 DEF MarkComplete, Finished, HasResult, Outcome, IndInv, SchedInv,
       FinishedInv
  <2>2. QED
    BY <1>11, <2>1, UnlockMove DEF MarkComplete, ending
<1>12. CASE RefuseLease(n) \/ Release(n)
  BY <1>12, LeaveMove DEF RefuseLease, Release, ending
<1>13. QED
  BY <1>1, <1>2, <1>3, <1>4, <1>6, <1>7, <1>8, <1>9, <1>10, <1>11, <1>12
     DEF NodeStep, Bookkeeping

LEMMA Stutter ==
    ASSUME SchedInv,
           UNCHANGED <<main, ready, active, inDegree, completedNodes, pc, results,
                       unlocked, failed, outcome>>
    PROVE  SchedInv'
BY DEF SchedInv, DegreeInv, UnlockedInv, StartedInv, QueuedInv, ActiveInv,
   BeforeLoadInv, DrainedInv, FinishedInv, Finished, HasResult, Outcome, Pred

LEMMA NextIndInv == ASSUME IndInv, [Next]_vars PROVE IndInv'
<1>1. TypeOK'
  BY NextTypeOK DEF IndInv
<1>2. CASE Abort \/ (\E n \in Node : PeerCompletes(n)) \/ UNCHANGED vars
  BY <1>1, <1>2, Stutter DEF Abort, PeerCompletes, vars, sched, work, ending, IndInv
<1>3. QED
  BY <1>1, <1>2, MainStepInv, NodeStepInv DEF Next, IndInv

LEMMA InitIndInv == ASSUME Init PROVE IndInv
<1>1. TypeOK
  BY InitTypeOK
<1>2. DegreeInv
  <2>1. ASSUME NEW n \in Node PROVE inDegree[n] = Cardinality(Pred(n) \ unlocked)
    <3>1. Pred(n) \ unlocked = Pred(n)
      BY DEF Init
    <3>2. QED
      BY <3>1 DEF Init, InitialDegree
  <2>2. QED
    BY <2>1 DEF DegreeInv
<1>3. UnlockedInv /\ StartedInv /\ QueuedInv /\ ActiveInv /\ BeforeLoadInv /\ DrainedInv
  BY DEF Init, UnlockedInv, StartedInv, QueuedInv, ActiveInv, BeforeLoadInv, DrainedInv
<1>4. FinishedInv
  BY DEF Init, FinishedInv, Finished, HasResult
<1>5. QED
  BY <1>1, <1>2, <1>3, <1>4 DEF IndInv, SchedInv

LEMMA Inductive == Spec => []IndInv
  BY InitIndInv, NextIndInv, PTL DEF Spec

-----------------------------------------------------------------------------
(* What the invariant gives.                                               *)

\* Whatever fails, is refused, paused or repeated, a node is taken up only
\* after all its predecessors finished in this run.
THEOREM PredecessorsFirst == Spec => []PredecessorsFinished
<1>1. IndInv => PredecessorsFinished
  BY DEF IndInv, SchedInv, StartedInv, UnlockedInv, PredecessorsFinished, Pred
<1>2. QED
  BY <1>1, Inductive, PTL

\* A run that completes left no node behind whose turn had come: no wake-up of
\* the scheduling loop is lost, for any graph and any limit on parallelism.
THEOREM NothingLost == Spec => []NoLostNode
<1>1. ASSUME IndInv PROVE NoLostNode
  <2> SUFFICES ASSUME outcome = "completed", NEW n \in Node, pc[n] = "idle",
                      n \notin completedNodes,
                      \A m \in Pred(n) : Finished(m)
               PROVE  FALSE
    BY DEF NoLostNode
  <2>1. main = "end" /\ ~failed /\ ready = {} /\ active = {}
    BY <1>1 DEF IndInv, SchedInv, DrainedInv
  <2>2. \A m \in Pred(n) : m \in unlocked
    BY <1>1, <2>1 DEF IndInv, SchedInv, FinishedInv, ActiveInv, Pred
  <2>3. QED
    BY <1>1, <2>1, <2>2 DEF IndInv, SchedInv, QueuedInv
<1>2. QED
  BY <1>1, Inductive, PTL

\* A run that completes has no failed node and no node whose processing threw.
THEOREM CompletionIsClean == Spec => []CompletedIsClean
<1>1. IndInv => CompletedIsClean
  BY DEF IndInv, SchedInv, DrainedInv, FinishedInv, ActiveInv, CompletedIsClean
<1>2. QED
  BY <1>1, Inductive, PTL

-----------------------------------------------------------------------------
(* Results, verdict and compensation: VerdictInv is kept beside IndInv.      *)

\* A node that may still get a result has none.
Unanswered == Pcs \ {"mark", "release", "settled"}

LEMMA NoResultYet ==
    ASSUME ResultInv, NEW n \in Node, pc[n] \in Unanswered
    PROVE  /\ \A i \in 1..Len(results) : results[i].node # n
           /\ \A s \in Statuses : ~HasResult(n, s)
BY DEF ResultInv, Unanswered, HasResult, Outcome

LEMMA ResultNode ==
    ASSUME TypeOK, NEW i \in 1..Len(results) PROVE results[i].node \in Node
<1>. DEFINE R == [node : Node, status : Statuses]
<1>1. results[i] \in R
  <2>1. results \in Seq(R)
    BY DEF TypeOK, WorkTypeOK
  <2>. HIDE DEF R
  <2>2. QED
    BY <2>1
<1>2. QED
  BY <1>1

\* Results stay as they are while a node moves on.
LEMMA ResultKept ==
    ASSUME TypeOK, ResultInv, NEW n \in Node, NEW p \in Pcs, Goto(n, p),
           UNCHANGED results, p # "mark",
           pc[n] \notin Unanswered => p \in {"release", "settled"}
    PROVE  ResultInv'
<1> USE DEF TypeOK, WorkTypeOK
<1>1. /\ pc'[n] = p
      /\ \A m \in Node : m # n => pc'[m] = pc[m]
  BY DEF Goto
<1>2. \A m \in Node : HasResult(m, "success")' <=> HasResult(m, "success")
  BY DEF HasResult, Outcome
<1>3. \A i \in 1..Len(results) : results[i].node \in Node
  BY ResultNode
<1>4. \A i \in 1..Len(results) : pc'[results[i].node] \in {"mark", "release", "settled"}
  <2> TAKE i \in 1..Len(results)
  <2>1. results[i].node \in Node /\ pc[results[i].node] \in {"mark", "release", "settled"}
    BY <1>3 DEF ResultInv
  <2>2. results[i].node = n => p \in {"release", "settled"}
    BY <2>1 DEF Unanswered
  <2>3. QED
    BY <1>1, <2>1, <2>2
<1>5. QED
  BY <1>1, <1>2, <1>4 DEF ResultInv

\* A node gets its result.
LEMMA ResultAdded ==
    ASSUME TypeOK, ResultInv, NEW n \in Node, NEW s \in Statuses,
           pc[n] \in Unanswered, results' = Append(results, Outcome(n, s)),
           Goto(n, IF s = "success" THEN "mark" ELSE "release")
    PROVE  ResultInv'
<1> USE DEF TypeOK, WorkTypeOK
<1>1. /\ pc'[n] = IF s = "success" THEN "mark" ELSE "release"
      /\ \A m \in Node : m # n => pc'[m] = pc[m]
  BY DEF Goto
<1>2. \A m \in Node : HasResult(m, "success")' <=>
                        HasResult(m, "success") \/ (m = n /\ s = "success")
  BY AppendOutcome DEF Statuses
<1>3. /\ Len(results') = Len(results) + 1 /\ Len(results) \in Nat
      /\ \A i \in 1..Len(results) : results'[i] = results[i]
      /\ results'[Len(results) + 1].node = n
  BY DEF Outcome
<1>4. \A i \in 1..Len(results) : results[i].node # n
  BY NoResultYet
<1>5. \A i \in 1..Len(results') : i \in 1..Len(results) \/ i = Len(results) + 1
  BY <1>3
<1>6. \A i, j \in 1..Len(results') : results'[i].node = results'[j].node => i = j
  <2> TAKE i, j \in 1..Len(results')
  <2>1. CASE i \in 1..Len(results) /\ j \in 1..Len(results)
    BY <1>3, <2>1 DEF ResultInv
  <2>2. QED
    BY <1>3, <1>4, <1>5, <2>1
<1>7. \A i \in 1..Len(results) : results[i].node \in Node
  BY ResultNode
<1>8. \A i \in 1..Len(results') : pc'[results'[i].node] \in {"mark", "release", "settled"}
  <2> TAKE i \in 1..Len(results')
  <2>1. CASE i \in 1..Len(results)
    <3>1. /\ results'[i].node = results[i].node /\ results[i].node \in Node
          /\ results[i].node # n
          /\ pc[results[i].node] \in {"mark", "release", "settled"}
      BY <1>3, <1>4, <1>7, <2>1 DEF ResultInv
    <3>2. QED
      BY <1>1, <3>1
  <2>2. CASE i = Len(results) + 1
    BY <1>1, <1>3, <2>2
  <2>3. QED
    BY <1>5, <2>1, <2>2
<1>9. \A m \in Node : pc'[m] = "mark" => HasResult(m, "success")'
  BY <1>1, <1>2 DEF ResultInv
<1>10. QED
  BY <1>6, <1>8, <1>9 DEF ResultInv

\* What a step of processNode leaves alone.
LEMMA NodeStepFrame ==
    ASSUME IndInv, VerdictInv, NEW n \in Node, NodeStep(n)
    PROVE  /\ main \in {"race", "settle", "end"}
           /\ outcome \notin {"completed", "failed"}
           /\ undone = <<>>
           /\ UNCHANGED <<main, outcome, undo, undone>>
<1>1. /\ main # "fill" /\ pc[n] \notin {"idle", "settled", "threw"}
      /\ UNCHANGED <<main, outcome, undo, undone>>
  BY DEF NodeStep, Bookkeeping, GrantLease, RefuseLease, ProbeHit, ProbeMiss, RejectNode,
     SpawnChild, RejectDepth, ChildSpawned, Pause, Save, SaveConflict, RecordFails,
     RecordSuccess, LoopAgain, RecordFailure, Retry, MarkComplete, Release, Throw,
     Execute, ChildEnded, At, Yielded, Unguarded, sched, saga, ending
<1>2. main \notin {"load", "saga"} /\ outcome \notin {"completed", "failed"}
  BY <1>1 DEF IndInv, SchedInv, BeforeLoadInv, VerdictInv, RestInv
<1>3. main \in {"race", "settle", "end"} /\ outcome \in {"none", "threw"}
  BY <1>1, <1>2 DEF IndInv, TypeOK, SchedTypeOK, StoreTypeOK
<1>4. QED
  BY <1>1, <1>2, <1>3 DEF VerdictInv, RestInv, UndoneInv

\* The moves of a node: it goes on at work, gets a result, or leaves.
LEMMA NodeResultStep ==
    ASSUME IndInv, VerdictInv, NEW n \in Node, NodeStep(n) PROVE ResultInv'
<1> USE DEF At, IndInv, VerdictInv
<1>1. ASSUME NEW p \in Pcs \ {"mark"}, Goto(n, p), pc[n] \in Unanswered, UNCHANGED results
      PROVE  ResultInv'
  BY <1>1, ResultKept
<1>2. ASSUME Succeed(n) \/ Fail(n), pc[n] \in Unanswered PROVE ResultInv'
  BY <1>2, ResultAdded DEF Succeed, Fail, Statuses
<1>3. CASE GrantLease(n) \/ RefuseLease(n) \/ ProbeMiss(n) \/ SpawnChild(n)
  BY <1>1, <1>3 DEF GrantLease, RefuseLease, ProbeMiss, SpawnChild, Unanswered, Pcs
<1>4. CASE Save(n) \/ SaveConflict(n) \/ RecordFails(n) \/ LoopAgain(n) \/ Retry(n)
  BY <1>1, <1>4 DEF Save, SaveConflict, RecordFails, LoopAgain, Retry, Unanswered, Pcs
<1>5. CASE Throw(n) \/ Execute(n)
  BY <1>1, <1>5 DEF Throw, Execute, Unguarded, Unanswered, Pcs
<1>6. CASE RejectNode(n) \/ RejectDepth(n) \/ ChildEnded(n) \/ RecordSuccess(n)
  BY <1>2, <1>6 DEF RejectNode, RejectDepth, ChildEnded, RecordSuccess, Unanswered, Pcs
<1>7. CASE ChildSpawned(n) \/ RecordFailure(n)
  BY <1>1, <1>2, <1>7 DEF ChildSpawned, RecordFailure, Unanswered, Pcs
<1>8. CASE ProbeHit(n) \/ Pause(n)
  BY <1>8, ResultAdded DEF ProbeHit, Pause, Unanswered, Pcs, Statuses
<1>9. CASE MarkComplete(n) \/ Release(n)
  BY <1>9, ResultKept DEF MarkComplete, Release, Unanswered, Pcs
<1>10. QED
  BY <1>3, <1>4, <1>5, <1>6, <1>7, <1>8, <1>9 DEF NodeStep, Bookkeeping

LEMMA NodeLeaseStep ==
    ASSUME IndInv, VerdictInv, NEW n \in Node, NodeStep(n) PROVE LeaseInv'
<1> USE DEF At, IndInv, VerdictInv, TypeOK, WorkTypeOK, StoreTypeOK, LeaseInv, Goto
<1>1. CASE GrantLease(n) \/ RefuseLease(n) \/ Throw(n) \/ Release(n)
  BY <1>1 DEF GrantLease, RefuseLease, Throw, Release, store
<1>2. CASE ProbeHit(n) \/ ProbeMiss(n) \/ SpawnChild(n) \/ Pause(n)
  BY <1>2 DEF ProbeHit, ProbeMiss, SpawnChild, Pause, store
<1>3. CASE Save(n) \/ SaveConflict(n) \/ RecordFails(n) \/ LoopAgain(n) \/ Retry(n)
             \/ Execute(n) \/ MarkComplete(n)
  BY <1>3 DEF Save, SaveConflict, RecordFails, LoopAgain, Retry, Execute, MarkComplete,
     store
<1>4. CASE RejectNode(n) \/ RejectDepth(n) \/ ChildEnded(n) \/ RecordSuccess(n)
  BY <1>4 DEF RejectNode, RejectDepth, ChildEnded, RecordSuccess, Succeed, Fail, store
<1>5. CASE ChildSpawned(n) \/ RecordFailure(n)
  BY <1>5 DEF ChildSpawned, RecordFailure, Succeed, Fail, store
<1>6. QED
  BY <1>1, <1>2, <1>3, <1>4, <1>5 DEF NodeStep, Bookkeeping

\* The saga stack stays as it is while a node moves on.
LEMMA StackKept ==
    ASSUME TypeOK, StackInv, NEW n \in Node, NEW p \in Pcs, Goto(n, p),
           UNCHANGED sagaStack,
           \A m \in Node : HasResult(m, "success")' /\ pc'[m] # "mark"
                             <=> HasResult(m, "success") /\ pc[m] # "mark",
           pc[n] \in {"release", "settled"} => p \in {"release", "settled"}
    PROVE  StackInv'
<1> USE DEF TypeOK, WorkTypeOK, SagaTypeOK
<1>1. /\ pc'[n] = p
      /\ \A m \in Node : m # n => pc'[m] = pc[m]
  BY DEF Goto
<1>2. \A i \in 1..Len(sagaStack) : sagaStack[i] \in Node
  OBVIOUS
<1>3. \A i \in 1..Len(sagaStack) : pc'[sagaStack[i]] \in {"release", "settled"}
  BY <1>1, <1>2 DEF StackInv
<1>4. QED
  BY <1>3 DEF StackInv

\* markComplete has returned: n goes on top, and no node below consumed its output,
\* because they were all taken up after their predecessors had propagated.
LEMMA StackGrows ==
    ASSUME IndInv, VerdictInv, NEW n \in Node, pc[n] = "mark", Goto(n, "release"),
           EnableSaga, sagaStack' = Append(sagaStack, n), UNCHANGED results
    PROVE  StackInv'
<1> USE DEF IndInv, TypeOK, WorkTypeOK, SagaTypeOK
<1>1. /\ pc'[n] = "release"
      /\ \A m \in Node : m # n => pc'[m] = pc[m]
  BY DEF Goto
<1>2. /\ Len(sagaStack') = Len(sagaStack) + 1 /\ Len(sagaStack) \in Nat
      /\ \A i \in 1..Len(sagaStack) : sagaStack'[i] = sagaStack[i] /\ sagaStack[i] \in Node
      /\ sagaStack'[Len(sagaStack) + 1] = n
  OBVIOUS
<1>3. \A i \in 1..Len(sagaStack') : i \in 1..Len(sagaStack) \/ i = Len(sagaStack) + 1
  BY <1>2
<1>4. \A m \in Node : HasResult(m, "success")' <=> HasResult(m, "success")
  BY DEF HasResult, Outcome
<1>5. HasResult(n, "success")
  BY DEF VerdictInv, ResultInv
<1>6. \A m \in Node : (\E i \in 1..Len(sagaStack') : sagaStack'[i] = m)
                        <=> HasResult(m, "success")' /\ pc'[m] # "mark"
  <2> TAKE m \in Node
  <2>1. (\E i \in 1..Len(sagaStack') : sagaStack'[i] = m)
          <=> (\E i \in 1..Len(sagaStack) : sagaStack[i] = m) \/ m = n
    BY <1>2, <1>3
  <2>2. (\E i \in 1..Len(sagaStack) : sagaStack[i] = m)
          <=> HasResult(m, "success") /\ pc[m] # "mark"
    BY DEF VerdictInv, StackInv
  <2>3. QED
    BY <1>1, <1>4, <1>5, <2>1, <2>2
<1>7. \A i \in 1..Len(sagaStack) : pc[sagaStack[i]] \in {"release", "settled"}
  BY DEF VerdictInv, StackInv
<1>8. \A i \in 1..Len(sagaStack') : pc'[sagaStack'[i]] \in {"release", "settled"}
  <2> TAKE i \in 1..Len(sagaStack')
  <2>1. CASE i \in 1..Len(sagaStack)
    <3>1. /\ sagaStack'[i] = sagaStack[i] /\ sagaStack[i] \in Node
          /\ pc[sagaStack[i]] \in {"release", "settled"}
      BY ONLY <1>2, <1>7, <2>1
    <3>2. QED
      BY ONLY <1>1, <3>1
  <2>2. CASE i = Len(sagaStack) + 1
    BY ONLY <1>1, <1>2, <2>2
  <2>3. QED
    BY <1>3, <2>1, <2>2
<1>9. \A i \in 1..Len(sagaStack) : <<n, sagaStack[i]>> \notin Edges
  <2> TAKE i \in 1..Len(sagaStack)
  <2>1. Pred(sagaStack[i]) \subseteq unlocked
    BY <1>2, <1>7 DEF SchedInv, StartedInv
  <2>2. n \notin unlocked
    BY DEF SchedInv, UnlockedInv
  <2>3. QED
    BY <2>1, <2>2 DEF Pred
<1>10. \A i, j \in 1..Len(sagaStack') :
          i < j => <<sagaStack'[j], sagaStack'[i]>> \notin Edges
  <2> TAKE i, j \in 1..Len(sagaStack')
  <2>1. CASE i \in 1..Len(sagaStack) /\ j \in 1..Len(sagaStack)
    BY <1>2, <2>1 DEF VerdictInv, StackInv
  <2>2. CASE i \in 1..Len(sagaStack) /\ j = Len(sagaStack) + 1
    BY <1>2, <1>9, <2>2
  <2>3. CASE i = Len(sagaStack) + 1
    <3>1. ~(i < j)
      BY <1>2, <1>3, <2>3
    <3>2. QED
      BY <3>1
  <2>4. QED
    BY <1>3, <2>1, <2>2, <2>3
<1>11. \A i, j \in 1..Len(sagaStack') : sagaStack'[i] = sagaStack'[j] => i = j
  <2>1. \A i \in 1..Len(sagaStack) : sagaStack[i] # n
    BY <1>7
  <2>2. \A i, j \in 1..Len(sagaStack) : sagaStack[i] = sagaStack[j] => i = j
    BY DEF VerdictInv, StackInv
  <2>3. QED
    BY ONLY <1>2, <1>3, <2>1, <2>2
<1>12. QED
  BY <1>6, <1>8, <1>10, <1>11 DEF StackInv

LEMMA NodeStackStep ==
    ASSUME IndInv, VerdictInv, NEW n \in Node, NodeStep(n) PROVE StackInv'
<1> USE DEF At, IndInv, VerdictInv
<1>1. ASSUME NEW p \in Pcs \ {"mark"}, Goto(n, p), pc[n] \in Pcs \ {"mark"},
             UNCHANGED <<results, sagaStack>>,
             pc[n] = "release" => p = "settled", pc[n] # "settled"
      PROVE  StackInv'
  <2>1. \A m \in Node : HasResult(m, "success")' <=> HasResult(m, "success")
    BY <1>1 DEF HasResult, Outcome
  <2>2. \A m \in Node : pc'[m] = "mark" <=> pc[m] = "mark"
    BY <1>1 DEF Goto, TypeOK, WorkTypeOK
  <2>3. QED
    BY <1>1, <2>1, <2>2, StackKept
<1>2. ASSUME NEW s \in Statuses, results' = Append(results, Outcome(n, s)),
             pc[n] \in Unanswered, UNCHANGED sagaStack,
             Goto(n, IF s = "success" THEN "mark" ELSE "release")
      PROVE  StackInv'
  <2>1. \A m \in Node : HasResult(m, "success")' <=>
                          HasResult(m, "success") \/ (m = n /\ s = "success")
    BY <1>2, AppendOutcome DEF Statuses, TypeOK
  <2>2. ~HasResult(n, "success") /\ pc[n] \notin {"mark", "release", "settled"}
    BY <1>2, NoResultYet DEF Unanswered, Statuses
  <2>3. /\ pc'[n] = IF s = "success" THEN "mark" ELSE "release"
        /\ \A m \in Node : m # n => pc'[m] = pc[m]
    BY <1>2 DEF Goto, TypeOK, WorkTypeOK
  <2>4. \A m \in Node : HasResult(m, "success")' /\ pc'[m] # "mark"
                          <=> HasResult(m, "success") /\ pc[m] # "mark"
    BY <2>1, <2>2, <2>3
  <2>5. QED
    BY <1>2, <2>2, <2>4, StackKept DEF Pcs
<1>3. ASSUME Succeed(n) \/ Fail(n), pc[n] \in Unanswered, UNCHANGED sagaStack
      PROVE  StackInv'
  BY <1>2, <1>3 DEF Succeed, Fail, Statuses
<1>4. CASE GrantLease(n) \/ RefuseLease(n) \/ ProbeMiss(n) \/ SpawnChild(n) \/ Release(n)
  BY <1>1, <1>4 DEF GrantLease, RefuseLease, ProbeMiss, SpawnChild, Release, Pcs, saga
<1>5. CASE Save(n) \/ SaveConflict(n) \/ RecordFails(n) \/ LoopAgain(n) \/ Retry(n)
  BY <1>1, <1>5 DEF Save, SaveConflict, RecordFails, LoopAgain, Retry, Pcs, saga
<1>6. CASE Throw(n) \/ Execute(n)
  BY <1>1, <1>6 DEF Throw, Execute, Unguarded, Pcs, saga
<1>7. CASE RejectNode(n) \/ RejectDepth(n) \/ ChildEnded(n) \/ RecordSuccess(n)
  BY <1>3, <1>7 DEF RejectNode, RejectDepth, ChildEnded, RecordSuccess, Unanswered, Pcs,
     saga
<1>8. CASE ChildSpawned(n) \/ RecordFailure(n)
  BY <1>1, <1>3, <1>8 DEF ChildSpawned, RecordFailure, Unanswered, Pcs, saga
<1>9. CASE ProbeHit(n) \/ Pause(n)
  BY <1>2, <1>9 DEF ProbeHit, Pause, Unanswered, Pcs, Statuses, saga
<1>10. CASE MarkComplete(n)
  <2>1. CASE EnableSaga
    BY <1>10, <2>1, StackGrows DEF MarkComplete
  <2>2. CASE ~EnableSaga
    BY <1>10, <2>2 DEF MarkComplete, StackInv
  <2>3. QED
    BY <2>1, <2>2
<1>11. QED
  BY <1>4, <1>5, <1>6, <1>7, <1>8, <1>9, <1>10 DEF NodeStep, Bookkeeping

LEMMA NodeVerdictStep ==
    ASSUME IndInv, VerdictInv, NEW n \in Node, NodeStep(n) PROVE VerdictInv'
<1>1. ResultInv' /\ LeaseInv' /\ StackInv'
  BY NodeResultStep, NodeLeaseStep, NodeStackStep
<1>2. RestInv' /\ UndoneInv'
  BY NodeStepFrame DEF VerdictInv, RestInv, UndoneInv
<1>3. QED
  BY <1>1, <1>2 DEF VerdictInv

\* A step of run() leaves results, leases and the saga stack alone.
LEMMA MainKeeps ==
    ASSUME VerdictInv, TypeOK, UNCHANGED <<results, leases, sagaStack>>,
           \A n \in Node : \/ pc'[n] = pc[n]
                           \/ pc[n] = "idle" /\ pc'[n] = "lease" /\ n \notin leases
    PROVE  ResultInv' /\ LeaseInv' /\ StackInv'
<1> USE DEF TypeOK, VerdictInv
<1>1. \A m \in Node : HasResult(m, "success")' <=> HasResult(m, "success")
  BY DEF HasResult, Outcome
<1>2. \A i \in 1..Len(results) : results[i].node \in Node
  BY ResultNode
<1>3. ResultInv'
  BY <1>1, <1>2 DEF ResultInv
<1>4. LeaseInv'
  BY DEF LeaseInv, StoreTypeOK
<1>5. \A i \in 1..Len(sagaStack) : sagaStack[i] \in Node
  BY DEF SagaTypeOK
<1>6. StackInv'
  BY <1>1, <1>5 DEF StackInv
<1>7. QED
  BY <1>3, <1>4, <1>6

LEMMA MainVerdictStep ==
    ASSUME IndInv, VerdictInv, MainStep PROVE VerdictInv'
<1> USE DEF IndInv, VerdictInv
<1>1. ResultInv' /\ LeaseInv' /\ StackInv'
  <2>1. ASSUME NEW n \in Node, StartNode(n) PROVE ResultInv' /\ LeaseInv' /\ StackInv'
    <3>1. /\ UNCHANGED <<results, leases, sagaStack>>
          /\ pc[n] = "idle" /\ pc'[n] = "lease" /\ n \notin leases
          /\ \A m \in Node : m # n => pc'[m] = pc[m]
      BY <2>1 DEF StartNode, saga, store, SchedInv, StartedInv, LeaseInv, TypeOK,
         WorkTypeOK
    <3>2. QED
      BY <3>1, MainKeeps
  <2>2. CASE ~\E n \in Node : StartNode(n)
    <3>1. UNCHANGED <<results, leases, sagaStack, pc>>
      BY <2>2 DEF MainStep, Load, DropCompleted, FillDone, Refill, NoticeTimeout,
         LeaveLoop, RaceRejects, Settle, Compensate, SagaDone, work, saga, store
    <3>2. QED
      BY <3>1, MainKeeps
  <2>3. QED
    BY <2>1, <2>2
<1>2. /\ undone \in Seq([node : Node, ok : BOOLEAN]) /\ Len(undone) \in Nat
      /\ Len(sagaStack) \in Nat /\ undo \in 0..Len(sagaStack)
  BY DEF TypeOK, SagaTypeOK
<1>3. CASE \/ Load \/ FillDone \/ Refill \/ NoticeTimeout \/ LeaveLoop \/ RaceRejects
           \/ \E n \in Node : DropCompleted(n) \/ StartNode(n)
  <2>1. RestInv'
    BY <1>3 DEF Load, FillDone, Refill, NoticeTimeout, LeaveLoop, RaceRejects, Woken,
       DropCompleted, StartNode, RestInv, ending
  <2>2. UNCHANGED saga /\ undone = <<>> /\ main' # "saga" /\ outcome' # "failed"
    BY <1>3 DEF Load, FillDone, Refill, NoticeTimeout, LeaveLoop, RaceRejects, Woken,
       DropCompleted, StartNode, RestInv, UndoneInv, ending
  <2>3. UndoneInv'
    BY <2>2 DEF UndoneInv, saga
  <2>4. QED
    BY <1>1, <2>1, <2>3
<1>4. CASE Settle
  <2>1. \A n \in Node : pc'[n] \in {"idle", "settled", "threw"}
    BY <1>4 DEF Settle, work, SchedInv, ActiveInv
  <2>2. outcome = "none" /\ undone = <<>>
    BY <1>4 DEF Settle, RestInv, UndoneInv
  <2>3. RestInv'
    BY <1>4, <2>1, <2>2 DEF Settle, RestInv
  <2>4. UndoneInv'
    BY <1>2, <1>4, <2>2 DEF Settle, UndoneInv, StackInv
  <2>5. QED
    BY <1>1, <2>3, <2>4
<1>5. CASE Compensate
  <2>1. RestInv'
    BY <1>5 DEF Compensate, RestInv, sched, ending, work
  <2>2. PICK ok \in BOOLEAN :
          undone' = Append(undone, [node |-> sagaStack[undo], ok |-> ok])
    BY <1>5 DEF Compensate
  <2>3. /\ main = "saga" /\ main' = "saga" /\ undo > 0 /\ undo' = undo - 1
        /\ outcome = "none" /\ outcome' = "none" /\ sagaStack' = sagaStack
        /\ Len(undone) = Len(sagaStack) - undo
    BY <1>5 DEF Compensate, sched, ending, RestInv, UndoneInv
  <2>4. /\ Len(undone') = Len(undone) + 1
        /\ \A i \in 1..Len(undone) : undone'[i] = undone[i]
        /\ undone'[Len(undone) + 1].node = sagaStack[undo]
    BY <1>2, <2>2
  <2>5. Len(sagaStack) + 1 - (Len(undone) + 1) = undo
    BY <1>2, <2>3
  <2>6. \A i \in 1..Len(undone') : undone'[i].node = sagaStack[Len(sagaStack) + 1 - i]
    <3> TAKE i \in 1..Len(undone')
    <3>1. CASE i \in 1..Len(undone)
      BY <2>4, <3>1 DEF UndoneInv
    <3>2. CASE i = Len(undone) + 1
      BY <2>4, <2>5, <3>2
    <3>3. QED
      BY <1>2, <2>4, <3>1, <3>2
  <2>7. Len(undone') = Len(sagaStack) - undo' /\ Len(undone') <= Len(sagaStack)
    BY <1>2, <2>3, <2>4
  <2>8. UndoneInv'
    BY <2>3, <2>6, <2>7 DEF UndoneInv
  <2>9. QED
    BY <1>1, <2>1, <2>8
<1>6. CASE SagaDone
  <2>1. RestInv'
    BY <1>6 DEF SagaDone, RestInv, work
  <2>2. UndoneInv'
    BY <1>2, <1>6 DEF SagaDone, UndoneInv, saga
  <2>3. QED
    BY <1>1, <2>1, <2>2
<1>7. QED
  BY <1>3, <1>4, <1>5, <1>6 DEF MainStep

LEMMA NextVerdictInv == ASSUME IndInv, VerdictInv, [Next]_vars PROVE VerdictInv'
<1>1. CASE Abort \/ (\E n \in Node : PeerCompletes(n)) \/ UNCHANGED vars
  <2>1. UNCHANGED <<main, pc, results, sagaStack, undo, undone, failed, outcome, leases>>
    BY <1>1 DEF Abort, PeerCompletes, vars, sched, work, saga, ending, store
  <2>2. ResultInv' /\ LeaseInv'
    BY <2>1 DEF VerdictInv, ResultInv, LeaseInv, HasResult, Outcome
  <2>3. RestInv'
    BY <2>1 DEF VerdictInv, RestInv
  <2>4. StackInv'
    BY <2>1 DEF VerdictInv, StackInv, HasResult, Outcome
  <2>5. UndoneInv'
    BY <2>1 DEF VerdictInv, UndoneInv
  <2>6. QED
    BY <2>2, <2>3, <2>4, <2>5 DEF VerdictInv
<1>2. QED
  BY <1>1, MainVerdictStep, NodeVerdictStep DEF Next

LEMMA InitVerdictInv == ASSUME Init PROVE VerdictInv
BY DEF Init, VerdictInv, ResultInv, LeaseInv, RestInv, StackInv, UndoneInv, HasResult

LEMMA VerdictInductive == Spec => [](IndInv /\ VerdictInv)
<1>1. Init => VerdictInv
  BY InitVerdictInv
<1>2. IndInv /\ VerdictInv /\ [Next]_vars => VerdictInv'
  BY NextVerdictInv
<1>3. QED
  BY <1>1, <1>2, Inductive, PTL DEF Spec

\* Whatever is retried, repeated, skipped or settles late, run() returns one result
\* for a node and no more.
THEOREM AnsweredOnce == Spec => []OneResultPerNode
<1>1. VerdictInv => OneResultPerNode
  BY DEF VerdictInv, ResultInv, OneResultPerNode
<1>2. QED
  BY <1>1, VerdictInductive, PTL

\* When run() emits its verdict, no node of it is at work or holds a lease, but for
\* those whose processing threw.
THEOREM VerdictIsQuiet == Spec => []QuietAtVerdict
<1>1. VerdictInv => QuietAtVerdict
  BY DEF VerdictInv, RestInv, LeaseInv, QuietAtVerdict
<1>2. QED
  BY <1>1, VerdictInductive, PTL

\* A failed run has visited the compensation of every node it reports as successful,
\* and of no other.
THEOREM AllSuccessesUndone == Spec => []SagaCoversSuccesses
<1>1. ASSUME IndInv, VerdictInv PROVE SagaCoversSuccesses
  <2> SUFFICES ASSUME outcome = "failed", EnableSaga
               PROVE  {n \in Node : HasResult(n, "success")}
                        = {undone[i].node : i \in 1..Len(undone)}
    BY DEF SagaCoversSuccesses
  <2>1. /\ Len(undone) = Len(sagaStack) /\ Len(sagaStack) \in Nat
        /\ \A i \in 1..Len(undone) : undone[i].node = sagaStack[Len(sagaStack) + 1 - i]
        /\ \A i \in 1..Len(sagaStack) : sagaStack[i] \in Node
    BY <1>1 DEF VerdictInv, UndoneInv, IndInv, TypeOK, SagaTypeOK
  <2>2. \A n \in Node : HasResult(n, "success")
                          <=> \E i \in 1..Len(sagaStack) : sagaStack[i] = n
    BY <1>1 DEF VerdictInv, RestInv, StackInv
  <2>3. \A i \in 1..Len(sagaStack) :
           /\ Len(sagaStack) + 1 - i \in 1..Len(undone)
           /\ undone[Len(sagaStack) + 1 - i].node = sagaStack[i]
    <3> TAKE i \in 1..Len(sagaStack)
    <3>1. /\ Len(sagaStack) + 1 - i \in 1..Len(undone)
          /\ Len(sagaStack) + 1 - (Len(sagaStack) + 1 - i) = i
      BY <2>1
    <3>2. QED
      BY <2>1, <3>1
  <2>4. \A i \in 1..Len(undone) :
           \E j \in 1..Len(sagaStack) : sagaStack[j] = undone[i].node
    <3> TAKE i \in 1..Len(undone)
    <3>1. Len(sagaStack) + 1 - i \in 1..Len(sagaStack)
      BY <2>1
    <3>2. QED
      BY ONLY <2>1, <3>1
  <2>5. ASSUME NEW n \in Node, HasResult(n, "success")
        PROVE  \E i \in 1..Len(undone) : undone[i].node = n
    <3>1. PICK j \in 1..Len(sagaStack) : sagaStack[j] = n
      BY ONLY <2>2, <2>5
    <3>2. QED
      BY ONLY <2>3, <3>1
  <2>6. ASSUME NEW i \in 1..Len(undone)
        PROVE  undone[i].node \in Node /\ HasResult(undone[i].node, "success")
    <3>1. PICK j \in 1..Len(sagaStack) : sagaStack[j] = undone[i].node
      BY ONLY <2>4
    <3>2. undone[i].node \in Node
      BY ONLY <2>1, <3>1
    <3>3. QED
      BY ONLY <2>2, <3>1, <3>2
  <2>7. QED
    BY ONLY <2>5, <2>6
<1>2. QED
  BY <1>1, VerdictInductive, PTL

\* No node is compensated before a node that consumed its output, on every graph and
\* in whatever order the nodes finished.
THEOREM UndoneInReverse == Spec => []SagaReverseOrder
<1>1. ASSUME IndInv, VerdictInv PROVE SagaReverseOrder
  <2> SUFFICES ASSUME NEW i \in 1..Len(undone), NEW j \in 1..Len(undone), i < j
               PROVE  <<undone[i].node, undone[j].node>> \notin Edges
    BY DEF SagaReverseOrder
  <2> DEFINE top(k) == Len(sagaStack) + 1 - k
  <2>1. Len(undone) <= Len(sagaStack) /\ Len(sagaStack) \in Nat /\ Len(undone) \in Nat
    BY <1>1 DEF VerdictInv, UndoneInv, IndInv, TypeOK, SagaTypeOK
  <2>2. top(i) \in 1..Len(sagaStack) /\ top(j) \in 1..Len(sagaStack) /\ top(j) < top(i)
    BY <2>1
  <2>3. undone[i].node = sagaStack[top(i)] /\ undone[j].node = sagaStack[top(j)]
    BY <1>1 DEF VerdictInv, UndoneInv
  <2> HIDE DEF top
  <2>4. QED
    BY <1>1, <2>2, <2>3 DEF VerdictInv, StackInv
<1>2. QED
  BY <1>1, VerdictInductive, PTL

\* Once a node has failed or the timeout was noticed, no further node is taken up:
\* the loop fills its pool only while nothing has failed.
THEOREM NoneAfterFailure == Spec => NoStartAfterFailure
<1> DEFINE Quiet == failed => \A n \in Node : pc[n] = "idle" => pc'[n] = "idle"
<1>1. ASSUME IndInv, VerdictInv, [Next]_vars PROVE Quiet
  <2> SUFFICES ASSUME failed, NEW n \in Node, pc[n] = "idle" PROVE pc'[n] = "idle"
    OBVIOUS
  <2> USE <1>1 DEF IndInv, VerdictInv, TypeOK, WorkTypeOK
  <2>1. CASE MainStep
    <3>1. \A m \in Node : ~StartNode(m)
      BY DEF StartNode, RestInv
    <3>2. QED
      BY <2>1, <3>1 DEF MainStep, Load, DropCompleted, FillDone, Refill, NoticeTimeout,
         LeaveLoop, RaceRejects, Settle, Compensate, SagaDone, work
  <2>2. ASSUME NEW m \in Node, NodeStep(m) PROVE pc'[n] = "idle"
    <3>1. pc[m] # "idle" /\ \E p \in Pcs : Goto(m, p)
      BY <2>2 DEF NodeStep, Bookkeeping, GrantLease, RefuseLease, ProbeHit, ProbeMiss,
         RejectNode, SpawnChild, RejectDepth, ChildSpawned, Pause, Save, SaveConflict,
         RecordFails, RecordSuccess, LoopAgain, RecordFailure, Retry, MarkComplete,
         Release, Throw, Execute, ChildEnded, Succeed, Fail, At, Unguarded, Pcs
    <3>2. QED
      BY <3>1 DEF Goto
  <2>3. CASE Abort \/ (\E m \in Node : PeerCompletes(m)) \/ UNCHANGED vars
    BY <2>3 DEF Abort, PeerCompletes, vars, work
  <2>4. QED
    BY <1>1, <2>1, <2>2, <2>3 DEF Next
<1>2. IndInv /\ VerdictInv /\ [Next]_vars => [Quiet]_vars
  BY <1>1
<1>3. QED
  BY <1>2, VerdictInductive, PTL DEF Spec, NoStartAfterFailure

\* No success is taken back from the database, and a node marks its success only
\* when it is there.
LEMMA StoredStep ==
    ASSUME TypeOK, StoredInv, [Next]_vars  PROVE StoredInv'
<1>1. CASE MainStep
  <2>1. unlocked' = unlocked /\ stored' = stored
    BY <1>1 DEF MainStep, Load, DropCompleted, StartNode, FillDone, Refill,
       NoticeTimeout, LeaveLoop, RaceRejects, Settle, Compensate, SagaDone, store
  <2>2. \A n \in Node : pc'[n] = pc[n] \/ pc'[n] = "lease"
    BY <1>1 DEF MainStep, Load, DropCompleted, StartNode, FillDone, Refill,
       NoticeTimeout, LeaveLoop, RaceRejects, Settle, Compensate, SagaDone, work,
       TypeOK, WorkTypeOK
  <2>3. QED
    BY <2>1, <2>2 DEF StoredInv
<1>2. ASSUME NEW m \in Node, NodeStep(m)  PROVE StoredInv'
  <2>1. /\ stored \subseteq stored'
        /\ unlocked' \subseteq unlocked \cup {m}
        /\ m \in unlocked' \ unlocked => m \in stored \/ pc[m] = "mark"
        /\ \A n \in Node \ {m} : pc'[n] = pc[n]
        /\ pc'[m] = "mark" => m \in stored' \/ pc[m] \in {"spawn", "await"}
        /\ pc'[m] \in {"spawn", "await"} => IsChild(m)
    <3> USE DEF TypeOK, WorkTypeOK, At, Goto, store
    <3>1. CASE ProbeHit(m)
      BY <3>1 DEF ProbeHit, UnlockDownstream
    <3>2. CASE MarkComplete(m)
      BY <3>2 DEF MarkComplete, UnlockDownstream
    <3>3. CASE ChildSpawned(m) \/ SpawnChild(m)
      BY <3>3 DEF ChildSpawned, SpawnChild, Succeed, IsChild
    <3>4. CASE RecordSuccess(m) \/ ChildEnded(m)
      BY <3>4 DEF RecordSuccess, ChildEnded, Succeed, Fail
    <3>5. CASE LoopAgain(m) \/ Save(m) \/ ProbeMiss(m) \/ RecordFailure(m)
      BY <3>5 DEF LoopAgain, Save, ProbeMiss, RecordFailure, Fail
    <3>6. CASE GrantLease(m) \/ RefuseLease(m) \/ RejectNode(m) \/ RejectDepth(m)
               \/ Pause(m) \/ SaveConflict(m) \/ RecordFails(m) \/ Retry(m)
               \/ Release(m) \/ Throw(m) \/ Execute(m)
      BY <3>6 DEF GrantLease, RefuseLease, RejectNode, RejectDepth, Pause,
         SaveConflict, RecordFails, Retry, Release, Throw, Execute, Fail
    <3>7. QED
      BY <1>2, <3>1, <3>2, <3>3, <3>4, <3>5, <3>6 DEF NodeStep, Bookkeeping
  <2>2. QED
    BY <2>1 DEF StoredInv
<1>3. CASE Abort \/ (\E m \in Node : PeerCompletes(m)) \/ UNCHANGED vars
  <2>1. unlocked' = unlocked /\ stored \subseteq stored' /\ pc' = pc
    BY <1>3 DEF Abort, PeerCompletes, vars, work, store
  <2>2. QED
    BY <2>1 DEF StoredInv
<1>4. QED
  BY <1>1, <1>2, <1>3 DEF Next

\* What a run takes up rests on successes in the database, apart from those of child
\* workflow nodes: a process that dies loses no input of a node at work.
THEOREM InputsAreStored == Spec => []InputsOutliveCrash
<1>1. Init => StoredInv
  BY DEF Init, StoredInv
<1>2. IndInv /\ StoredInv /\ [Next]_vars => StoredInv'
  BY StoredStep DEF IndInv
<1>3. IndInv /\ StoredInv => InputsOutliveCrash
  BY DEF IndInv, SchedInv, StartedInv, StoredInv, InputsOutliveCrash, Pred
<1>4. QED
  BY Inductive, <1>1, <1>2, <1>3, PTL DEF Spec
=============================================================================
