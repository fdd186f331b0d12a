------------------------ MODULE TopologicalSort_proofs ------------------------
(***************************************************************************)
(* What topologicalSort of packages/workflow-engine answers for every      *)
(* graph: the counters of incoming edges count exactly the edges whose     *)
(* source is not in the answer yet (SortInv), whence the order of the      *)
(* answer and the reason a node is left out.                               *)
(*                                                                         *)
(* Then the two components that stand on it: the runner, which has passed  *)
(* only successes (PlaceInv), and the validator, whose search leaves only  *)
(* nodes that are closed under the edges and hold nothing circular         *)
(* (LeftInv), so that it and the sort agree.                               *)
(***************************************************************************)
EXTENDS GraphValidator, LegacyRunner, FiniteSetTheorems, SequenceTheorems,
        WellFoundedInduction, TLAPS

\* An edge leads from an id to an id, and the edges into a node are finitely many.
LEMMA EdgeFacts ==
  ASSUME SortTypeOK
  PROVE  /\ \A e \in Edge : Source(e) \in Id /\ Target(e) \in Id
         /\ \A m : IsFiniteSet(Into(m))
         /\ \A m : Cardinality(Into(m)) \in Nat
<1>1. Edge = 1..Len(ends) /\ Len(ends) \in Nat
    BY DEF SortTypeOK, Edge
<1>2. IsFiniteSet(Edge)
    BY <1>1, FS_Interval
<1>3. \A e \in Edge : ends[e] \in Id \X Id
    BY DEF SortTypeOK, Edge
<1>4. \A m : Into(m) \in SUBSET Edge
    BY DEF Into
<1>5. \A m : IsFiniteSet(Into(m))
    BY <1>2, <1>4, FS_Subset
<1>6. \A m : Cardinality(Into(m)) \in Nat
    BY <1>5, FS_CardinalityType
<1>. QED BY <1>3, <1>5, <1>6 DEF Source, Target

\* The open edges into an id are finitely many.
LEMMA OpenFacts ==
  ASSUME SortTypeOK, NEW m
  PROVE  /\ IsFiniteSet(Open(m)) /\ Cardinality(Open(m)) \in Nat
         /\ (Cardinality(Open(m)) = 0 <=> Open(m) = {})
<1>1. Open(m) \in SUBSET Into(m) /\ IsFiniteSet(Into(m))
    BY EdgeFacts DEF Open
<1>2. IsFiniteSet(Open(m))
    BY <1>1, FS_Subset
<1>. QED BY <1>2, FS_CardinalityType, FS_EmptySet

LEMMA InitSorts ==
  ASSUME ends \in Seq(Id \X Id), SortInit
  PROVE  SortInv /\ SortedInOrder
<1>. USE DEF SortInit
<1>1. Edge = 1..Len(ends) /\ IsFiniteSet(Edge)
    BY FS_Interval DEF Edge
<1>2. \A m : Into(m) \in SUBSET Edge
    BY DEF Into
<1>3. \A m : Cardinality(Into(m)) \in Nat
    BY <1>1, <1>2, FS_Subset, FS_CardinalityType
<1>4. SortTypeOK
    BY <1>3 DEF SortTypeOK, Id
<1>5. DOMAIN sorted = {} /\ Sorted = {}
    BY DEF Sorted
<1>6. \A m : Open(m) = Into(m)
    BY <1>5 DEF Open
<1>7. \A m \in Id : degree[m] = Cardinality(Open(m))
    BY <1>6
<1>8. /\ \A m \in queue \cup Sorted : Open(m) = {}
      /\ queue \cap Sorted = {}
      /\ \A m \in Node \ (queue \cup Sorted) : Open(m) # {}
    BY <1>5, <1>6
<1>. QED BY <1>4, <1>5, <1>7, <1>8 DEF SortInv, SortedInOrder

\* What a turn of the loop does to the answer ...
LEMMA SortedGrows ==
  ASSUME SortInv, NEW n \in Id, Dequeue(n)
  PROVE  /\ sorted' \in Seq(Node)
         /\ Sorted' = Sorted \cup ({n} \cap Node)
         /\ n \notin Node => sorted' = sorted
         /\ n \in Node => /\ Len(sorted') = Len(sorted) + 1
                          /\ sorted'[Len(sorted) + 1] = n
                          /\ \A i \in 1..Len(sorted) : sorted'[i] = sorted[i]
<1>1. sorted \in Seq(Node)
    BY DEF SortInv, SortTypeOK
<1>2. CASE n \in Node
  <2>1. sorted' = Append(sorted, n)
      BY <1>2 DEF Dequeue
  <2>2. /\ sorted' \in Seq(Node) /\ Len(sorted') = Len(sorted) + 1
        /\ sorted'[Len(sorted) + 1] = n
        /\ \A i \in 1..Len(sorted) : sorted'[i] = sorted[i]
      BY <1>1, <1>2, <2>1
  <2>3. DOMAIN sorted = 1..Len(sorted) /\ DOMAIN sorted' = 1..(Len(sorted) + 1)
        /\ Len(sorted) \in Nat
      BY <1>1, <2>2
  <2>4. Sorted' = Sorted \cup {n}
      BY <2>2, <2>3 DEF Sorted
  <2>. QED BY <1>2, <2>2, <2>4
<1>3. CASE n \notin Node
    BY <1>1, <1>3 DEF Dequeue, Sorted
<1>. QED BY <1>2, <1>3

\* ... and to the open edges: those from n are closed, and only those.
LEMMA OpenShrinks ==
  ASSUME SortInv, NEW n \in Id, Dequeue(n), NEW m
  PROVE  /\ Open(m)' = Open(m) \ Between(n, m)
         /\ Between(n, m) \subseteq Open(m)
         /\ Cardinality(Open(m)') = Cardinality(Open(m)) - Cardinality(Between(n, m))
<1>1. Sorted' = Sorted \cup ({n} \cap Node)
    BY SortedGrows
<1>2. ends' = ends
    BY DEF Dequeue
<1>3. Into(m)' = Into(m) /\ \A e : Source(e)' = Source(e)
    BY <1>2 DEF Into, Edge, Source, Target
<1>4. n \notin Sorted
    BY DEF SortInv, Dequeue
<1>5. Open(m)' = Open(m) \ Between(n, m)
    BY <1>1, <1>3 DEF Open, Between
<1>6. Between(n, m) \subseteq Open(m)
    BY <1>4 DEF Open, Between
<1>7. IsFiniteSet(Open(m))
    BY OpenFacts DEF SortInv
<1>8. Open(m) \cap Between(n, m) = Between(n, m)
    BY <1>6
<1>9. Cardinality(Open(m) \ Between(n, m))
        = Cardinality(Open(m)) - Cardinality(Open(m) \cap Between(n, m))
    BY <1>7, FS_Difference
<1>. QED BY <1>5, <1>6, <1>8, <1>9

LEMMA DequeueSorts ==
  ASSUME SortInv, SortedInOrder, NEW n \in Id, Dequeue(n)
  PROVE  SortInv' /\ SortedInOrder'
<1>1. /\ SortTypeOK /\ n \in queue /\ queue \subseteq Id
      /\ degree' = [m \in Id |-> degree[m] - Cardinality(Between(n, m))]
      /\ queue' = (queue \ {n}) \cup {m \in Id : degree'[m] = 0 /\ degree[m] > 0}
      /\ ends' = ends /\ ends \in Seq(Id \X Id)
    BY DEF SortInv, SortTypeOK, Dequeue
<1>2. /\ \A m \in Id : degree[m] = Cardinality(Open(m))
      /\ \A m \in queue \cup Sorted : Open(m) = {}
      /\ queue \cap Sorted = {}
      /\ \A m \in Node \ (queue \cup Sorted) : Open(m) # {}
    BY DEF SortInv
<1>3. /\ sorted' \in Seq(Node) /\ Sorted' = Sorted \cup ({n} \cap Node)
    BY SortedGrows
<1>4. \A m : /\ Open(m)' \subseteq Open(m)
             /\ Cardinality(Open(m)') = Cardinality(Open(m)) - Cardinality(Between(n, m))
    BY OpenShrinks
<1>5. \A m : /\ IsFiniteSet(Open(m)) /\ Cardinality(Open(m)) \in Nat
             /\ (Cardinality(Open(m)) = 0 <=> Open(m) = {})
    BY <1>1, OpenFacts
<1>6. \A m : /\ Cardinality(Open(m)') \in Nat
             /\ (Cardinality(Open(m)') = 0 <=> Open(m)' = {})
    BY <1>4, <1>5, FS_Subset, FS_CardinalityType, FS_EmptySet
<1>7. \A m \in Id : degree'[m] = Cardinality(Open(m)')
    BY <1>1, <1>2, <1>4
<1>8. SortTypeOK'
  <2>1. degree' \in [Id -> Nat]
      BY <1>1, <1>6, <1>7
  <2>2. queue' \subseteq Id
      BY <1>1
  <2>. QED BY <1>1, <1>3, <2>1, <2>2 DEF SortTypeOK, Id
<1>9. \A m \in queue' \cup Sorted' : Open(m)' = {}
  <2>. SUFFICES ASSUME NEW m \in queue' \cup Sorted'  PROVE Open(m)' = {}
      OBVIOUS
  <2>1. CASE m \in queue \cup Sorted
      BY <1>2, <1>4, <2>1
  <2>2. CASE m \in Id /\ degree'[m] = 0
      BY <1>6, <1>7, <2>2
  <2>. QED BY <1>1, <1>3, <2>1, <2>2
<1>10. queue' \cap Sorted' = {}
  <2>. SUFFICES ASSUME NEW m \in queue', m \in Sorted'  PROVE FALSE
      OBVIOUS
  <2>1. m \in queue \cup Sorted
      BY <1>1, <1>3
  <2>2. Open(m) = {}
      BY <1>2, <2>1
  <2>3. m \in queue \ {n}
      BY <1>1, <1>2, <1>5, <2>2
  <2>. QED BY <1>2, <1>3, <2>3
<1>11. \A m \in Node \ (queue' \cup Sorted') : Open(m)' # {}
  <2>. SUFFICES ASSUME NEW m \in Node, m \notin queue', m \notin Sorted', Open(m)' = {}
                PROVE  FALSE
      OBVIOUS
  <2>1. m \in Id /\ m # n
      BY <1>3 DEF Id
  <2>2. m \notin queue \cup Sorted
      BY <1>1, <1>3, <2>1
  <2>3. Open(m) # {}
      BY <1>2, <2>2
  <2>4. degree[m] > 0 /\ degree'[m] = 0
      BY <1>2, <1>5, <1>6, <1>7, <2>1, <2>3
  <2>. QED BY <1>1, <2>1, <2>4
<1>12. SortInv'
  <2>1. \A m \in Id' : degree'[m] = Cardinality(Open(m)')
      BY <1>7 DEF Id
  <2>. QED BY <1>8, <1>9, <1>10, <1>11, <2>1 DEF SortInv
<1>13. SortedInOrder'
  <2>. DEFINE L == Len(sorted)
  <2>1. sorted \in Seq(Node) /\ L \in Nat /\ DOMAIN sorted = 1..L
      BY <1>1 DEF SortTypeOK
  <2>2. \A m : Into(m)' = Into(m)
      BY <1>1 DEF Into, Edge, Target
  <2>3. \A e : Source(e)' = Source(e)
      BY <1>1 DEF Source
  <2>4. CASE n \notin Node
    <3>1. sorted' = sorted
        BY <2>4, SortedGrows
    <3>. QED BY <2>2, <2>3, <3>1 DEF SortedInOrder
  <2>5. CASE n \in Node
    <3>1. /\ DOMAIN sorted' = 1..(L + 1) /\ sorted'[L + 1] = n
          /\ \A i \in 1..L : sorted'[i] = sorted[i]
        BY <1>3, <2>1, <2>5, SortedGrows
    <3>2. \A e \in Into(n) : Source(e) \in Sorted
        BY <1>1, <1>2 DEF Open
    <3>3. \A e \in Into(n) : \E j \in 1..L : sorted[j] = Source(e)
        BY <2>1, <3>2 DEF Sorted
    <3>4. \A i \in 1..L : sorted[i] # n
        BY <1>1, <1>2, <2>1 DEF Sorted
    <3>5. ASSUME NEW i \in 1..(L + 1), NEW e \in Into(sorted'[i])
          PROVE  \E j \in 1..(i - 1) : sorted'[j] = Source(e)
      <4>1. CASE i = L + 1
        <5>1. PICK j \in 1..L : sorted[j] = Source(e)
            BY <3>1, <3>3, <4>1
        <5>2. j \in 1..(i - 1) /\ sorted'[j] = Source(e)
            BY <2>1, <3>1, <4>1, <5>1
        <5>. QED BY <5>2
      <4>2. CASE i \in 1..L
        <5>1. PICK j \in 1..(i - 1) : sorted[j] = Source(e)
            BY <2>1, <3>1, <4>2 DEF SortedInOrder
        <5>2. j \in 1..L
            BY <2>1, <4>2
        <5>. QED BY <3>1, <5>1, <5>2
      <4>. QED BY <2>1, <4>1, <4>2
    <3>6. ASSUME NEW i \in 1..(L + 1), NEW j \in 1..(L + 1), sorted'[i] = sorted'[j]
          PROVE  i = j
      <4>1. CASE i \in 1..L /\ j \in 1..L
          BY <2>1, <3>1, <3>6, <4>1 DEF SortedInOrder
      <4>2. CASE i = L + 1 \/ j = L + 1
          BY <2>1, <3>1, <3>4, <3>6, <4>2
      <4>. QED BY <2>1, <4>1, <4>2
    <3>. QED BY <2>2, <2>3, <3>1, <3>5, <3>6 DEF SortedInOrder
  <2>. QED BY <2>4, <2>5
<1>. QED BY <1>12, <1>13

\* A step that leaves the sort alone keeps what is known of it.
LEMMA SortRests ==
  ASSUME SortInv, SortedInOrder, UNCHANGED sortVars
  PROVE  SortInv' /\ SortedInOrder'
<1>1. ends' = ends /\ degree' = degree /\ queue' = queue /\ sorted' = sorted
    BY DEF sortVars
<1>2. Edge' = Edge /\ Sorted' = Sorted /\ \A m : Into(m)' = Into(m)
    BY <1>1 DEF Edge, Sorted, Into, Target
<1>3. \A m : Open(m)' = Open(m)
    BY <1>1, <1>2 DEF Open, Source
<1>4. SortTypeOK' = SortTypeOK
    BY <1>1 DEF SortTypeOK
<1>5. SortInv'
    BY <1>1, <1>2, <1>3, <1>4 DEF SortInv
<1>. QED BY <1>1, <1>2, <1>5 DEF SortedInOrder, Source

LEMMA SortInvariance == SortSpec => [](SortInv /\ SortedInOrder)
<1>1. ends \in Seq(Id \X Id) /\ SortInit => SortInv /\ SortedInOrder
    BY InitSorts
<1>2. SortInv /\ SortedInOrder /\ [SortNext]_sortVars => SortInv' /\ SortedInOrder'
  <2>. SUFFICES ASSUME SortInv, SortedInOrder, [SortNext]_sortVars
                PROVE  SortInv' /\ SortedInOrder'
      OBVIOUS
  <2>1. CASE SortNext
      BY <2>1, DequeueSorts DEF SortNext
  <2>2. CASE UNCHANGED sortVars
      BY <2>2, SortRests
  <2>. QED BY <2>1, <2>2
<1>. QED BY <1>1, <1>2, PTL DEF SortSpec

\* The edges, counters, queue and answer keep their types; in particular no
\* counter falls below zero, with parallel edges and cycles too.
THEOREM SortTypeCorrect == SortSpec => []SortTypeOK
<1>1. SortInv => SortTypeOK
    BY DEF SortInv
<1>. QED BY SortInvariance, <1>1, PTL

\* Whatever the graph, a node is answered once and after the source of every
\* edge into it.
THEOREM AnswerIsInOrder == SortSpec => []SortedInOrder
BY SortInvariance, PTL

\* When the loop ends, a node that is not in the answer has an edge into it from
\* an id that is not in the answer either: a cycle, or an id that is no node.
THEOREM OnlyBlockedLeftOut == SortSpec => []LeftOutIsBlocked
<1>1. SortInv => LeftOutIsBlocked
    BY DEF SortInv, LeftOutIsBlocked, SortDone, Open
<1>. QED BY SortInvariance, <1>1, PTL

-----------------------------------------------------------------------------
(* WorkflowRunner.run: one node after the other *)

\* The sort moves only while no node has been executed, and only adds to the answer.
LEMMA PlaceInSort ==
  ASSUME SortInv, PlaceInv, SortNext, UNCHANGED runnerVars
  PROVE  PlaceInv'
<1>1. PICK n \in Id : Dequeue(n)
    BY DEF SortNext
<1>2. ~SortDone
    BY <1>1 DEF Dequeue, SortDone
<1>3. /\ run' = run /\ place' = place /\ results' = results
      /\ executed' = executed /\ result' = result
    BY DEF runnerVars
<1>4. sorted \in Seq(Node) /\ sorted' \in Seq(Node) /\ Len(sorted') >= Len(sorted)
  <2>1. sorted \in Seq(Node) /\ Len(sorted) \in Nat
      BY DEF SortInv, SortTypeOK
  <2>2. /\ sorted' \in Seq(Node)
        /\ Len(sorted') = Len(sorted) \/ Len(sorted') = Len(sorted) + 1
      BY <1>1, SortedGrows
  <2>. QED BY <2>1, <2>2
<1>5. place' \in 1..(Len(sorted') + 1)
  <2>1. Len(sorted) \in Nat /\ Len(sorted') \in Nat /\ place \in 1..(Len(sorted) + 1)
      BY <1>4 DEF PlaceInv
  <2>. QED BY <1>3, <1>4, <2>1
<1>6. executed = {}
    BY <1>2 DEF PlaceInv
<1>7. 1..(place - 1) = {} /\ result = "none"
    BY <1>4, <1>6 DEF PlaceInv
<1>. QED BY <1>3, <1>5, <1>6, <1>7 DEF PlaceInv

\* A node that has passed has been executed and not failed from then on.
LEMMA PlaceAdvances ==
  ASSUME SortInv, PlaceInv, AtNode, NEW s \in Status \ {"failed"}, Advance(s),
         UNCHANGED <<sortVars, run>>, executed' = executed \cup {Current}
  PROVE  PlaceInv'
<1>. DEFINE L == Len(sorted)
            K == Len(results)
<1>1. /\ sorted \in Seq(Node) /\ L \in Nat /\ DOMAIN sorted = 1..L
      /\ sorted' = sorted /\ queue' = queue
    BY DEF SortInv, SortTypeOK, sortVars
<1>2. /\ run = "running" /\ SortDone /\ place \in 1..L
      /\ run' = run /\ place' = place + 1 /\ result' = "none"
      /\ results \in Seq(Status) /\ K \in Nat
      /\ results' = Append(results, s) /\ K = place - 1
    BY <1>1 DEF AtNode, Advance, PlaceInv
<1>3. /\ results' \in Seq(Status) /\ Len(results') = K + 1
      /\ results'[K + 1] = s /\ \A j \in 1..K : results'[j] = results[j]
    BY <1>2
<1>4. \A j \in 1..place : results'[j] # "failed" /\ sorted[j] \in executed'
  <2>. TAKE j \in 1..place
  <2>1. j \in 1..K \/ (j = K + 1 /\ j = place)
      BY <1>2
  <2>2. \A i \in 1..K : results[i] # "failed" /\ sorted[i] \in executed
      BY <1>2 DEF PlaceInv
  <2>. QED BY <1>3, <2>1, <2>2 DEF Current
<1>5. place' \in 1..(Len(sorted') + 1) /\ place' - 1 = place /\ Len(results') = place
    BY <1>1, <1>2, <1>3
<1>6. ASSUME NEW n \in executed'
      PROVE  \E k \in DOMAIN sorted : k <= place' /\ sorted[k] = n
  <2>1. CASE n = Current
      BY <1>1, <1>2, <2>1 DEF Current
  <2>2. CASE n \in executed
    <3>1. PICK k \in DOMAIN sorted : k <= place /\ sorted[k] = n
        BY <2>2 DEF PlaceInv
    <3>2. k \in Nat /\ k <= place'
        BY <1>1, <1>2, <3>1
    <3>. QED BY <3>1, <3>2
  <2>. QED BY <1>6, <2>1, <2>2
<1>7. SortDone'
    BY <1>1, <1>2 DEF SortDone
<1>8. /\ place' - 1 <= Len(results') /\ (run' = "running" => Len(results') = place' - 1)
      /\ \A j \in 1..(place' - 1) : results'[j] # "failed" /\ sorted'[j] \in executed'
    BY <1>1, <1>2, <1>4, <1>5
<1>9. \A n \in executed' : \E k \in DOMAIN sorted' : k <= place' /\ sorted'[k] = n
    BY <1>1, <1>6
<1>. QED BY <1>2, <1>3, <1>5, <1>7, <1>8, <1>9 DEF PlaceInv

\* A failure is added behind the places passed, and ends the run.
LEMMA PlaceBreaksOff ==
  ASSUME SortInv, PlaceInv, AtNode, BreakOff, UNCHANGED sortVars
  PROVE  PlaceInv'
<1>. DEFINE K == Len(results)
<1>1. /\ place \in Nat /\ K \in Nat /\ K = place - 1
      /\ results \in Seq(Status)
      /\ \A j \in 1..K : results[j] # "failed" /\ sorted[j] \in executed
  <2>1. sorted \in Seq(Node) /\ Len(sorted) \in Nat
      BY DEF SortInv, SortTypeOK
  <2>2. place \in 1..(Len(sorted) + 1) /\ results \in Seq(Status)
      BY DEF PlaceInv
  <2>3. Len(results) = place - 1
      BY DEF PlaceInv, AtNode
  <2>. QED BY <2>1, <2>2, <2>3 DEF PlaceInv
<1>2. /\ results' = Append(results, "failed") /\ run' # "running"
      /\ place' = place /\ executed' = executed /\ result' = result
      /\ sorted' = sorted /\ queue' = queue
    BY DEF BreakOff, sortVars
<1>3. /\ results' \in Seq(Status) /\ Len(results') = K + 1
      /\ \A j \in 1..K : results'[j] = results[j]
    BY <1>1, <1>2 DEF Status
<1>4. /\ place' - 1 <= Len(results')
      /\ \A j \in 1..(place' - 1) : results'[j] # "failed" /\ sorted'[j] \in executed'
    BY <1>1, <1>2, <1>3
<1>. QED BY <1>2, <1>3, <1>4 DEF PlaceInv, SortDone, Current

\* An attempt that leaves the run where it is.
LEMMA PlaceStays ==
  ASSUME SortInv, PlaceInv, AtNode, UNCHANGED <<sortVars, place, results, run>>,
         executed' = executed \cup {Current}
  PROVE  PlaceInv'
<1>1. /\ sorted \in Seq(Node) /\ Len(sorted) \in Nat
      /\ sorted' = sorted /\ queue' = queue /\ SortDone
      /\ place \in 1..Len(sorted) /\ DOMAIN sorted = 1..Len(sorted)
    BY DEF SortInv, SortTypeOK, sortVars, AtNode, PlaceInv
<1>2. place' = place /\ results' = results /\ run' = run
    OBVIOUS
<1>3. ASSUME NEW n \in executed'
      PROVE  \E k \in DOMAIN sorted : k <= place /\ sorted[k] = n
  <2>1. CASE n = Current
      BY <1>1, <2>1 DEF Current
  <2>2. CASE n \in executed
      BY <2>2 DEF PlaceInv
  <2>. QED BY <1>3, <2>1, <2>2
<1>4. place' <= Len(sorted') /\ Current' \in executed'
    BY <1>1, <1>2 DEF Current
<1>. QED BY <1>1, <1>2, <1>3, <1>4 DEF PlaceInv, SortDone

LEMMA PlaceInRunner ==
  ASSUME SortInv, PlaceInv, RunnerNext, UNCHANGED sortVars
  PROVE  PlaceInv'
<1>1. CASE NoExecutor
    BY <1>1, PlaceBreaksOff DEF NoExecutor
<1>2. CASE Succeed
  <2>1. AtNode /\ executed' = executed \cup {Current} /\ run' = run
      BY <1>2 DEF Succeed
  <2>2. Advance("success") \/ (place' = place /\ results' = results)
      BY <1>2 DEF Succeed
  <2>3. "success" \in Status \ {"failed"}
      BY DEF Status
  <2>. QED BY <2>1, <2>2, <2>3, PlaceAdvances, PlaceStays
<1>3. CASE FailOrThrow
    BY <1>3, PlaceStays DEF FailOrThrow
<1>4. CASE OutOfTries
  <2>1. AtNode
      BY <1>4 DEF OutOfTries
  <2>2. CASE result \in {"success", "other"} /\ Advance(result)
             /\ UNCHANGED <<run, executed>>
    <3>1. result \in Status \ {"failed"}
        BY <2>2 DEF Status
    <3>2. executed' = executed \cup {Current}
        BY <2>2 DEF PlaceInv
    <3>. QED BY <2>1, <2>2, <3>1, <3>2, PlaceAdvances
  <2>3. CASE BreakOff
      BY <2>1, <2>3, PlaceBreaksOff
  <2>. QED BY <1>4, <2>2, <2>3 DEF OutOfTries
<1>5. CASE Complete
    BY <1>5 DEF Complete, PlaceInv, sortVars, SortDone, Current
<1>. QED BY <1>1, <1>2, <1>3, <1>4, <1>5 DEF RunnerNext

LEMMA PlaceInvariance == RunSpec => [](SortInv /\ SortedInOrder /\ PlaceInv)
<1>. DEFINE I == SortInv /\ SortedInOrder /\ PlaceInv
<1>1. ends \in Seq(Id \X Id) /\ SortInit /\ RunnerInit => I
  <2>. SUFFICES ASSUME ends \in Seq(Id \X Id), SortInit, RunnerInit  PROVE I
      OBVIOUS
  <2>1. SortInv /\ SortedInOrder
      BY InitSorts
  <2>2. PlaceInv
      BY DEF SortInit, RunnerInit, PlaceInv
  <2>. QED BY <2>1, <2>2
<1>2. I /\ [RunNext]_<<sortVars, runnerVars>> => I'
  <2>. SUFFICES ASSUME SortInv, SortedInOrder, PlaceInv,
                       [RunNext]_<<sortVars, runnerVars>>
                PROVE  I'
      OBVIOUS
  <2>1. CASE SortNext /\ UNCHANGED runnerVars
    <3>1. SortInv' /\ SortedInOrder'
        BY <2>1, DequeueSorts DEF SortNext
    <3>. QED BY <2>1, <3>1, PlaceInSort
  <2>2. CASE RunnerNext /\ UNCHANGED sortVars
      BY <2>2, SortRests, PlaceInRunner
  <2>3. CASE UNCHANGED <<sortVars, runnerVars>>
    <3>1. SortInv' /\ SortedInOrder'
        BY <2>3, SortRests
    <3>2. PlaceInv'
        BY <2>3 DEF PlaceInv, sortVars, runnerVars, SortDone, Current
    <3>. QED BY <3>1, <3>2
  <2>. QED BY <2>1, <2>2, <2>3 DEF RunNext
<1>. QED BY <1>1, <1>2, PTL DEF RunSpec

\* The sequential runner executes a node only after the source of every edge into it
\* has been, with a result that has not failed: for every graph, whatever fails,
\* throws or has no executor, whatever else a result may say, and however often the
\* callback makes it try again.
THEOREM RunnerKeepsOrder == RunSpec => []ExecutedAfterPredecessors
<1>1. ASSUME SortInv, SortedInOrder, PlaceInv  PROVE ExecutedAfterPredecessors
  <2>. SUFFICES ASSUME NEW n \in executed, NEW e \in Into(n)
                PROVE  /\ Source(e) \in executed
                       /\ \E j \in DOMAIN results :
                            sorted[j] = Source(e) /\ results[j] # "failed"
      BY DEF ExecutedAfterPredecessors
  <2>1. PICK k \in DOMAIN sorted : k <= place /\ sorted[k] = n
      BY <1>1 DEF PlaceInv
  <2>2. PICK j \in 1..(k - 1) : sorted[j] = Source(e)
      BY <1>1, <2>1 DEF SortedInOrder
  <2>3. sorted \in Seq(Node) /\ results \in Seq(Status)
        /\ place \in 1..(Len(sorted) + 1)
      BY <1>1 DEF SortInv, SortTypeOK, PlaceInv
  <2>4. Len(sorted) \in Nat /\ Len(results) \in Nat /\ place \in Nat /\ k \in Nat
      BY <2>3
  <2>5. j \in 1..(place - 1)
      BY <2>1, <2>4
  <2>6. results[j] # "failed" /\ sorted[j] \in executed /\ place - 1 <= Len(results)
      BY <1>1, <2>5 DEF PlaceInv
  <2>7. j \in 1..Len(results)
      BY <2>4, <2>5, <2>6
  <2>8. j \in DOMAIN results
      BY <2>3, <2>7
  <2>. QED BY <2>2, <2>6, <2>8
<1>. QED BY <1>1, PlaceInvariance, PTL

-----------------------------------------------------------------------------
(* validateWorkflow and the sort agree on what has a cycle *)

\* A set that supports itself is never entered: its first member would need
\* another before it.
LEMMA CircularIsLeftOut ==
  ASSUME SortInv, CircularInv, NEW n \in Id, Dequeue(n)
  PROVE  CircularInv'
<1>1. Sorted' = Sorted \cup ({n} \cap Node) /\ Open(n) = {} /\ ends' = ends
    BY SortedGrows DEF SortInv, Dequeue
<1>2. Id' = Id /\ \A m : Into(m)' = Into(m) /\ \A e : Source(e)' = Source(e)
    BY <1>1 DEF Into, Edge, Source, Target, Id
<1>3. SUFFICES ASSUME NEW S \in SUBSET Id, Circular(S)', n \in S
               PROVE  FALSE
  <2>1. \A S : Circular(S)' => Circular(S)
      BY <1>2 DEF Circular
  <2>. QED BY <1>1, <1>2, <2>1 DEF CircularInv
<1>4. Circular(S)
    BY <1>2, <1>3 DEF Circular
<1>5. PICK e \in Into(n) : Source(e) \in S
    BY <1>3, <1>4 DEF Circular
<1>6. Source(e) \in Sorted
    BY <1>1, <1>5 DEF Open
<1>. QED BY <1>4, <1>5, <1>6 DEF CircularInv

\* A set of numbers has a least one: the edge a call follows next.
LEMMA LeastExists ==
  ASSUME NEW S \in SUBSET Nat, S # {}
  PROVE  \E x \in S : \A y \in S : x <= y
<1>1. \E x \in S : \A y \in S : ~(<<y, x>> \in OpToRel(<, Nat))
    BY WFMin, NatLessThanWellFounded, Zenon
<1>2. \A x, y \in Nat : <<y, x>> \in OpToRel(<, Nat) <=> y < x
    BY Zenon DEF OpToRel
<1>3. PICK x \in S : \A y \in S : ~(y < x)
    BY <1>1, <1>2, Zenon
<1>. QED BY <1>3

\* Edges are numbered from 1.
LEMMA EdgesCount ==
  ASSUME SortTypeOK
  PROVE  Edge \subseteq Nat \ {0}
BY DEF SortTypeOK, Edge

\* What is said of the graph alone stays true while the graph does.
LEMMA GraphRests ==
  ASSUME ends' = ends
  PROVE  /\ Edge' = Edge /\ Id' = Id
         /\ \A e : Source(e)' = Source(e) /\ Target(e)' = Target(e)
         /\ \A m : Into(m)' = Into(m)
         /\ \A S : Circular(S)' <=> Circular(S)
<1>1. Edge' = Edge /\ Id' = Id /\ \A e : Source(e)' = Source(e) /\ Target(e)' = Target(e)
    BY DEF Edge, Id, Source, Target
<1>2. \A m : Into(m)' = Into(m)
    BY <1>1 DEF Into
<1>. QED BY <1>1, <1>2 DEF Circular

\* The frames as the steps use them.
LEMMA FramesFacts ==
  ASSUME LeftInv, frames # <<>>
  PROVE  /\ Len(frames) \in Nat \ {0} /\ DOMAIN frames = 1..Len(frames)
         /\ \A i \in 1..Len(frames) :
              frames[i].node \in Id /\ frames[i].edge \in Nat /\ frames[i].node \in inStack
         /\ Last(frames) = frames[Len(frames)]
<1>. DEFINE F == [node : Id, edge : Nat]
<1>1. frames \in Seq(F)
    BY DEF LeftInv, ValidatorTypeOK
<1>2. \A f \in F : f.node \in Id /\ f.edge \in Nat
    OBVIOUS
<1>3. inStack = {frames[i].node : i \in DOMAIN frames}
    BY DEF LeftInv, FramesInv
<1>. HIDE DEF F
<1>4. Len(frames) \in Nat \ {0} /\ DOMAIN frames = 1..Len(frames)
    BY <1>1, EmptySeq, LenProperties
<1>5. \A i \in 1..Len(frames) : frames[i] \in F
    BY <1>1
<1>. QED BY <1>2, <1>3, <1>4, <1>5 DEF Last

\* Following an edge moves the innermost call on, and nothing else in the frames.
LEMMA Moved ==
  ASSUME LeftInv, frames # <<>>, NEW x \in Nat,
         NEW moved, moved = [frames EXCEPT ![Len(frames)].edge = x + 1]
  PROVE  /\ moved \in Seq([node : Id, edge : Nat]) /\ Len(moved) = Len(frames)
         /\ \A i \in 1..Len(frames) : moved[i].node = frames[i].node
         /\ \A i \in 1..(Len(frames) - 1) : moved[i] = frames[i]
         /\ moved[Len(frames)].edge = x + 1
<1>. DEFINE F == [node : Id, edge : Nat]
            L == Len(frames)
            top == [frames[L] EXCEPT !.edge = x + 1]
<1>1. L \in Nat \ {0} /\ L \in 1..L /\ frames \in Seq(F)
    BY FramesFacts DEF LeftInv, ValidatorTypeOK
<1>2. frames[L] \in F
  <2>. HIDE DEF F
  <2>. QED BY <1>1, ElementOfSeq
<1>3. top \in F /\ top.edge = x + 1 /\ top.node = frames[L].node
  <2>1. x + 1 \in Nat
      OBVIOUS
  <2>. QED BY ONLY <1>2, <2>1
<1>4. moved = [frames EXCEPT ![L] = top]
    OBVIOUS
<1>. HIDE DEF F, top
<1>5. /\ moved \in Seq(F) /\ Len(moved) = L
      /\ \A i \in 1..L : moved[i] = IF i = L THEN top ELSE frames[i]
  <2>1. \A e \in F, i \in 1..L :
          /\ [frames EXCEPT ![i] = e] \in Seq(F)
          /\ Len([frames EXCEPT ![i] = e]) = L
          /\ \A j \in 1..L : [frames EXCEPT ![i] = e][j] = IF j = i THEN e ELSE frames[j]
      BY <1>1, ExceptSeq
  <2>. QED BY <1>1, <1>3, <1>4, <2>1
<1>6. \A i \in 1..L : moved[i].node = frames[i].node
    BY <1>3, <1>5
<1>7. \A i \in 1..(L - 1) : moved[i] = frames[i]
    BY <1>1, <1>5
<1>8. moved[L].edge = x + 1
    BY <1>1, <1>3, <1>5
<1>. QED BY <1>5, <1>6, <1>7, <1>8 DEF F

\* A new root: the stack is empty, and what has been left stays as it is.
LEMMA RootKeepsLeft ==
  ASSUME SortTypeOK, LeftInv, NextRoot, ends' = ends
  PROVE  LeftInv'
<1>. DEFINE n == NodeOrder[root]
            F == [node : Id, edge : Nat]
<1>1. /\ verdict = "working" /\ frames = <<>> /\ verdict' = verdict
      /\ root \in 1..Len(NodeOrder) /\ Len(NodeOrder) \in Nat
    BY NodeOrderAssumption DEF NextRoot, LeftInv, ValidatorTypeOK
<1>2. n \in Node /\ n \in Id
    BY <1>1, NodeOrderAssumption DEF Id
<1>3. inStack = {}
    BY <1>1 DEF LeftInv, FramesInv
<1>4. /\ visited \subseteq Id
      /\ \A i \in 1..(root - 1) : NodeOrder[i] \in visited
      /\ \A e \in Edge : Source(e) \in Left => Target(e) \in Left
      /\ \A S \in SUBSET Left : Circular(S) => S = {}
    BY DEF LeftInv, ValidatorTypeOK
<1>5. CASE n \in visited
  <2>1. root' = root + 1 /\ UNCHANGED <<visited, inStack, frames>>
      BY <1>5 DEF NextRoot
  <2>2. \A i \in 1..(root' - 1) : NodeOrder[i] \in visited
    <3>. TAKE i \in 1..(root' - 1)
    <3>1. i \in 1..(root - 1) \/ i = root
        BY <1>1, <2>1
    <3>. QED BY <1>4, <1>5, <3>1
  <2>3. ValidatorTypeOK'
      BY <1>1, <2>1, GraphRests DEF LeftInv, ValidatorTypeOK
  <2>4. FramesInv'
      BY <1>1, <1>3, <2>1 DEF FramesInv
  <2>5. Left' = Left
      BY <2>1 DEF Left
  <2>. QED BY <1>1, <1>4, <2>1, <2>2, <2>3, <2>4, <2>5, GraphRests DEF LeftInv
<1>6. CASE n \notin visited
  <2>1. /\ visited' = visited \cup {n} /\ inStack' = {n} /\ root' = root
        /\ frames' = <<[node |-> n, edge |-> 1]>>
      BY <1>3, <1>6 DEF NextRoot, Call
  <2>2. /\ frames' \in Seq(F) /\ Len(frames') = 1 /\ DOMAIN frames' = {1}
        /\ frames'[1].node = n /\ frames'[1].edge = 1
      BY <1>2, <2>1
  <2>3. Left' = Left
      BY <1>3, <1>6, <2>1 DEF Left
  <2>4. ValidatorTypeOK'
      BY <1>1, <1>2, <1>4, <2>1, <2>2, GraphRests DEF LeftInv, ValidatorTypeOK
  <2>5. FramesInv'
    <3>1. inStack' = {frames'[i].node : i \in DOMAIN frames'}
        BY <2>1, <2>2
    <3>2. \A e \in Edge : ~(e < 1)
        BY EdgesCount
    <3>. QED BY <2>2, <3>1, <3>2, GraphRests DEF FramesInv
  <2>6. \A i \in 1..(root' - 1) : NodeOrder[i] \in visited'
      BY <1>4, <2>1
  <2>. QED BY <1>1, <1>4, <2>1, <2>3, <2>4, <2>5, <2>6, GraphRests DEF LeftInv
<1>. QED BY <1>5, <1>6

\* Of a target on the stack, the frames from there to the innermost call are circular.
LEMMA StackIsCircular ==
  ASSUME LeftInv, frames # <<>>, NEW e \in Edge,
         Source(e) = Last(frames).node, Target(e) \in inStack
  PROVE  \E S \in SUBSET Id : S # {} /\ Circular(S)
<1>. DEFINE L == Len(frames)
<1>1. /\ L \in Nat \ {0} /\ DOMAIN frames = 1..L
      /\ \A i \in 1..L : frames[i].node \in Id
      /\ Last(frames) = frames[L]
    BY FramesFacts
<1>2. PICK k \in 1..L : frames[k].node = Target(e)
    BY <1>1 DEF LeftInv, FramesInv
<1>. DEFINE S == {frames[i].node : i \in k..L}
<1>3. S \in SUBSET Id /\ S # {}
    BY <1>1
<1>4. ASSUME NEW i \in k..L
      PROVE  \E d \in Into(frames[i].node) : Source(d) \in S
  <2>1. CASE i = k
    <3>1. e \in Into(frames[i].node)
        BY <1>2, <2>1 DEF Into
    <3>2. Source(e) \in S
        BY <1>1
    <3>. QED BY <3>1, <3>2
  <2>2. CASE i # k
    <3>1. i - 1 \in 1..(L - 1) /\ i - 1 \in k..L /\ (i - 1) + 1 = i
        BY <1>1, <2>2
    <3>2. \A j \in 1..(L - 1) :
            \E d \in Into(frames[j + 1].node) : Source(d) = frames[j].node
        BY DEF LeftInv, FramesInv
    <3>3. PICK d \in Into(frames[i].node) : Source(d) = frames[i - 1].node
        BY <3>1, <3>2
    <3>. QED BY <3>1, <3>3
  <2>. QED BY <2>1, <2>2
<1>5. Circular(S)
    BY <1>4 DEF Circular
<1>. QED BY <1>3, <1>5

\* A target that is new is called: the frames grow by it.
LEMMA CallKeepsFrames ==
  ASSUME SortTypeOK, LeftInv, frames # <<>>, ends' = ends, NEW e \in Outgoing,
         \A y \in Outgoing : e <= y, Target(e) \notin visited,
         NEW moved, moved = [frames EXCEPT ![Len(frames)].edge = e + 1],
         frames' = Append(moved, [node |-> Target(e), edge |-> 1]),
         Call(Target(e))
  PROVE  frames' \in Seq([node : Id, edge : Nat]) /\ FramesInv' /\ Left' = Left
<1>. DEFINE L == Len(frames)
            t == Target(e)
            F == [node : Id, edge : Nat]
            new == [node |-> t, edge |-> 1]
<1>1. /\ L \in Nat \ {0} /\ DOMAIN frames = 1..L
      /\ \A i \in 1..L : frames[i].node \in Id /\ frames[i].node \in inStack
      /\ Last(frames) = frames[L]
    BY FramesFacts
<1>2. /\ e \in Edge /\ e \in Nat \ {0} /\ t \in Id
      /\ Source(e) = frames[L].node /\ inStack \subseteq visited
    BY <1>1, EdgeFacts, EdgesCount DEF Outgoing, LeftInv, ValidatorTypeOK
<1>3. /\ moved \in Seq(F) /\ Len(moved) = L
      /\ \A i \in 1..L : moved[i].node = frames[i].node
      /\ \A i \in 1..(L - 1) : moved[i] = frames[i]
      /\ moved[L].edge = e + 1
    BY <1>2, Moved
<1>4. new \in F /\ new.node = t /\ new.edge = 1
    BY <1>2
<1>5. /\ frames' \in Seq(F) /\ Len(frames') = L + 1
      /\ \A i \in 1..L : frames'[i] = moved[i]
      /\ frames'[L + 1] = new
  <2>1. frames' = Append(moved, new)
      OBVIOUS
  <2>. HIDE DEF F, L, new
  <2>2. /\ Append(moved, new) \in Seq(F)
        /\ Len(Append(moved, new)) = Len(moved) + 1
        /\ \A i \in 1..Len(moved) : Append(moved, new)[i] = moved[i]
        /\ Append(moved, new)[Len(moved) + 1] = new
      BY <1>3, <1>4, AppendProperties
  <2>3. Len(moved) = L
      BY <1>3
  <2>. QED BY <2>1, <2>2, <2>3
<1>. HIDE DEF F, L, new
<1>6. /\ DOMAIN frames' = 1..(L + 1)
      /\ \A i \in 1..L : frames'[i].node = frames[i].node
      /\ frames'[L + 1].node = t /\ frames'[L + 1].edge = 1
      /\ \A i \in 1..(L - 1) : frames'[i].edge = frames[i].edge
      /\ frames'[L].edge = e + 1
  <2>1. L \in Nat \ {0} /\ DOMAIN frames' = 1..(L + 1)
      BY <1>1, <1>5, LenProperties
  <2>2. L \in 1..L /\ \A i \in 1..(L - 1) : i \in 1..L
      BY <2>1
  <2>. QED BY <1>3, <1>4, <1>5, <2>1, <2>2
<1>7. visited' = visited \cup {t} /\ inStack' = inStack \cup {t} /\ t \notin inStack
    BY <1>2 DEF Call
<1>8. Left' = Left
    BY <1>7 DEF Left
<1>9. /\ inStack = {frames[i].node : i \in 1..L}
      /\ \A i, j \in 1..L : frames[i].node = frames[j].node => i = j
      /\ \A i \in 1..(L - 1) :
           \E d \in Into(frames[i + 1].node) : Source(d) = frames[i].node
      /\ \A i \in 1..L : \A d \in Edge : Source(d) = frames[i].node /\ d < frames[i].edge =>
           \/ Target(d) \in Left
           \/ i < L /\ Target(d) = frames[i + 1].node
    BY <1>1 DEF LeftInv, FramesInv, L
<1>10. \A i \in 1..(L + 1) : i \in 1..L \/ i = L + 1
    BY <1>1
<1>. HIDE DEF t
<1>11. inStack' = {frames'[i].node : i \in 1..(L + 1)}
  <2>1. ASSUME NEW n \in inStack'  PROVE \E i \in 1..(L + 1) : frames'[i].node = n
      BY <1>1, <1>6, <1>7, <1>9
  <2>2. ASSUME NEW i \in 1..(L + 1)  PROVE frames'[i].node \in inStack'
      BY <1>1, <1>6, <1>7, <1>10
  <2>. QED BY <2>1, <2>2
<1>12. ASSUME NEW i \in 1..(L + 1), NEW j \in 1..(L + 1), frames'[i].node = frames'[j].node
       PROVE  i = j
    BY <1>1, <1>6, <1>7, <1>9, <1>10, <1>12
<1>13. ASSUME NEW i \in 1..L
       PROVE  \E d \in Into(frames'[i + 1].node) : Source(d) = frames'[i].node
  <2>1. CASE i = L
    <3>1. e \in Into(t)
        BY <1>2 DEF Into, t
    <3>. QED BY <1>1, <1>2, <1>6, <2>1, <3>1
  <2>2. CASE i # L
    <3>1. i \in 1..(L - 1) /\ i + 1 \in 1..L
        BY <1>1, <2>2
    <3>2. PICK d \in Into(frames[i + 1].node) : Source(d) = frames[i].node
        BY <1>9, <3>1
    <3>3. frames'[i + 1].node = frames[i + 1].node /\ frames'[i].node = frames[i].node
        BY <1>6, <3>1
    <3>. QED BY <3>2, <3>3
  <2>. QED BY <2>1, <2>2
<1>14. ASSUME NEW i \in 1..(L + 1), NEW d \in Edge,
              Source(d) = frames'[i].node, d < frames'[i].edge
       PROVE  \/ Target(d) \in Left
              \/ i < L + 1 /\ Target(d) = frames'[i + 1].node
  <2>0. d \in Nat \ {0}
      BY EdgesCount
  <2>1. CASE i = L + 1
      BY <1>6, <1>14, <2>0, <2>1
  <2>2. CASE i = L
    <3>1. Source(d) = frames[L].node /\ d < e + 1
        BY <1>1, <1>6, <1>14, <2>2
    <3>2. CASE d = e
        BY <1>1, <1>6, <2>2, <3>2 DEF t
    <3>3. CASE d # e
      <4>1. d < e
          BY <1>2, <2>0, <3>1, <3>3
      <4>2. d \notin Outgoing
          BY <1>2, <2>0, <4>1
      <4>3. ~(d >= frames[L].edge)
          BY <1>1, <3>1, <4>2 DEF Outgoing
      <4>4. d < frames[L].edge
          BY <1>1, <2>0, <4>3, FramesFacts DEF L
      <4>. QED BY <1>1, <1>9, <3>1, <4>4
    <3>. QED BY <3>2, <3>3
  <2>3. CASE i \in 1..(L - 1)
    <3>1. i \in 1..L /\ i + 1 \in 1..L /\ i < L + 1
        BY <1>1, <2>3
    <3>2. frames'[i].node = frames[i].node /\ frames'[i].edge = frames[i].edge
          /\ frames'[i + 1].node = frames[i + 1].node
        BY <1>6, <2>3, <3>1
    <3>. QED BY <1>9, <1>14, <3>1, <3>2
  <2>. QED BY <1>1, <2>1, <2>2, <2>3
<1>15. (L + 1) - 1 = L /\ Len(frames') = L + 1 /\ DOMAIN frames' = 1..(L + 1)
    BY <1>1, <1>5, <1>6
<1>16. FramesInv'
  <2>1. (inStack = {frames[i].node : i \in DOMAIN frames})'
      BY <1>11, <1>15
  <2>2. (\A i, j \in DOMAIN frames : frames[i].node = frames[j].node => i = j)'
      BY <1>12, <1>15
  <2>3. (\A i \in 1..(Len(frames) - 1) :
          \E d \in Into(frames[i + 1].node) : Source(d) = frames[i].node)'
    <3>1. \A i \in 1..L : \E d \in Edge :
            Target(d) = frames'[i + 1].node /\ Source(d) = frames'[i].node
        BY <1>13 DEF Into
    <3>2. 1..(Len(frames') - 1) = 1..L
        BY <1>15
    <3>3. /\ Edge' = Edge
          /\ \A d : Target(d)' = Target(d) /\ Source(d)' = Source(d)
        BY GraphRests
    <3>4. \A i \in 1..(Len(frames') - 1) : \E d \in Edge' :
            Target(d)' = frames'[i + 1].node /\ Source(d)' = frames'[i].node
        BY ONLY <3>1, <3>2, <3>3
    <3>. QED BY <3>4 DEF Into
  <2>4. (\A i \in DOMAIN frames : \A d \in Edge :
          Source(d) = frames[i].node /\ d < frames[i].edge =>
             \/ Target(d) \in Left
             \/ i < Len(frames) /\ Target(d) = frames[i + 1].node)'
      BY <1>8, <1>14, <1>15, GraphRests
  <2>. QED BY <2>1, <2>2, <2>3, <2>4 DEF FramesInv
<1>. QED BY <1>5, <1>8, <1>16 DEF F

\* A target that has been left: the call only moves on.
LEMMA PassKeepsFrames ==
  ASSUME SortTypeOK, LeftInv, frames # <<>>, ends' = ends, NEW e \in Outgoing,
         \A y \in Outgoing : e <= y, Target(e) \in Left,
         frames' = [frames EXCEPT ![Len(frames)].edge = e + 1],
         UNCHANGED <<visited, inStack>>
  PROVE  frames' \in Seq([node : Id, edge : Nat]) /\ FramesInv' /\ Left' = Left
<1>. DEFINE L == Len(frames)
<1>1. /\ L \in Nat \ {0} /\ DOMAIN frames = 1..L
      /\ Last(frames) = frames[L] /\ \A i \in 1..L : frames[i].edge \in Nat
    BY FramesFacts
<1>2. e \in Edge /\ e \in Nat \ {0}
    BY EdgesCount DEF Outgoing
<1>3. /\ frames' \in Seq([node : Id, edge : Nat]) /\ Len(frames') = L
      /\ \A i \in 1..L : frames'[i].node = frames[i].node
      /\ \A i \in 1..(L - 1) : frames'[i] = frames[i]
      /\ frames'[L].edge = e + 1
    BY <1>2, Moved
<1>4. DOMAIN frames' = 1..L
    BY <1>3, LenProperties
<1>5. Left' = Left
    BY DEF Left
<1>6. /\ inStack = {frames[i].node : i \in 1..L}
      /\ \A i, j \in 1..L : frames[i].node = frames[j].node => i = j
      /\ \A i \in 1..(L - 1) :
           \E d \in Into(frames[i + 1].node) : Source(d) = frames[i].node
      /\ \A i \in 1..L : \A d \in Edge : Source(d) = frames[i].node /\ d < frames[i].edge =>
           \/ Target(d) \in Left
           \/ i < L /\ Target(d) = frames[i + 1].node
    BY <1>1 DEF LeftInv, FramesInv
<1>. HIDE DEF L
<1>7. ASSUME NEW i \in 1..L, NEW d \in Edge,
             Source(d) = frames'[i].node, d < frames'[i].edge
      PROVE  \/ Target(d) \in Left
             \/ i < L /\ Target(d) = frames'[i + 1].node
  <2>0. d \in Nat \ {0}
      BY EdgesCount
  <2>1. CASE i = L
    <3>1. Source(d) = frames[L].node /\ d < e + 1
        BY <1>1, <1>3, <1>7, <2>1
    <3>2. CASE d = e
        BY <3>2
    <3>3. CASE d # e
      <4>1. d < e
          BY <1>2, <2>0, <3>1, <3>3
      <4>2. d \notin Outgoing
          BY <1>2, <2>0, <4>1
      <4>3. ~(d >= frames[L].edge)
          BY <1>1, <3>1, <4>2 DEF Outgoing
      <4>4. d < frames[L].edge
          BY <1>1, <2>0, <4>3
      <4>. QED BY <1>1, <1>6, <3>1, <4>4
    <3>. QED BY <3>2, <3>3
  <2>2. CASE i \in 1..(L - 1)
    <3>1. i + 1 \in 1..L /\ i \in 1..L
        BY <1>1, <2>2
    <3>2. frames'[i] = frames[i] /\ frames'[i + 1].node = frames[i + 1].node
        BY <1>3, <2>2, <3>1
    <3>. QED BY <1>6, <1>7, <3>1, <3>2
  <2>. QED BY <1>1, <2>1, <2>2
<1>8. FramesInv'
  <2>1. (inStack = {frames[i].node : i \in DOMAIN frames})'
      BY <1>3, <1>4, <1>6
  <2>2. (\A i, j \in DOMAIN frames : frames[i].node = frames[j].node => i = j)'
      BY <1>3, <1>4, <1>6
  <2>3. (\A i \in 1..(Len(frames) - 1) :
          \E d \in Into(frames[i + 1].node) : Source(d) = frames[i].node)'
    <3>1. \A i \in 1..(L - 1) : i + 1 \in 1..L /\ i \in 1..L
        BY <1>1
    <3>2. \A i \in 1..(L - 1) : \E d \in Edge :
            Target(d) = frames'[i + 1].node /\ Source(d) = frames'[i].node
        BY <1>3, <1>6, <3>1 DEF Into
    <3>3. \A i \in 1..(L - 1) : \E d \in Edge' :
            Target(d)' = frames'[i + 1].node /\ Source(d)' = frames'[i].node
        BY <3>2, GraphRests
    <3>4. Len(frames') = L
        BY <1>3
    <3>. QED BY <3>3, <3>4 DEF Into
  <2>4. (\A i \in DOMAIN frames : \A d \in Edge :
          Source(d) = frames[i].node /\ d < frames[i].edge =>
             \/ Target(d) \in Left
             \/ i < Len(frames) /\ Target(d) = frames[i + 1].node)'
      BY <1>3, <1>4, <1>5, <1>7, GraphRests
  <2>. QED BY <2>1, <2>2, <2>3, <2>4 DEF FramesInv
<1>. QED BY <1>3, <1>5, <1>8

LEMMA FollowKeepsLeft ==
  ASSUME SortTypeOK, LeftInv, Follow, ends' = ends
  PROVE  LeftInv'
<1>1. /\ verdict = "working" /\ frames # <<>> /\ Outgoing # {} /\ root' = root
    BY DEF Follow
<1>. DEFINE e == CHOOSE x \in Outgoing : \A y \in Outgoing : x <= y
            moved == [frames EXCEPT ![Len(frames)].edge = e + 1]
<1>2. Outgoing \in SUBSET Nat
    BY EdgesCount DEF Outgoing
<1>3. e \in Outgoing /\ \A y \in Outgoing : e <= y
    BY <1>1, <1>2, LeastExists
<1>4. /\ \/ Target(e) \in inStack /\ verdict' = "cycle"
            /\ UNCHANGED <<visited, inStack, frames>>
         \/ Target(e) \in visited \ inStack /\ frames' = moved
            /\ UNCHANGED <<visited, inStack, verdict>>
         \/ Target(e) \notin visited /\ Call(Target(e))
            /\ frames' = Append(moved, [node |-> Target(e), edge |-> 1])
            /\ verdict' = verdict
    BY DEF Follow
<1>. HIDE DEF e
<1>5. /\ e \in Edge /\ Source(e) = Last(frames).node /\ Target(e) \in Id
      /\ root \in 1..(Len(NodeOrder) + 1)
      /\ visited \subseteq Id /\ inStack \subseteq visited
      /\ \A i \in 1..(root - 1) : NodeOrder[i] \in visited
      /\ \A d \in Edge : Source(d) \in Left => Target(d) \in Left
      /\ \A S \in SUBSET Left : Circular(S) => S = {}
    BY <1>3, EdgeFacts DEF Outgoing, LeftInv, ValidatorTypeOK
<1>6. CASE Target(e) \in inStack /\ verdict' = "cycle"
           /\ UNCHANGED <<visited, inStack, frames>>
  <2>1. \E S \in SUBSET Id : S # {} /\ Circular(S)
      BY <1>1, <1>5, <1>6, StackIsCircular
  <2>2. Left' = Left
      BY <1>6 DEF Left
  <2>3. ValidatorTypeOK'
      BY <1>1, <1>6, GraphRests DEF LeftInv, ValidatorTypeOK
  <2>4. FramesInv'
      BY <1>6, <2>2 DEF LeftInv, FramesInv, Into, Edge, Source, Target
  <2>. QED BY <1>1, <1>5, <1>6, <2>1, <2>2, <2>3, <2>4, GraphRests DEF LeftInv
<1>7. CASE Target(e) \in visited \ inStack /\ frames' = moved
           /\ UNCHANGED <<visited, inStack, verdict>>
  <2>1. Target(e) \in Left
      BY <1>7 DEF Left
  <2>2. frames' \in Seq([node : Id, edge : Nat]) /\ FramesInv' /\ Left' = Left
      BY <1>1, <1>3, <1>7, <2>1, PassKeepsFrames
  <2>3. ValidatorTypeOK'
      BY <1>1, <1>5, <1>7, <2>2, GraphRests DEF ValidatorTypeOK
  <2>. QED BY <1>1, <1>5, <1>7, <2>2, <2>3, GraphRests DEF LeftInv
<1>8. CASE Target(e) \notin visited /\ Call(Target(e))
           /\ frames' = Append(moved, [node |-> Target(e), edge |-> 1])
           /\ verdict' = verdict
  <2>1. frames' \in Seq([node : Id, edge : Nat]) /\ FramesInv' /\ Left' = Left
      BY <1>1, <1>3, <1>8, CallKeepsFrames
  <2>2. visited' = visited \cup {Target(e)} /\ inStack' = inStack \cup {Target(e)}
      BY <1>8 DEF Call
  <2>3. ValidatorTypeOK'
      BY <1>1, <1>5, <1>8, <2>1, <2>2, GraphRests DEF ValidatorTypeOK
  <2>4. \A i \in 1..(root' - 1) : NodeOrder[i] \in visited'
      BY <1>1, <1>5, <2>2
  <2>. QED BY <1>1, <1>5, <1>8, <2>1, <2>3, <2>4, GraphRests DEF LeftInv
<1>. QED BY <1>4, <1>6, <1>7, <1>8

\* A call that returns false leaves its node among those that are closed under the
\* edges; nothing that has been left leads back to it.
LEMMA ReturnKeepsLeft ==
  ASSUME SortTypeOK, LeftInv, Return, ends' = ends
  PROVE  LeftInv'
<1>. DEFINE L == Len(frames)
            m == frames[L].node
            F == [node : Id, edge : Nat]
<1>1. /\ verdict = "working" /\ frames # <<>> /\ Outgoing = {}
      /\ root' = root /\ visited' = visited /\ verdict' = verdict
      /\ frames' = Front(frames) /\ inStack' = inStack \ {Last(frames).node}
    BY DEF Return
<1>2. /\ L \in Nat \ {0} /\ DOMAIN frames = 1..L
      /\ Last(frames) = frames[L]
      /\ \A i \in 1..L : frames[i].edge \in Nat /\ frames[i].node \in inStack
    BY <1>1, FramesFacts
<1>3. frames \in Seq(F) /\ \A i \in 1..(L - 1) : frames[i] \in F
  <2>1. frames \in Seq(F)
      BY DEF LeftInv, ValidatorTypeOK
  <2>2. \A i \in 1..(L - 1) : i \in 1..L
      BY <1>2
  <2>. HIDE DEF F
  <2>. QED BY <2>1, <2>2, ElementOfSeq
<1>4. /\ frames' \in Seq(F) /\ Len(frames') = L - 1 /\ DOMAIN frames' = 1..(L - 1)
      /\ \A i \in 1..(L - 1) : frames'[i] = frames[i]
  <2>. DEFINE cut == SubSeq(frames, 1, L - 1)
  <2>1. frames' = cut
      BY <1>1 DEF Front
  <2>. HIDE DEF F
  <2>2. 1 \in Int /\ L - 1 \in Int
      BY <1>2
  <2>3. /\ cut \in Seq(F) /\ Len(cut) = IF 1 <= L - 1 THEN (L - 1) - 1 + 1 ELSE 0
        /\ \A i \in 1..((L - 1) - 1 + 1) : cut[i] = frames[1 + i - 1]
      BY <1>3, <2>2, SubSeqProperties
  <2>. HIDE DEF cut, L
  <2>4. Len(cut) = L - 1 /\ (L - 1) - 1 + 1 = L - 1 /\ \A i \in 1..(L - 1) : 1 + i - 1 = i
      BY <1>2, <2>3
  <2>5. \A i \in 1..(L - 1) : cut[i] = frames[i]
      BY <2>3, <2>4
  <2>6. DOMAIN cut = 1..(L - 1)
      BY <2>3, <2>4, LenProperties
  <2>. QED BY <2>1, <2>3, <2>4, <2>5, <2>6
<1>. HIDE DEF L, F, m
<1>5. /\ inStack = {frames[i].node : i \in 1..L}
      /\ \A i, j \in 1..L : frames[i].node = frames[j].node => i = j
      /\ \A i \in 1..(L - 1) :
           \E d \in Into(frames[i + 1].node) : Source(d) = frames[i].node
      /\ \A i \in 1..L : \A d \in Edge : Source(d) = frames[i].node /\ d < frames[i].edge =>
           \/ Target(d) \in Left
           \/ i < L /\ Target(d) = frames[i + 1].node
    BY <1>2 DEF LeftInv, FramesInv, L
<1>6. /\ root \in 1..(Len(NodeOrder) + 1)
      /\ visited \subseteq Id /\ inStack \subseteq visited
      /\ \A i \in 1..(root - 1) : NodeOrder[i] \in visited
      /\ \A d \in Edge : Source(d) \in Left => Target(d) \in Left
      /\ \A S \in SUBSET Left : Circular(S) => S = {}
    BY DEF LeftInv, ValidatorTypeOK
<1>7. L \in 1..L /\ m = frames[L].node /\ m \in inStack /\ m \notin Left
    BY <1>2 DEF m, Left
<1>8. Left' = Left \cup {m} /\ inStack' = inStack \ {m}
    BY <1>1, <1>2, <1>6, <1>7 DEF Left
<1>9. ASSUME NEW d \in Edge, Source(d) = m  PROVE Target(d) \in Left
  <2>1. d \in Nat \ {0} /\ frames[L].edge \in Nat
      BY <1>2, <1>7, EdgesCount
  <2>2. ~(d >= frames[L].edge)
      BY <1>1, <1>2, <1>7, <1>9 DEF Outgoing
  <2>3. d < frames[L].edge /\ ~(L < L)
      BY <1>2, <2>1, <2>2
  <2>. QED BY <1>5, <1>7, <1>9, <2>3
<1>10. \A d \in Edge : Source(d) \in Left' => Target(d) \in Left'
    BY <1>6, <1>8, <1>9
<1>11. ASSUME NEW S \in SUBSET Left', Circular(S)  PROVE S = {}
  <2>1. m \notin S
    <3>. SUFFICES ASSUME m \in S  PROVE FALSE
        OBVIOUS
    <3>1. PICK d \in Into(m) : Source(d) \in S
        BY <1>11 DEF Circular
    <3>2. d \in Edge /\ Target(d) = m
        BY DEF Into
    <3>3. Target(d) \in Left
        BY <1>6, <1>8, <1>9, <3>1, <3>2
    <3>. QED BY <1>7, <3>2, <3>3
  <2>. QED BY <1>6, <1>8, <1>11, <2>1
<1>12. FramesInv'
  <2>1. \A i \in 1..(L - 1) : i \in 1..L /\ i # L /\ i < L /\ i + 1 \in 1..L
      BY <1>2
  <2>2. (inStack = {frames[i].node : i \in DOMAIN frames})'
    <3>1. \A i \in 1..L : i \in 1..(L - 1) \/ i = L
        BY <1>2
    <3>2. inStack' = {frames[i].node : i \in 1..(L - 1)}
        BY <1>5, <1>7, <1>8, <2>1, <3>1
    <3>. QED BY <1>4, <3>2
  <2>3. (\A i, j \in DOMAIN frames : frames[i].node = frames[j].node => i = j)'
      BY <1>4, <1>5, <2>1
  <2>4. (\A i \in 1..(Len(frames) - 1) :
          \E d \in Into(frames[i + 1].node) : Source(d) = frames[i].node)'
    <3>1. \A i \in 1..((L - 1) - 1) : i \in 1..(L - 1) /\ i + 1 \in 1..(L - 1)
        BY <1>2
    <3>2. \A i \in 1..((L - 1) - 1) : \E d \in Edge :
            Target(d) = frames'[i + 1].node /\ Source(d) = frames'[i].node
        BY <1>4, <1>5, <3>1 DEF Into
    <3>3. \A i \in 1..((L - 1) - 1) : \E d \in Edge' :
            Target(d)' = frames'[i + 1].node /\ Source(d)' = frames'[i].node
        BY <3>2, GraphRests
    <3>4. Len(frames') = L - 1
        BY <1>4
    <3>. QED BY <3>3, <3>4 DEF Into
  <2>5. (\A i \in DOMAIN frames : \A d \in Edge :
          Source(d) = frames[i].node /\ d < frames[i].edge =>
             \/ Target(d) \in Left
             \/ i < Len(frames) /\ Target(d) = frames[i + 1].node)'
    <3>1. ASSUME NEW i \in 1..(L - 1), NEW d \in Edge,
                 Source(d) = frames'[i].node, d < frames'[i].edge
          PROVE  \/ Target(d) \in Left'
                 \/ i < L - 1 /\ Target(d) = frames'[i + 1].node
      <4>1. Target(d) \in Left \/ Target(d) = frames[i + 1].node
          BY <1>4, <1>5, <2>1, <3>1
      <4>2. CASE Target(d) \in Left
          BY <1>8, <4>2
      <4>3. CASE Target(d) = frames[i + 1].node /\ i + 1 = L
          BY <1>7, <1>8, <4>3
      <4>4. CASE Target(d) = frames[i + 1].node /\ i + 1 # L
        <5>1. i < L - 1 /\ i + 1 \in 1..(L - 1)
            BY <1>2, <4>4
        <5>. QED BY <1>4, <4>4, <5>1
      <4>. QED BY <4>1, <4>2, <4>3, <4>4
    <3>. QED BY <1>4, <3>1, GraphRests
  <2>. QED BY <2>2, <2>3, <2>4, <2>5 DEF FramesInv
<1>13. ValidatorTypeOK'
  <2>1. inStack' \subseteq visited'
      BY <1>1, <1>6, <1>8
  <2>2. frames' \in Seq([node : Id', edge : Nat])
      BY <1>4, GraphRests DEF F
  <2>. QED BY <1>1, <1>6, <2>1, <2>2, GraphRests DEF ValidatorTypeOK
<1>14. \A S \in SUBSET Left' : Circular(S)' => S = {}
    BY <1>11, GraphRests
<1>15. \A d \in Edge' : Source(d)' \in Left' => Target(d)' \in Left'
    BY <1>10, GraphRests
<1>. QED BY <1>1, <1>6, <1>12, <1>13, <1>14, <1>15 DEF LeftInv

LEMMA AcceptKeepsLeft ==
  ASSUME LeftInv, Accept, ends' = ends
  PROVE  LeftInv'
<1>1. /\ verdict' = "acyclic" /\ frames = <<>> /\ root > Len(NodeOrder)
      /\ UNCHANGED <<root, visited, inStack, frames>>
    BY DEF Accept
<1>2. Left' = Left
    BY <1>1 DEF Left
<1>3. ValidatorTypeOK'
    BY <1>1, GraphRests DEF LeftInv, ValidatorTypeOK
<1>4. FramesInv'
    BY <1>1, <1>2 DEF LeftInv, FramesInv, Into, Edge, Source, Target
<1>. QED BY <1>1, <1>2, <1>3, <1>4, GraphRests DEF LeftInv

\* A turn of the sort, or no step at all, leaves the validator where it is.
LEMMA LeftRests ==
  ASSUME LeftInv, ends' = ends, UNCHANGED validatorVars
  PROVE  LeftInv'
<1>1. UNCHANGED <<root, visited, inStack, frames, verdict>>
    BY DEF validatorVars
<1>2. Left' = Left
    BY <1>1 DEF Left
<1>3. ValidatorTypeOK'
    BY <1>1, GraphRests DEF LeftInv, ValidatorTypeOK
<1>4. FramesInv'
    BY <1>1, <1>2 DEF LeftInv, FramesInv, Into, Edge, Source, Target
<1>. QED BY <1>1, <1>2, <1>3, <1>4, GraphRests DEF LeftInv

LEMMA CircularRests ==
  ASSUME CircularInv, UNCHANGED sortVars
  PROVE  CircularInv'
BY GraphRests DEF CircularInv, Sorted, sortVars

LEMMA CompareInvariance ==
  CompareSpec => [](SortInv /\ SortedInOrder /\ CircularInv /\ LeftInv)
<1>. DEFINE I == SortInv /\ SortedInOrder /\ CircularInv /\ LeftInv
<1>1. ends \in Seq(Id \X Id) /\ SortInit /\ ValidatorInit => I
  <2>. SUFFICES ASSUME ends \in Seq(Id \X Id), SortInit, ValidatorInit  PROVE I
      OBVIOUS
  <2>1. SortInv /\ SortedInOrder
      BY InitSorts
  <2>2. CircularInv
      BY DEF CircularInv, SortInit, Sorted
  <2>3. Left = {} /\ ValidatorTypeOK
      BY NodeOrderAssumption DEF ValidatorInit, Left, ValidatorTypeOK
  <2>4. FramesInv
      BY DEF ValidatorInit, FramesInv
  <2>5. LeftInv
      BY <2>3, <2>4 DEF LeftInv, ValidatorInit
  <2>. QED BY <2>1, <2>2, <2>5
<1>2. I /\ [CompareNext]_<<sortVars, validatorVars>> => I'
  <2>. SUFFICES ASSUME SortInv, SortedInOrder, CircularInv, LeftInv,
                       [CompareNext]_<<sortVars, validatorVars>>
                PROVE  I'
      OBVIOUS
  <2>1. SortTypeOK
      BY DEF SortInv
  <2>2. CASE ValidatorNext /\ UNCHANGED sortVars
    <3>1. ends' = ends /\ SortInv' /\ SortedInOrder' /\ CircularInv'
        BY <2>2, SortRests, CircularRests DEF sortVars
    <3>2. LeftInv'
        BY <2>1, <2>2, <3>1, RootKeepsLeft, AcceptKeepsLeft, FollowKeepsLeft,
           ReturnKeepsLeft DEF ValidatorNext
    <3>. QED BY <3>1, <3>2
  <2>3. CASE SortNext /\ UNCHANGED validatorVars
    <3>1. PICK n \in Id : Dequeue(n)
        BY <2>3 DEF SortNext
    <3>2. ends' = ends /\ SortInv' /\ SortedInOrder' /\ CircularInv'
        BY <3>1, DequeueSorts, CircularIsLeftOut DEF Dequeue
    <3>. QED BY <2>3, <3>2, LeftRests
  <2>4. CASE UNCHANGED <<sortVars, validatorVars>>
    <3>1. ends' = ends /\ SortInv' /\ SortedInOrder' /\ CircularInv'
        BY <2>4, SortRests, CircularRests DEF sortVars
    <3>. QED BY <2>4, <3>1, LeftRests
  <2>. QED BY <2>2, <2>3, <2>4 DEF CompareNext
<1>. QED BY <1>1, <1>2, PTL DEF CompareSpec

\* The depth-first search and Kahn's algorithm agree on every graph without dangling
\* edges: the validator accepts it just when the sort brings out all its nodes.  A
\* cycle it answers is a circular set, which the sort cannot enter; what the sort
\* leaves out is circular, and nothing circular is among the nodes it accepts.
THEOREM SearchAgreesWithSort == CompareSpec => []ValidatorAgreesWithSort
<1>1. ASSUME SortInv, CircularInv, LeftInv  PROVE ValidatorAgreesWithSort
  <2>. SUFFICES ASSUME verdict # "working", SortDone, ~Dangling
                PROVE  verdict = "acyclic" <=> Sorted = Node
      BY DEF ValidatorAgreesWithSort
  <2>1. \A e \in Edge : Source(e) \in Node /\ Target(e) \in Node
      BY DEF Dangling
  <2>2. Sorted \subseteq Node
      BY <1>1 DEF SortInv, SortTypeOK, Sorted
  <2>3. CASE verdict = "cycle"
    <3>1. PICK S \in SUBSET Id : S # {} /\ Circular(S)
        BY <1>1, <2>3 DEF LeftInv
    <3>2. S \cap Sorted = {}
        BY <1>1, <3>1 DEF CircularInv
    <3>3. S \subseteq Node
        BY <2>1, <3>1 DEF Circular, Into
    <3>. QED BY <2>3, <3>1, <3>2, <3>3
  <2>4. CASE verdict = "acyclic"
    <3>. DEFINE S == Node \ Sorted
    <3>1. Circular(S)
      <4>. SUFFICES ASSUME NEW n \in S  PROVE \E e \in Into(n) : Source(e) \in S
          BY DEF Circular
      <4>1. Open(n) # {}
          BY <1>1 DEF SortInv, SortDone
      <4>2. PICK e \in Into(n) : Source(e) \notin Sorted
          BY <4>1 DEF Open
      <4>. QED BY <2>1, <4>2 DEF Into
    <3>2. Node \subseteq Left
      <4>. SUFFICES ASSUME NEW n \in Node  PROVE n \in Left
          OBVIOUS
      <4>1. frames = <<>> /\ root > Len(NodeOrder) /\ root \in 1..(Len(NodeOrder) + 1)
          BY <1>1, <2>4 DEF LeftInv, ValidatorTypeOK
      <4>2. Len(NodeOrder) \in Nat /\ DOMAIN NodeOrder = 1..Len(NodeOrder)
          BY NodeOrderAssumption
      <4>3. root - 1 = Len(NodeOrder)
          BY <4>1, <4>2
      <4>4. PICK i \in 1..Len(NodeOrder) : NodeOrder[i] = n
          BY <4>2, NodeOrderAssumption
      <4>5. n \in visited
          BY <1>1, <4>3, <4>4 DEF LeftInv
      <4>6. inStack = {}
          BY <1>1, <4>1 DEF LeftInv, FramesInv
      <4>. QED BY <4>5, <4>6 DEF Left
    <3>3. S = {}
        BY <1>1, <3>1, <3>2 DEF LeftInv
    <3>. QED BY <2>2, <2>4, <3>3
  <2>5. verdict \in {"working", "cycle", "acyclic"}
      BY <1>1 DEF LeftInv, ValidatorTypeOK
  <2>. QED BY <2>3, <2>4, <2>5
<1>. QED BY <1>1, CompareInvariance, PTL
=============================================================================
