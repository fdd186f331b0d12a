--------------------------- MODULE TopologicalSort ---------------------------
(***************************************************************************)
(* topologicalSort of packages/workflow-engine (and its twin in packages/  *)
(* workflow-canvas): Kahn's algorithm over the edges of a graph, which may *)
(* be parallel, close a cycle, or lead from or to an id that is no node.   *)
(* The queue is a set: which of the nodes without open predecessors comes  *)
(* first is left open.                                                     *)
(***************************************************************************)
EXTENDS Integers, Sequences, FiniteSets

CONSTANTS
    Node,       \* ids of graph.nodes
    Ghost       \* other ids that edges name

ASSUME GraphAssumption == Node \cap Ghost = {}

VARIABLES
    ends,       \* the edges, in the order of graph.edges: source and target
    degree,     \* inDegree
    queue,
    sorted      \* the answer so far

sortVars == <<ends, degree, queue, sorted>>

Id == Node \cup Ghost
Edge == DOMAIN ends
Source(e) == ends[e][1]
Target(e) == ends[e][2]

SortTypeOK ==
    /\ ends \in Seq(Id \X Id)
    /\ degree \in [Id -> Nat]
    /\ queue \subseteq Id
    /\ sorted \in Seq(Node)

Into(n) == {e \in Edge : Target(e) = n}

\* adjacency has an entry for nodes only: what leaves a ghost is never counted down.
Between(n, m) == {e \in Into(m) : n \in Node /\ Source(e) = n}

SortInit ==
    /\ degree = [n \in Id |-> Cardinality(Into(n))]
    /\ queue = {n \in Node : Into(n) = {}}
    /\ sorted = <<>>

\* Defect: a neighbour is queued when the first of its predecessors is done.
DequeueEager(n) ==
    /\ n \in queue
    /\ sorted' = IF n \in Node THEN Append(sorted, n) ELSE sorted
    /\ degree' = [m \in Id |-> degree[m] - Cardinality(Between(n, m))]
    /\ queue' = (queue \ {n}) \cup {m \in Id : degree'[m] < Cardinality(Into(m))
                                               /\ degree'[m] < degree[m]}
    /\ UNCHANGED ends

\* One turn of the while loop: a ghost leaves the queue without a trace.
Dequeue(n) ==
    /\ n \in queue
    /\ sorted' = IF n \in Node THEN Append(sorted, n) ELSE sorted
    /\ degree' = [m \in Id |-> degree[m] - Cardinality(Between(n, m))]
    /\ queue' = (queue \ {n}) \cup {m \in Id : degree'[m] = 0 /\ degree[m] > 0}
    /\ UNCHANGED ends

SortNext == \E n \in Id : Dequeue(n)

SortSpec == ends \in Seq(Id \X Id) /\ SortInit /\ [][SortNext]_sortVars

-----------------------------------------------------------------------------
SortDone == queue = {}
Sorted == {sorted[i] : i \in DOMAIN sorted}

\* What is open on the way into n.
Open(n) == {e \in Into(n) : Source(e) \notin Sorted}

\* The inductive invariant: the counters count the open edges, the queue holds
\* ids without any, and no node comes twice.
SortInv ==
    /\ SortTypeOK
    /\ \A n \in Id : degree[n] = Cardinality(Open(n))
    /\ \A n \in queue \cup Sorted : Open(n) = {}
    /\ queue \cap Sorted = {}
    /\ \A n \in Node \ (queue \cup Sorted) : Open(n) # {}

\* Every member of S has an edge into it from a member of S.
Circular(S) == \A n \in S : \E e \in Into(n) : Source(e) \in S

\* What the comparison with the validator adds: no such set is ever entered.
CircularInv == \A S \in SUBSET Id : Circular(S) => S \cap Sorted = {}

\* A node comes after the source of every edge into it, and once, in graphs with
\* parallel edges, cycles and dangling edges too.
SortedInOrder ==
    /\ \A i \in DOMAIN sorted : \A e \in Into(sorted[i]) :
         \E j \in 1..(i - 1) : sorted[j] = Source(e)
    /\ \A i, j \in DOMAIN sorted : sorted[i] = sorted[j] => i = j

\* A node that is left out waits for one that is left out too or does not exist.
LeftOutIsBlocked ==
    SortDone => \A n \in Node \ Sorted : \E e \in Into(n) : Source(e) \notin Sorted
=============================================================================
