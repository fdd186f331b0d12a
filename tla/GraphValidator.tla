--------------------------- MODULE GraphValidator ---------------------------
(***************************************************************************)
(* validateWorkflow of packages/workflow-engine as far as it looks at the  *)
(* edges: unknown ends, and the depth-first search for a cycle, whose      *)
(* recursion is a stack of frames here.  The warning for disconnected      *)
(* nodes and the check for a type are left out.                            *)
(***************************************************************************)
EXTENDS TopologicalSort, SequencesExt

CONSTANT NodeOrder      \* graph.nodes

ASSUME NodeOrderAssumption ==
    /\ NodeOrder \in Seq(Node)
    /\ \A n \in Node : \E i \in DOMAIN NodeOrder : NodeOrder[i] = n

VARIABLES
    root,       \* position of the loop over graph.nodes
    visited, inStack,
    frames,     \* calls of hasCycle: the node, and the edge its loop is at
    verdict

validatorVars == <<root, visited, inStack, frames, verdict>>

ValidatorTypeOK ==
    /\ root \in 1..(Len(NodeOrder) + 1)
    /\ visited \subseteq Id /\ inStack \subseteq visited
    /\ frames \in Seq([node : Id, edge : Nat])
    /\ verdict \in {"working", "cycle", "acyclic"}

ValidatorInit ==
    /\ root = 1 /\ visited = {} /\ inStack = {} /\ frames = <<>>
    /\ verdict = "working"

Call(n) ==
    /\ visited' = visited \cup {n}
    /\ inStack' = inStack \cup {n}

\* The outgoing edges the loop of the innermost call has yet to follow.
Outgoing == {e \in Edge : e >= Last(frames).edge /\ Source(e) = Last(frames).node}

\* The next node of the graph is a root unless it has been visited.
NextRoot ==
    /\ verdict = "working" /\ frames = <<>>
    /\ root <= Len(NodeOrder)
    /\ IF NodeOrder[root] \in visited
         THEN root' = root + 1 /\ UNCHANGED <<visited, inStack, frames>>
         ELSE /\ Call(NodeOrder[root])
              /\ frames' = <<[node |-> NodeOrder[root], edge |-> 1]>>
              /\ UNCHANGED root
    /\ UNCHANGED verdict

Accept ==
    /\ verdict = "working" /\ frames = <<>>
    /\ root > Len(NodeOrder)
    /\ verdict' = "acyclic"
    /\ UNCHANGED <<root, visited, inStack, frames>>

\* hasCycle(edge.target): true on the stack, false when visited, a call if new.
Follow ==
    /\ verdict = "working" /\ frames # <<>> /\ Outgoing # {}
    /\ LET e == CHOOSE x \in Outgoing : \A y \in Outgoing : x <= y
           moved == [frames EXCEPT ![Len(frames)].edge = e + 1]
       IN \/ /\ Target(e) \in inStack
             /\ verdict' = "cycle"
             /\ UNCHANGED <<visited, inStack, frames>>
          \/ /\ Target(e) \in visited \ inStack
             /\ frames' = moved
             /\ UNCHANGED <<visited, inStack, verdict>>
          \/ /\ Target(e) \notin visited
             /\ Call(Target(e))
             /\ frames' = Append(moved, [node |-> Target(e), edge |-> 1])
             /\ UNCHANGED verdict
    /\ UNCHANGED root

\* Defect: a call returns without leaving the stack.
ReturnOnStack ==
    /\ verdict = "working" /\ frames # <<>> /\ Outgoing = {}
    /\ frames' = Front(frames)
    /\ UNCHANGED <<root, visited, inStack, verdict>>

Return ==
    /\ verdict = "working" /\ frames # <<>> /\ Outgoing = {}
    /\ inStack' = inStack \ {Last(frames).node}
    /\ frames' = Front(frames)
    /\ UNCHANGED <<root, visited, verdict>>

ValidatorNext == NextRoot \/ Accept \/ Follow \/ Return

\* Validator and sort look at the same graph, in an order nobody prescribes.
CompareNext ==
    \/ ValidatorNext /\ UNCHANGED sortVars
    \/ SortNext /\ UNCHANGED validatorVars

CompareSpec ==
    /\ ends \in Seq(Id \X Id) /\ SortInit /\ ValidatorInit
    /\ [][CompareNext]_<<sortVars, validatorVars>>

-----------------------------------------------------------------------------
\* Calls of hasCycle that have answered false.
Left == visited \ inStack

\* The frames are a path of distinct nodes, those on the stack; the edges a call
\* has followed lead to what has been left or to the call it is waiting for.
FramesInv ==
    /\ inStack = {frames[i].node : i \in DOMAIN frames}
    /\ \A i, j \in DOMAIN frames : frames[i].node = frames[j].node => i = j
    /\ \A i \in 1..(Len(frames) - 1) :
         \E e \in Into(frames[i + 1].node) : Source(e) = frames[i].node
    /\ \A i \in DOMAIN frames : \A e \in Edge :
         Source(e) = frames[i].node /\ e < frames[i].edge =>
            \/ Target(e) \in Left
            \/ i < Len(frames) /\ Target(e) = frames[i + 1].node

\* The inductive invariant: what has been left is closed under the edges and
\* contains nothing circular; a cycle is answered only of a circular set.
LeftInv ==
    /\ ValidatorTypeOK
    /\ FramesInv
    /\ \A i \in 1..(root - 1) : NodeOrder[i] \in visited
    /\ \A e \in Edge : Source(e) \in Left => Target(e) \in Left
    /\ \A S \in SUBSET Left : Circular(S) => S = {}
    /\ verdict = "cycle" => \E S \in SUBSET Id : S # {} /\ Circular(S)
    /\ verdict = "acyclic" => frames = <<>> /\ root > Len(NodeOrder)

\* INVALID_SOURCE, INVALID_TARGET
Dangling == \E e \in Edge : Source(e) \notin Node \/ Target(e) \notin Node

\* Of a graph without dangling edges the validator accepts those, and only
\* those, that the sort brings out whole: two algorithms that no code relates.
ValidatorAgreesWithSort ==
    verdict # "working" /\ SortDone /\ ~Dangling =>
        (verdict = "acyclic" <=> Sorted = Node)
=============================================================================
