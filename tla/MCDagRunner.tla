---------------------------- MODULE MCDagRunner ----------------------------
(* Small graphs for DagRunner. *)
EXTENDS DagRunner

CONSTANTS a, b, c, d, e

\* a fans out to b and c, d joins them.
Diamond == {<<a, b>>, <<a, c>>, <<b, d>>, <<c, d>>}
Chain == {<<a, b>>, <<b, c>>}
NoEdges == {}
\* a is a root, b and c wait for each other.
Cyclic == {<<a, b>>, <<b, c>>, <<c, b>>}
\* A loop and an awaited child that a child joins, and nodes on their own.
TwoIntoD == {<<b, d>>, <<c, d>>}
RowsOfA == {<<a, 1>>}

AllTasks == [n \in Node |-> "task"]
Once == [n \in Node |-> 1]
Twice == [n \in Node |-> 2]
MixedKinds == [n \in Node |-> IF n = b THEN "loop"
                              ELSE IF n = c THEN "awaitedChild"
                              ELSE IF n = d THEN "child" ELSE "task"]
GateAtE == [n \in Node |-> IF n = e THEN "gate" ELSE "task"]
TwiceAtB == [n \in Node |-> IF n = b THEN 2 ELSE 1]
GateFirst == [n \in Node |-> IF n = a THEN "gate" ELSE "task"]
Loops == [n \in Node |-> "loop"]
Children == [n \in Node |-> "child"]
=============================================================================
