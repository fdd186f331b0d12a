------------------------- MODULE MCSharedExecution -------------------------
(* Small graphs and two runs for SharedExecution. *)
EXTENDS SharedExecution, TLC

CONSTANTS r1, r2, a, b, c, d

\* b and c follow a: no node has two predecessors.
Fork == {<<a, b>>, <<a, c>>}
\* d joins b and c.
Diamond == {<<a, b>>, <<a, c>>, <<b, d>>, <<c, d>>}
Chain == {<<a, b>>}

Once == [n \in Node |-> 1]
TwiceAtA == [n \in Node |-> IF n = a THEN 2 ELSE 1]

\* The runs differ in nothing, nor do the two nodes that follow a.
Interchangeable == Permutations(Run) \cup Permutations({b, c})
=============================================================================
