------------------------ MODULE MCExecutionRecovery ------------------------
(* One or two processes with one or two job slots, for ExecutionRecovery. *)
EXTENDS ExecutionRecovery

CONSTANTS p1, p2, l1, l2

OneEach == [l \in Lane |-> IF l = l1 THEN p1 ELSE p2]
AllOnOne == [l \in Lane |-> p1]
=============================================================================
