---------------------------- MODULE MCNodeLease ----------------------------
(* Two or three runs of one execution on two workers, for NodeLease. *)
EXTENDS NodeLease

CONSTANTS r1, r2, r3, w1, w2

\* r1 and r2 in one process, r3 in the other.
TwoAndOne == [r \in Run |-> IF r = r3 THEN w2 ELSE w1]
OneProcess == [r \in Run |-> w1]
OneEach == [r \in Run |-> IF r = r1 THEN w1 ELSE w2]
=============================================================================
