--------------------------- MODULE MCWorkflowGraph ---------------------------
(***************************************************************************)
(* Every graph with up to MaxEdges edges over the nodes and ghosts:        *)
(* validated, then sorted, then run by the sequential runner.              *)
(***************************************************************************)
EXTENDS GraphValidator, LegacyRunner

CONSTANTS a, b, c, g, MaxEdges

ABC == <<a, b, c>>

GraphInit ==
    /\ ends \in UNION {[1..n -> Id \X Id] : n \in 0..MaxEdges}
    /\ SortInit /\ ValidatorInit /\ RunnerInit

GraphNext ==
    \/ ValidatorNext /\ UNCHANGED <<sortVars, runnerVars>>
    \/ verdict # "working" /\ RunNext /\ UNCHANGED validatorVars

GraphSpec == GraphInit /\ [][GraphNext]_<<sortVars, validatorVars, runnerVars>>
=============================================================================
