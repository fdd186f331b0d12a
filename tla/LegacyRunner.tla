---------------------------- MODULE LegacyRunner ----------------------------
(***************************************************************************)
(* WorkflowRunner.run of packages/workflow-engine: the nodes of the sorted *)
(* graph one after the other, each fed the output of the one before it and *)
(* tried a few times; a checkpoint callback hears of every outcome.        *)
(***************************************************************************)
EXTENDS TopologicalSort

CONSTANTS
    MaxRetries,     \* attempts of a node
    Executable,     \* nodes with an executor
    RunFaults       \* what the environment of this instance may do

\* What an executor's result may say beside success and failure; the executors of
\* this repository do not, the type of the result lets one of a plugin do so.
RunFaultKinds == {"fail", "throw", "other", "callback"}

\* "other": paused, skipped or compensated
Status == {"success", "failed", "other"}

ASSUME RunnerAssumption ==
    /\ MaxRetries \in Nat
    /\ Executable \subseteq Node
    /\ RunFaults \subseteq RunFaultKinds

VARIABLES
    run,        \* where run() stands
    place,      \* position in sorted
    tries,      \* attempts begun of the node there
    result,     \* status of the last result its executor returned
    input,      \* node whose output is currentInput; {} for the trigger
    results,    \* status of the nodes in the results run() returns
    executed,   \* history: nodes whose executor has been called
    succeeded   \* history: times an executor has succeeded with the node

runnerVars == <<run, place, tries, result, input, results, executed, succeeded>>

RunnerTypeOK ==
    /\ run \in {"running", "returned", "rejected"}
    /\ place \in 1..(Cardinality(Node) + 1)
    /\ tries \in 0..MaxRetries
    /\ result \in Status \cup {"none"}
    /\ input \in SUBSET Node
    /\ results \in Seq(Status)
    /\ executed \subseteq Node
    /\ succeeded \in [Node -> Nat]

RunnerInit ==
    /\ run = "running" /\ place = 1 /\ tries = 0
    /\ result = "none" /\ input = {}
    /\ results = <<>>
    /\ executed = {}
    /\ succeeded = [n \in Node |-> 0]

-----------------------------------------------------------------------------
Current == sorted[place]

AtNode == run = "running" /\ SortDone /\ place <= Len(sorted)

\* The callback may throw; there may be none.
Callback(ok) == ok \/ "callback" \in RunFaults

\* The run goes on to the next node: the result is pushed as it is.
Advance(status) ==
    /\ results' = Append(results, status)
    /\ place' = place + 1 /\ tries' = 0 /\ result' = "none"

\* A failed result ends the loop; the callback that hears of it is outside any try.
BreakOff ==
    /\ results' = Append(results, "failed")
    /\ \E ok \in BOOLEAN : Callback(ok) /\ run' = IF ok THEN "returned" ELSE "rejected"
    /\ UNCHANGED <<place, tries, result, input, executed, succeeded>>

NoExecutor ==
    /\ AtNode /\ Current \notin Executable
    /\ BreakOff

\* The executor succeeds; if the callback throws, the attempt counts as failed
\* and the node is executed again, with its own output for input.
Succeed ==
    /\ AtNode /\ Current \in Executable /\ tries < MaxRetries
    /\ executed' = executed \cup {Current}
    /\ succeeded' = [succeeded EXCEPT ![Current] = @ + 1]
    /\ input' = {Current}
    /\ \/ Advance("success")
       \/ /\ Callback(FALSE)
          /\ tries' = tries + 1 /\ result' = "success"
          /\ UNCHANGED <<place, results>>
    /\ UNCHANGED run

\* The executor returns a result that is no success, or throws, which leaves the
\* result of an earlier attempt; each is followed by another attempt.
FailOrThrow ==
    /\ AtNode /\ Current \in Executable /\ tries < MaxRetries
    /\ tries' = tries + 1
    /\ executed' = executed \cup {Current}
    /\ \/ "fail" \in RunFaults /\ result' = "failed"
       \/ "other" \in RunFaults /\ result' = "other"
       \/ "throw" \in RunFaults /\ UNCHANGED result
    /\ UNCHANGED <<run, place, input, results, succeeded>>

\* Defect: the run goes on behind a failed node.
GiveUpAndGoOn ==
    /\ AtNode /\ Current \in Executable /\ tries = MaxRetries
    /\ Advance(IF result = "none" THEN "failed" ELSE result)
    /\ UNCHANGED <<run, input, executed, succeeded>>

\* The attempts are used up.  Only the lack of a result or a failed one ends the
\* run; any other is pushed, and the next node gets the input this one had.
OutOfTries ==
    /\ AtNode /\ Current \in Executable /\ tries = MaxRetries
    /\ \/ /\ result \in {"success", "other"}
          /\ Advance(result)
          /\ UNCHANGED <<run, input, executed, succeeded>>
       \/ result \in {"none", "failed"} /\ BreakOff

Complete ==
    /\ run = "running" /\ SortDone /\ place > Len(sorted)
    /\ run' = "returned"
    /\ UNCHANGED <<place, tries, result, input, results, executed, succeeded>>

RunnerNext == NoExecutor \/ Succeed \/ FailOrThrow \/ OutOfTries \/ Complete

\* run() sorts the graph and goes through the answer.
RunNext ==
    \/ SortNext /\ UNCHANGED runnerVars
    \/ RunnerNext /\ UNCHANGED sortVars

RunSpec ==
    /\ ends \in Seq(Id \X Id) /\ SortInit /\ RunnerInit
    /\ [][RunNext]_<<sortVars, runnerVars>>

-----------------------------------------------------------------------------
\* The inductive invariant: every node passed has been executed and its result has
\* not failed, the results hold nothing else while the run goes on, and nothing
\* beyond has been executed.
PlaceInv ==
    /\ place \in 1..(Len(sorted) + 1)
    /\ results \in Seq(Status)
    /\ place - 1 <= Len(results)
    /\ run = "running" => Len(results) = place - 1
    /\ \A j \in 1..(place - 1) : results[j] # "failed" /\ sorted[j] \in executed
    /\ \A n \in executed :
         SortDone /\ \E k \in DOMAIN sorted : k <= place /\ sorted[k] = n
    /\ result # "none" => place <= Len(sorted) /\ Current \in executed

\* A node has been executed only if every node with an edge to it was before, and
\* its result in the results has not failed: through retries, callbacks that throw
\* and nodes without an executor.  It need not be a success: a result that is
\* neither success nor failed is retried like a failure and passed like a success.
ExecutedAfterPredecessors ==
    \A n \in executed : \A e \in Into(n) :
        /\ Source(e) \in executed
        /\ \E j \in DOMAIN results : sorted[j] = Source(e) /\ results[j] # "failed"

\* A node whose executor has succeeded is not executed again.
ExecutedOnce == \A n \in Node : succeeded[n] <= 1

\* A run that returns only successes has executed the whole graph.
SuccessIsWhole ==
    run = "returned" /\ (\A j \in DOMAIN results : results[j] = "success")
        => \A n \in Node : succeeded[n] > 0
=============================================================================
