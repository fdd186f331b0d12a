---------------------------- MODULE RunContract ----------------------------
(***************************************************************************)
(* What one run of a workflow promises to whoever asked for it, without    *)
(* queue, leases, attempts or checkpoint rows: which nodes it may take up  *)
(* and when, that each of them is answered once, when it may call itself   *)
(* completed or failed, and in which order it undoes what it did.          *)
(* DagRunner implements it, and so does each run of SharedExecution, whose *)
(* process may die.                                                        *)
(***************************************************************************)
CONSTANTS
    Node, Edges,    \* the graph
    Saga            \* a failed run undoes what succeeded

VARIABLES
    phase,          \* loading, running, undoing, completed, failed, threw
    before,         \* nodes the run found finished when it began
    fate,           \* what became of each node
    failing,        \* the run will not complete
    undone          \* nodes whose effects have been compensated

view == <<phase, before, fate, failing, undone>>

Answers == {"success", "skipped", "paused", "failed", "refused", "threw"}

Done(n) == fate[n] \in {"success", "skipped"}

Quiet == \A n \in Node : fate[n] # "working"

Init ==
    /\ phase = "loading" /\ before = {}
    /\ fate = [n \in Node |-> "waiting"]
    /\ failing = FALSE /\ undone = {}

Begin ==
    /\ phase = "loading" /\ phase' = "running"
    /\ before' \in SUBSET Node
    /\ UNCHANGED <<fate, failing, undone>>

\* It does not begin: the graph offers no node to begin with, or what was finished
\* before cannot be read.
Reject ==
    /\ phase = "loading" /\ phase' = "threw"
    /\ UNCHANGED <<before, fate, failing, undone>>

\* A node is taken up when nothing has failed and all its inputs are there.
Take(n) ==
    /\ phase = "running" /\ ~failing
    /\ fate[n] = "waiting" /\ n \notin before
    /\ \A m \in Node : <<m, n>> \in Edges => Done(m)
    /\ fate' = [fate EXCEPT ![n] = "working"]
    /\ UNCHANGED <<phase, before, failing, undone>>

\* A node in hand is answered once; one that failed fails the run.  A run that
\* threw no longer listens, but its nodes are answered all the same.
Answer(n) ==
    /\ phase \in {"running", "threw"} /\ fate[n] = "working"
    /\ \E answer \in Answers :
         /\ fate' = [fate EXCEPT ![n] = answer]
         /\ failing' = (failing \/ answer = "failed")
    /\ UNCHANGED <<phase, before, undone>>

\* The time is up.
GiveUp ==
    /\ phase = "running" /\ ~failing /\ failing' = TRUE
    /\ UNCHANGED <<phase, before, fate, undone>>

\* A node's processing threw, and so does the run.
Throw ==
    /\ phase = "running" /\ phase' = "threw"
    /\ \E n \in Node : fate[n] = "threw"
    /\ UNCHANGED <<before, fate, failing, undone>>

\* Nothing went wrong, and every node left out had been finished before or
\* waits for one that this run did not finish.
Complete ==
    /\ phase = "running" /\ ~failing /\ phase' = "completed"
    /\ Quiet
    /\ \A n \in Node :
         /\ fate[n] \notin {"failed", "threw"}
         /\ fate[n] = "waiting" =>
              n \in before \/ \E m \in Node : <<m, n>> \in Edges /\ ~Done(m)
    /\ UNCHANGED <<before, fate, failing, undone>>

\* Effects are undone only when no node can add to them.
Unwind ==
    /\ phase = "running" /\ failing /\ Saga /\ Quiet
    /\ phase' = "undoing"
    /\ UNCHANGED <<before, fate, failing, undone>>

\* Each success is undone once, after all that consumed its output.
Undo(n) ==
    /\ phase = "undoing" /\ fate[n] = "success" /\ n \notin undone
    /\ \A m \in Node \ (undone \cup {n}) :
         fate[m] = "success" => <<n, m>> \notin Edges
    /\ undone' = undone \cup {n}
    /\ UNCHANGED <<phase, before, fate, failing>>

\* The run is failed when no node is at work and, with compensation on, all
\* that succeeded has been undone.
Fail ==
    /\ phase \in {"running", "undoing"} /\ failing /\ phase' = "failed"
    /\ Quiet
    /\ Saga => \A n \in Node : fate[n] = "success" => n \in undone
    /\ UNCHANGED <<before, fate, failing, undone>>

Next ==
    \/ Begin \/ Reject \/ GiveUp \/ Throw \/ Complete \/ Unwind \/ Fail
    \/ \E n \in Node : Take(n) \/ Answer(n) \/ Undo(n)

Spec == Init /\ [][Next]_view

-----------------------------------------------------------------------------
\* The process may die, and nothing more is heard of the run.
Die ==
    /\ phase \in {"running", "undoing", "threw"} /\ phase' = "dead"
    /\ UNCHANGED <<before, fate, failing, undone>>

\* Answer and Throw at once.
AnswerAndThrow(n) ==
    /\ phase = "running" /\ fate[n] = "working" /\ phase' = "threw"
    /\ fate' = [fate EXCEPT ![n] = "threw"]
    /\ UNCHANGED <<before, failing, undone>>

\* What a run promises whose process may die, to one who looks less closely.
MortalSpec == Init /\ [][Next \/ Die \/ \E n \in Node : AnswerAndThrow(n)]_view
=============================================================================
