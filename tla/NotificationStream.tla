------------------------- MODULE NotificationStream -------------------------
(***************************************************************************)
(* One client of GET /notifications/stream of the notification service:    *)
(* the snapshot sent on connection, then a refresh tick every interval,    *)
(* which sends the rows newer than lastSeenNotificationId.  A tick does    *)
(* not wait for the one before it, so their answers come in any order.     *)
(* Beside them pushNotification sends a row created in this process and    *)
(* moves lastSeenNotificationId to it; it is exported for the flow that    *)
(* creates notifications, which in this commit does not call it.           *)
(*                                                                         *)
(* Rows are numbered in the order of createdAt.                            *)
(***************************************************************************)
EXTENDS Integers

CONSTANTS
    Tick,           \* refreshes that can be under way together
    Window,         \* rows a query returns at most, the newest ones (20)
    StreamFaults,   \* what the environment of this instance may do
    MaxRows         \* bound of the instance

\* query: a query fails.  close: the client goes.  push: rows of this process are pushed.
StreamFaultKinds == {"query", "close", "push"}

ASSUME StreamAssumption ==
    /\ Window \in Nat \ {0} /\ MaxRows \in Nat
    /\ StreamFaults \subseteq StreamFaultKinds

VARIABLES
    rows,       \* notifications of the recipient in the database
    unpushed,   \* those created in this process that are still to be pushed
    stream,     \* where the connection stands
    first,      \* newest row in the snapshot of the connection
    refresh,    \* where the query of a tick stands
    snapshot,   \* newest row in the snapshot the query returned
    lastSeen,   \* lastSeenNotificationId, 0 for null
    shown,      \* rows sent to the client
    repeated,   \* history: rows sent to it by a tick more than once
    since,      \* history: oldest row the connection's snapshot had room for
    newest,     \* history: newest row handled so far
    burst,      \* history: more rows were new to a tick than a query returns
    overtaken   \* history: a push went past rows the client had not been sent

requests == <<stream, first, refresh, snapshot>>
sent == <<lastSeen, shown, repeated, since, newest, burst, overtaken>>
streamVars == <<rows, unpushed, requests, sent>>

StreamTypeOK ==
    /\ rows \in Nat /\ unpushed \subseteq 1..rows
    /\ stream \in {"connect", "read", "open", "closed"}
    /\ first \in 0..rows
    /\ refresh \in [Tick -> {"idle", "asked", "read"}]
    /\ snapshot \in [Tick -> 0..rows]
    /\ lastSeen \in 0..rows
    /\ shown \subseteq 1..rows /\ repeated \subseteq 1..rows
    /\ since \in Nat \ {0} /\ newest \in 0..rows
    /\ burst \in BOOLEAN /\ overtaken \in BOOLEAN

StreamInit ==
    /\ rows \in 0..1 /\ unpushed = {}
    /\ stream = "connect" /\ first = 0
    /\ refresh = [t \in Tick |-> "idle"] /\ snapshot = [t \in Tick |-> 0]
    /\ lastSeen = 0
    /\ shown = {} /\ repeated = {}
    /\ since = 1 /\ newest = 0 /\ burst = FALSE /\ overtaken = FALSE

-----------------------------------------------------------------------------
Recent(n) == {k \in 1..n : k > n - Window}

Later(m, n) == IF m > n THEN m ELSE n

\* The rows an answered tick sends, newest first down to lastSeen; all of them
\* when lastSeen is null or not among them.
Unsent(n) ==
    IF n = lastSeen THEN {}
    ELSE IF lastSeen \in Recent(n) THEN {k \in Recent(n) : k > lastSeen}
    ELSE Recent(n)

\* A row is created in this process, or elsewhere.
CreateRow ==
    /\ rows < MaxRows
    /\ rows' = rows + 1
    /\ \/ UNCHANGED unpushed
       \/ "push" \in StreamFaults /\ unpushed' = unpushed \cup {rows + 1}
    /\ UNCHANGED <<requests, sent>>

\* pushNotification, for a client that is connecting or connected.
Push(k) ==
    /\ k \in unpushed
    /\ unpushed' = unpushed \ {k}
    /\ IF stream = "closed" THEN UNCHANGED sent
       ELSE /\ shown' = shown \cup {k}
            /\ lastSeen' = k /\ newest' = Later(newest, k)
            /\ overtaken' = (overtaken \/ ~(since..(k - 1) \subseteq shown))
            /\ UNCHANGED <<repeated, since, burst>>
    /\ UNCHANGED <<rows, requests>>

\* The connection's query reads the rows ...
ReadFirst ==
    /\ stream = "connect"
    /\ stream' = "read" /\ first' = rows
    /\ UNCHANGED <<rows, unpushed, refresh, snapshot, sent>>

\* ... and its answer is sent as the snapshot, whatever was pushed meanwhile, ...
Connect ==
    /\ stream = "read"
    /\ stream' = "open"
    /\ lastSeen' = first /\ shown' = shown \cup Recent(first)
    /\ since' = Later(1, first - Window + 1) /\ newest' = first /\ overtaken' = FALSE
    /\ UNCHANGED <<rows, unpushed, first, refresh, snapshot, repeated, burst>>

\* ... or it fails, which leaves lastSeen as it was.
ConnectFails ==
    /\ "query" \in StreamFaults /\ stream = "connect"
    /\ stream' = "open"
    /\ UNCHANGED <<rows, unpushed, first, refresh, snapshot, sent>>

\* Defect: a refresh is asked for only after the first row has been seen.
AskAfterFirst(t) ==
    /\ stream = "open" /\ refresh[t] = "idle" /\ lastSeen > 0
    /\ refresh' = [refresh EXCEPT ![t] = "asked"]
    /\ UNCHANGED <<rows, unpushed, stream, first, snapshot, sent>>

Ask(t) ==
    /\ stream = "open" /\ refresh[t] = "idle"
    /\ refresh' = [refresh EXCEPT ![t] = "asked"]
    /\ UNCHANGED <<rows, unpushed, stream, first, snapshot, sent>>

\* The database reads the rows; the answer is on its way.
Read(t) ==
    /\ refresh[t] = "asked"
    /\ refresh' = [refresh EXCEPT ![t] = "read"]
    /\ snapshot' = [snapshot EXCEPT ![t] = rows]
    /\ UNCHANGED <<rows, unpushed, stream, first, sent>>

ReadFails(t) ==
    /\ "query" \in StreamFaults /\ refresh[t] = "asked"
    /\ refresh' = [refresh EXCEPT ![t] = "idle"]
    /\ UNCHANGED <<rows, unpushed, stream, first, snapshot, sent>>

\* Defect: lastSeen is moved before the rows are compared with it.
RefreshMovesFirst(t) ==
    /\ refresh[t] = "read"
    /\ refresh' = [refresh EXCEPT ![t] = "idle"]
    /\ lastSeen' = snapshot[t] /\ newest' = Later(newest, snapshot[t])
    /\ burst' = (burst \/ snapshot[t] - newest > Window)
    /\ UNCHANGED <<rows, unpushed, stream, first, snapshot, shown, repeated, since,
                   overtaken>>

\* The answer arrives.
Refresh(t) ==
    /\ refresh[t] = "read"
    /\ refresh' = [refresh EXCEPT ![t] = "idle"]
    /\ shown' = shown \cup Unsent(snapshot[t])
    /\ repeated' = repeated \cup (shown \cap Unsent(snapshot[t]))
    /\ lastSeen' = snapshot[t] /\ newest' = Later(newest, snapshot[t])
    /\ burst' = (burst \/ snapshot[t] - newest > Window)
    /\ UNCHANGED <<rows, unpushed, stream, first, snapshot, since, overtaken>>

\* The client goes; answers still on their way are written to nobody.
Close ==
    /\ "close" \in StreamFaults /\ stream = "open"
    /\ stream' = "closed"
    /\ refresh' = [t \in Tick |-> "idle"]
    /\ UNCHANGED <<rows, unpushed, first, snapshot, sent>>

StreamNext ==
    \/ CreateRow \/ ReadFirst \/ Connect \/ ConnectFails \/ Close
    \/ \E k \in 1..rows : Push(k)
    \/ \E t \in Tick : Ask(t) \/ Read(t) \/ ReadFails(t) \/ Refresh(t)

\* The connection's query and the interval timer go on, and a query that is asked
\* again and again is answered some time.
StreamFairness ==
    /\ WF_streamVars(ReadFirst) /\ WF_streamVars(Connect)
    /\ \A t \in Tick : /\ WF_streamVars(Ask(t)) /\ WF_streamVars(Refresh(t))
                       /\ SF_streamVars(Read(t))

StreamSpec == StreamInit /\ [][StreamNext]_streamVars
FairStreamSpec == StreamSpec /\ StreamFairness

-----------------------------------------------------------------------------
\* Up to the newest row handled the client was sent every row since its snapshot,
\* in whichever order the answers of overlapping ticks and the pushes came, unless
\* more rows were new at once than a query returns, or a push went past some.
NothingMissed == burst \/ overtaken \/ since..newest \subseteq shown

\* The inductive invariant behind it.
StreamInv == NothingMissed /\ lastSeen <= newest

\* The client catches up with the rows, again and again, as long as its
\* connection stays open, under the same two reservations.
RowsArrive ==
    []<>(since..rows \subseteq shown \/ burst \/ overtaken \/ stream = "closed")

\* "The client sees new notifications even if pushNotification wasn't called
\* in-process": rows of other processes are sent beside those that are pushed.
OthersSeen == stream = "open" => burst \/ since..newest \subseteq shown

\* A row is sent once.
SentOnce == repeated = {}
=============================================================================
