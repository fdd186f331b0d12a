--------------------------- MODULE EventDelivery ---------------------------
(***************************************************************************)
(* One published event on its way to the consumers of packages/            *)
(* shared-events: RedisEventBus (handlers of the publishing process first, *)
(* then Redis pub/sub to every subscribed process, the publisher's own     *)
(* included) under DeduplicatingEventBus, which looks up and marks         *)
(* (consumer, event) in the table consumer_offsets.                        *)
(*                                                                         *)
(* A delivery calls the handlers of a bus one after the other; deliveries  *)
(* that arrive meanwhile find the event in flight and drop out.            *)
(***************************************************************************)
EXTENDS Integers, FiniteSets

CONSTANTS
    Process, Consumer,
    Publisher,      \* the process that publishes the event
    ConsumerOf,     \* process -> consumerName of its bus
    Handlers,       \* process -> number of handlers subscribed to the type
    Subscribed,     \* processes whose bus was connected when they subscribed
    Wildcard,       \* processes whose inner bus also has a subscriber of "*"
    EventFaults,    \* what the environment of this instance may do
    MaxMishaps      \* bound on the faults of a process

EventFaultKinds == {"lose", "store", "handler", "stop"}

ASSUME EventAssumption ==
    /\ Publisher \in Process
    /\ ConsumerOf \in [Process -> Consumer]
    /\ Handlers \in [Process -> Nat \ {0}]
    /\ Subscribed \subseteq Process /\ Wildcard \subseteq Process
    /\ EventFaults \subseteq EventFaultKinds
    /\ MaxMishaps \in Nat

VARIABLES
    stage,      \* where publish() stands
    copies,     \* Redis messages on their way to a process
    call,       \* where the delivery at work in a process stands
    handler,    \* handler that delivery has come to
    processed,  \* consumers with a completed row in consumer_offsets
    handled,    \* times a handler of the process has returned
    deadLetters,\* handlers with a dead letter in the memory of the process
    mishaps,    \* history: store errors and stops
    reached     \* history: processes some delivery has reached and none lost

eventVars == <<stage, copies, call, handler, processed, handled, deadLetters,
               mishaps, reached>>

EventTypeOK ==
    /\ stage \in {"new", "local", "send", "sent", "stopped"}
    /\ copies \in [Process -> Nat]
    /\ call \in [Process -> {"idle", "check", "handle", "mark"}]
    /\ handler \in [Process -> Nat \ {0}]
    /\ processed \subseteq Consumer
    /\ handled \in [Process -> Nat]
    /\ deadLetters \in [Process -> SUBSET (Nat \ {0})]
    /\ mishaps \in [Process -> Nat]
    /\ reached \subseteq Process

EventInit ==
    /\ stage = "new"
    /\ copies = [p \in Process |-> 0]
    /\ call = [p \in Process |-> "idle"]
    /\ handler = [p \in Process |-> 1]
    /\ processed = {}
    /\ handled = [p \in Process |-> 0]
    /\ deadLetters = [p \in Process |-> {}]
    /\ mishaps = [p \in Process |-> 0]
    /\ reached = {}

-----------------------------------------------------------------------------
\* publishLocal begins in p.
Enter(p) ==
    /\ call' = [call EXCEPT ![p] = "check"]
    /\ reached' = reached \cup {p}

\* dedupHandler has returned: publishLocal calls the next handler, or ends;
\* the publisher's own ends with publish() going on to Redis.
NextHandler(p) ==
    IF handler[p] < Handlers[p]
      THEN /\ handler' = [handler EXCEPT ![p] = @ + 1]
           /\ call' = [call EXCEPT ![p] = "check"]
           /\ UNCHANGED stage
      ELSE /\ handler' = [handler EXCEPT ![p] = 1]
           /\ call' = [call EXCEPT ![p] = "idle"]
           /\ stage' = IF p = Publisher /\ stage = "local" THEN "send" ELSE stage

PublishLocal ==
    /\ stage = "new"
    /\ stage' = "local"
    /\ Enter(Publisher)
    /\ UNCHANGED <<copies, handler, processed, handled, deadLetters, mishaps>>

\* A process that also listens to "*" has two message listeners, and both take
\* the copy on the "*" channel for theirs.
Echo(p) == IF p \in Wildcard THEN 3 ELSE 1

\* publisher.publish: at most once, and an error is swallowed.
PublishRedis ==
    /\ stage = "send"
    /\ stage' = "sent"
    /\ \E S \in SUBSET Subscribed :
         /\ "lose" \in EventFaults \/ S = Subscribed
         /\ copies' = [p \in Process |-> IF p \in S THEN Echo(p) ELSE 0]
    /\ UNCHANGED <<call, handler, processed, handled, deadLetters, mishaps, reached>>

\* A message arrives.  While the event is in flight in p every handler drops it.
Deliver(p) ==
    /\ copies[p] > 0
    /\ copies' = [copies EXCEPT ![p] = @ - 1]
    /\ IF call[p] = "idle" THEN Enter(p) ELSE UNCHANGED <<call, reached>>
    /\ UNCHANGED <<stage, handler, processed, handled, deadLetters, mishaps>>

\* Defect: the answer of the store is ignored.
FreshIgnoresStore(p) ==
    /\ call[p] = "check"
    /\ call' = [call EXCEPT ![p] = "handle"]
    /\ UNCHANGED <<stage, copies, handler, processed, handled, deadLetters,
                   mishaps, reached>>

\* offsetStore.isProcessed says no ...
Fresh(p) ==
    /\ call[p] = "check" /\ ConsumerOf[p] \notin processed
    /\ call' = [call EXCEPT ![p] = "handle"]
    /\ UNCHANGED <<stage, copies, handler, processed, handled, deadLetters,
                   mishaps, reached>>

\* ... or yes ...
Skip(p) ==
    /\ call[p] = "check" /\ ConsumerOf[p] \in processed
    /\ NextHandler(p)
    /\ UNCHANGED <<copies, processed, handled, deadLetters, mishaps, reached>>

\* ... or fails, which counts as no.
CheckFails(p) ==
    /\ "store" \in EventFaults /\ mishaps[p] < MaxMishaps
    /\ call[p] = "check"
    /\ call' = [call EXCEPT ![p] = "handle"]
    /\ mishaps' = [mishaps EXCEPT ![p] = @ + 1]
    /\ UNCHANGED <<stage, copies, handler, processed, handled, deadLetters, reached>>

\* The handler returns.
Handle(p) ==
    /\ call[p] = "handle"
    /\ handled' = [handled EXCEPT ![p] = @ + 1]
    /\ call' = [call EXCEPT ![p] = "mark"]
    /\ UNCHANGED <<stage, copies, handler, processed, deadLetters, mishaps, reached>>

\* Defect: a handler that throws is marked processed all the same.
HandlerThrowsMarked(p) ==
    /\ "handler" \in EventFaults /\ call[p] = "handle"
    /\ call' = [call EXCEPT ![p] = "mark"]
    /\ UNCHANGED <<stage, copies, handler, processed, handled, deadLetters,
                   mishaps, reached>>

\* The handler throws: a dead letter in memory, and nobody takes it from there.
HandlerThrows(p) ==
    /\ "handler" \in EventFaults /\ call[p] = "handle"
    /\ deadLetters' = [deadLetters EXCEPT ![p] = @ \cup {handler[p]}]
    /\ NextHandler(p)
    /\ UNCHANGED <<copies, processed, handled, mishaps, reached>>

\* offsetStore.markProcessed, and its failure, which only logs.
Mark(p) ==
    /\ call[p] = "mark"
    /\ processed' = processed \cup {ConsumerOf[p]}
    /\ NextHandler(p)
    /\ UNCHANGED <<copies, handled, deadLetters, mishaps, reached>>

MarkFails(p) ==
    /\ "store" \in EventFaults /\ mishaps[p] < MaxMishaps
    /\ call[p] = "mark"
    /\ mishaps' = [mishaps EXCEPT ![p] = @ + 1]
    /\ NextHandler(p)
    /\ UNCHANGED <<copies, processed, handled, deadLetters, reached>>

\* The process stops and starts again: what it had in memory is gone.
Stop(p) ==
    /\ "stop" \in EventFaults /\ mishaps[p] < MaxMishaps
    /\ mishaps' = [mishaps EXCEPT ![p] = @ + 1]
    /\ call' = [call EXCEPT ![p] = "idle"]
    /\ handler' = [handler EXCEPT ![p] = 1]
    /\ copies' = [copies EXCEPT ![p] = 0]
    /\ deadLetters' = [deadLetters EXCEPT ![p] = {}]
    /\ reached' = reached \ {p}
    /\ stage' = IF p = Publisher /\ stage # "sent" THEN "stopped" ELSE stage
    /\ UNCHANGED <<processed, handled>>

EventNext ==
    \/ PublishLocal \/ PublishRedis
    \/ \E p \in Process :
         \/ Deliver(p) \/ Fresh(p) \/ Skip(p) \/ CheckFails(p)
         \/ Handle(p) \/ HandlerThrows(p) \/ Mark(p) \/ MarkFails(p) \/ Stop(p)

EventSpec == EventInit /\ [][EventNext]_eventVars

-----------------------------------------------------------------------------
\* What a process may still owe: its event is in flight unmarked, or marked.
Credit(p) ==
    IF call[p] = "mark" \/ (call[p] # "handle" /\ ConsumerOf[p] \in processed)
      THEN 1 ELSE 0

\* The inductive invariant behind HandledOnce.
HandledInv == \A p \in Process : handled[p] <= mishaps[p] + Credit(p)

\* "The event is not redelivered": however often Redis, the wildcard channel
\* and the publisher's own echo bring the event to a process, its handlers
\* handle it once, and once more for every store error or stop on the way.
HandledOnce == \A p \in Process : handled[p] <= 1 + mishaps[p]

\* A delivery that comes to an end has been handled by some process of the
\* consumer, or this process holds a dead letter of it: neither the check nor
\* an event in flight swallows it.
NotSwallowed ==
    \A p \in reached : call[p] = "idle" =>
        \/ deadLetters[p] # {}
        \/ \E q \in Process : ConsumerOf[q] = ConsumerOf[p] /\ handled[q] > 0

\* The inductive invariant behind NotSwallowed: an event is marked once it has
\* been handled.
Served(p) == \E q \in Process : ConsumerOf[q] = ConsumerOf[p] /\ handled[q] > 0
MarkedInv ==
    \A p \in Process :
        /\ ConsumerOf[p] \in processed => Served(p)
        /\ call[p] = "mark" => handled[p] > 0

\* "Before invoking the inner bus's subscriber callbacks": every handler that a
\* process subscribed is called.
EveryHandlerCalled ==
    stage = "sent" /\ (\A p \in Process : copies[p] = 0 /\ call[p] = "idle")
        => \A p \in reached : handled[p] >= Handlers[p]

\* "At-least-once delivery is guaranteed": every process gets the event.
DeliveredAtLeastOnce ==
    stage = "sent" /\ (\A p \in Process : copies[p] = 0 /\ call[p] = "idle")
        => \A p \in Process : handled[p] > 0 \/ ConsumerOf[p] \in processed
=============================================================================
