----------------------------- MODULE MeshClient -----------------------------
(***************************************************************************)
(* Requests that ServiceMeshClient.proxy of packages/shared-gateway sends  *)
(* to one service, with its retries and the circuit breaker all of them    *)
(* share.  A request asks the breaker once, before its first attempt, and  *)
(* reports to it once, after the last.                                     *)
(***************************************************************************)
EXTENDS Integers

CONSTANTS
    ProxyRequest,   \* requests on their way through proxy()
    Threshold,      \* failures that open the breaker
    ResetTimeout,   \* time it stays open
    Attempts,       \* endpoint.retries + 1
    MaxClock        \* bound of the instance

ASSUME MeshAssumption ==
    /\ Threshold \in Nat \ {0} /\ ResetTimeout \in Nat
    /\ Attempts \in Nat \ {0} /\ MaxClock \in Nat

VARIABLES
    clock,
    breaker,    \* CircuitBreakerState of the service
    proxy,      \* where proxy() of a request stands
    attempt,    \* its attempt number
    applied     \* times the service has carried the request out

meshVars == <<clock, breaker, proxy, attempt, applied>>

MeshTypeOK ==
    /\ clock \in Nat
    /\ breaker \in [failures : Nat, lastFailure : Nat,
                    state : {"closed", "open", "half-open"}]
    /\ proxy \in [ProxyRequest -> {"new", "trying", "answered", "refused", "unavailable"}]
    /\ attempt \in [ProxyRequest -> 1..Attempts]
    /\ applied \in [ProxyRequest -> Nat]

Closed == [failures |-> 0, lastFailure |-> 0, state |-> "closed"]

MeshInit ==
    /\ clock = 0
    /\ breaker = Closed
    /\ proxy = [q \in ProxyRequest |-> "new"]
    /\ attempt = [q \in ProxyRequest |-> 1]
    /\ applied = [q \in ProxyRequest |-> 0]

-----------------------------------------------------------------------------
Expired == clock - breaker.lastFailure > ResetTimeout

TimePasses ==
    /\ clock < MaxClock
    /\ clock' = clock + 1
    /\ UNCHANGED <<breaker, proxy, attempt, applied>>

\* canExecute: a breaker open for long enough lets this request and all that
\* follow through ...
Admit(q) ==
    /\ proxy[q] = "new"
    /\ breaker.state = "open" => Expired
    /\ breaker' = IF breaker.state = "open" THEN [breaker EXCEPT !.state = "half-open"]
                                            ELSE breaker
    /\ proxy' = [proxy EXCEPT ![q] = "trying"]
    /\ UNCHANGED <<clock, attempt, applied>>

\* ... and refuses with 503 before.
Refuse(q) ==
    /\ proxy[q] = "new" /\ breaker.state = "open" /\ ~Expired
    /\ proxy' = [proxy EXCEPT ![q] = "refused"]
    /\ UNCHANGED <<clock, breaker, attempt, applied>>

\* Any HTTP status is an answer, and a success to the breaker.
Answer(q) ==
    /\ proxy[q] = "trying"
    /\ applied' = [applied EXCEPT ![q] = @ + 1]
    /\ proxy' = [proxy EXCEPT ![q] = "answered"]
    /\ breaker' = Closed
    /\ UNCHANGED <<clock, attempt>>

\* fetch throws: the service was not reached, or did its work and was too slow.
\* All but the last attempt are tried again without asking the breaker.
AttemptFails(q) ==
    /\ proxy[q] = "trying" /\ attempt[q] < Attempts
    /\ \E done \in {0, 1} : applied' = [applied EXCEPT ![q] = @ + done]
    /\ attempt' = [attempt EXCEPT ![q] = @ + 1]
    /\ UNCHANGED <<clock, breaker, proxy>>

\* Defect: a breaker on trial stays half-open for another Threshold failures.
GiveUpLenient(q) ==
    /\ proxy[q] = "trying" /\ attempt[q] = Attempts
    /\ \E done \in {0, 1} : applied' = [applied EXCEPT ![q] = @ + done]
    /\ proxy' = [proxy EXCEPT ![q] = "unavailable"]
    /\ LET n == breaker.failures + 1 IN
       breaker' = [failures |-> n, lastFailure |-> clock,
                   state |-> IF n = Threshold THEN "open" ELSE breaker.state]
    /\ UNCHANGED <<clock, attempt>>

\* recordFailure after the last attempt.
GiveUp(q) ==
    /\ proxy[q] = "trying" /\ attempt[q] = Attempts
    /\ \E done \in {0, 1} : applied' = [applied EXCEPT ![q] = @ + done]
    /\ proxy' = [proxy EXCEPT ![q] = "unavailable"]
    /\ LET n == breaker.failures + 1 IN
       breaker' = [failures |-> n, lastFailure |-> clock,
                   state |-> IF n >= Threshold THEN "open" ELSE breaker.state]
    /\ UNCHANGED <<clock, attempt>>

MeshNext ==
    \/ TimePasses
    \/ \E q \in ProxyRequest :
         Admit(q) \/ Refuse(q) \/ Answer(q) \/ AttemptFails(q) \/ GiveUp(q)

MeshSpec == MeshInit /\ [][MeshNext]_meshVars

-----------------------------------------------------------------------------
Tripped == breaker.failures >= Threshold

\* The inductive invariant behind AdmittedWhenCool.
BreakerInv ==
    /\ Tripped => breaker.state = "open" \/ (breaker.state = "half-open" /\ Expired)
    /\ breaker.lastFailure <= clock

\* After Threshold failures with no answer between, no request is let through
\* until ResetTimeout has passed since the last failure of all, whichever
\* requests were still trying when the breaker opened or went half-open.
AdmittedWhenCool ==
    [][\A q \in ProxyRequest :
         proxy[q] = "new" /\ proxy'[q] = "trying" /\ Tripped => Expired]_meshVars

\* An open breaker stays open for ResetTimeout.
OpenLasts ==
    [][breaker.state = "open" /\ breaker'.state # "open" => Expired]_meshVars

\* The service carries a request out at most once.
AppliedOnce == \A q \in ProxyRequest : applied[q] <= 1
=============================================================================
