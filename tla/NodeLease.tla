----------------------------- MODULE NodeLease -----------------------------
(***************************************************************************)
(* The lease a run takes on one node of one execution before it executes   *)
(* the node: the row in execution_leases (DbLeaseStore, renewed by a timer *)
(* while the run keeps it), then the Redis key (RedisLeaseStore, never     *)
(* renewed), both behind CompositeLeaseStore.  Without REDIS_URL the       *)
(* second store is the in-memory one.                                      *)
(*                                                                         *)
(* A worker is one process with its generated worker id: a process that    *)
(* restarts is another worker.  Time advances by one renewal interval.     *)
(***************************************************************************)
EXTENDS Integers

CONSTANTS
    Run,       \* DAG runs of the execution that reach the node
    Worker,    \* worker processes
    Host,      \* run -> the worker it runs on
    Ttl,       \* LEASE_TTL_MS / LEASE_RENEWAL_INTERVAL_MS, 5 in the code
    Redis,     \* what "REDIS_URL is set" may be in the instance
    Faults,    \* what the environment of this instance may do
    None

\* crash: a worker dies.  db: a statement on the table fails.  renew: a renewal
\* fails.  redis: a Redis call fails.  throw: processNode rejects after it got
\* the lease.  overrun: a node is executed for longer than the TTL.
FaultKinds == {"crash", "db", "renew", "redis", "throw", "overrun"}

ASSUME LeaseAssumption ==
    /\ Host \in [Run -> Worker]
    /\ Ttl \in Nat /\ Ttl > 1
    /\ Redis \subseteq BOOLEAN
    /\ Faults \subseteq FaultKinds
    /\ None \notin Run

VARIABLES
    useRedis,  \* REDIS_URL was set when the processes loaded their lease store
    pc,        \* where the run stands with the lease
    alive,     \* workers that have not crashed
    row,       \* execution_leases: worker -> run and remaining time of its row
    key,       \* the Redis key: run that set it (its value is the run's worker)
    timer,     \* renewal interval of the run: off, armed, or due to fire
    deleting   \* runs whose DELETE of their row is in flight

vars == <<useRedis, pc, alive, row, key, timer, deleting>>

-----------------------------------------------------------------------------
Gone == [run |-> None, left |-> 0]
Fresh(r) == [run |-> r, left |-> Ttl]

Live(r) == Host[r] \in alive
At(r, p) == Live(r) /\ pc[r] = p
Goto(r, p) == pc' = [pc EXCEPT ![r] = p]
RowOf(r) == row[Host[r]]
SetRow(r, x) == row' = [row EXCEPT ![Host[r]] = x]

\* The run got both leases and has not given the second one back.
Holding(r) == Live(r) /\ pc[r] \in {"holding", "get", "del"}

\* The time in which the run may execute the node.
Executing(r) == At(r, "holding")

Init ==
    /\ useRedis \in Redis
    /\ pc = [r \in Run |-> "cleanup"]
    /\ alive = Worker
    /\ row = [w \in Worker |-> Gone]
    /\ key = Gone
    /\ timer = [r \in Run |-> "off"]
    /\ deleting = {}

-----------------------------------------------------------------------------
(* acquire: clear the expired row, insert, take the key, or back out.      *)

\* Defect: the clean-up does not look at leased_until.
ClearAnyRow(r) ==
    /\ At(r, "cleanup")
    /\ SetRow(r, Gone)
    /\ Goto(r, "insert")
    /\ UNCHANGED <<useRedis, alive, key, timer, deleting>>

\* The row is found by the worker's own id: rows of other workers stay.
ClearExpired(r) ==
    /\ At(r, "cleanup")
    /\ \/ RowOf(r).left = 0 /\ SetRow(r, Gone)
       \/ RowOf(r).left > 0 /\ UNCHANGED row
       \/ "db" \in Faults /\ UNCHANGED row
    /\ Goto(r, "insert")
    /\ UNCHANGED <<useRedis, alive, key, timer, deleting>>

Insert(r) ==
    /\ At(r, "insert") /\ RowOf(r).run = None
    /\ SetRow(r, Fresh(r))
    /\ timer' = [timer EXCEPT ![r] = "armed"]
    /\ Goto(r, "redis")
    /\ UNCHANGED <<useRedis, alive, key, deleting>>

InsertConflict(r) ==
    /\ At(r, "insert") /\ RowOf(r).run # None
    /\ Goto(r, "refused")
    /\ UNCHANGED <<useRedis, alive, row, key, timer, deleting>>

\* The statement fails; the row may have been written all the same.
InsertFails(r) ==
    /\ At(r, "insert") /\ "db" \in Faults
    /\ \/ RowOf(r).run = None /\ SetRow(r, Fresh(r))
       \/ UNCHANGED row
    /\ Goto(r, "refused")
    /\ UNCHANGED <<useRedis, alive, key, timer, deleting>>

\* Defect: SET without NX.
SetKeyAlways(r) ==
    /\ useRedis /\ At(r, "redis")
    /\ key' = Fresh(r)
    /\ Goto(r, "holding")
    /\ UNCHANGED <<useRedis, alive, row, timer, deleting>>

SetKey(r) ==
    /\ useRedis /\ At(r, "redis") /\ key = Gone
    /\ key' = Fresh(r)
    /\ Goto(r, "holding")
    /\ UNCHANGED <<useRedis, alive, row, timer, deleting>>

\* Defect: the refused run keeps its first lease.
KeyTakenKeepsRow(r) ==
    /\ useRedis /\ At(r, "redis") /\ key # Gone
    /\ Goto(r, "refused")
    /\ UNCHANGED <<useRedis, alive, row, key, timer, deleting>>

\* The key exists: release the row and give up.
KeyTaken(r) ==
    /\ useRedis /\ At(r, "redis") /\ key # Gone
    /\ timer' = [timer EXCEPT ![r] = "off"]
    /\ deleting' = deleting \cup {r}
    /\ Goto(r, "refused")
    /\ UNCHANGED <<useRedis, alive, row, key>>

\* The connection drops after SET took effect: ioredis sends it again, and the
\* second SET NX finds the key of the first.
SetKeyTwice(r) ==
    /\ useRedis /\ At(r, "redis") /\ key = Gone /\ "redis" \in Faults
    /\ key' = Fresh(r)
    /\ timer' = [timer EXCEPT ![r] = "off"]
    /\ deleting' = deleting \cup {r}
    /\ Goto(r, "refused")
    /\ UNCHANGED <<useRedis, alive, row>>

\* SET is answered with an error: acquire rejects and keeps the first lease.
SetKeyFails(r) ==
    /\ useRedis /\ At(r, "redis") /\ "redis" \in Faults
    /\ Goto(r, "threw")
    /\ UNCHANGED <<useRedis, alive, row, key, timer, deleting>>

\* All runs of a process share one worker id, so the in-memory store grants.
MemoryGrant(r) ==
    /\ ~useRedis /\ At(r, "redis")
    /\ Goto(r, "holding")
    /\ UNCHANGED <<useRedis, alive, row, key, timer, deleting>>

-----------------------------------------------------------------------------
(* release: both stores at once; and the ways it does not happen.          *)

Finish(r) ==
    /\ At(r, "holding")
    /\ timer' = [timer EXCEPT ![r] = "off"]
    /\ deleting' = deleting \cup {r}
    /\ Goto(r, IF useRedis THEN "get" ELSE "released")
    /\ UNCHANGED <<useRedis, alive, row, key>>

\* processNode rejects while the run has the lease: nobody calls release.
Reject(r) ==
    /\ At(r, "holding") /\ "throw" \in Faults
    /\ Goto(r, "threw")
    /\ UNCHANGED <<useRedis, alive, row, key, timer, deleting>>

\* Defect: the row is deleted by worker id only.
DeleteRowOfWorker(r) ==
    /\ Live(r) /\ r \in deleting
    /\ deleting' = deleting \ {r}
    /\ SetRow(r, Gone)
    /\ UNCHANGED <<useRedis, pc, alive, key, timer>>

\* DELETE ... AND id = leaseId; an error is logged and the row stays.
DeleteRow(r) ==
    /\ Live(r) /\ r \in deleting
    /\ deleting' = deleting \ {r}
    /\ \/ RowOf(r).run = r /\ SetRow(r, Gone)
       \/ RowOf(r).run # r /\ UNCHANGED row
       \/ "db" \in Faults /\ UNCHANGED row
    /\ UNCHANGED <<useRedis, pc, alive, key, timer>>

\* The key's value is a worker id: another run's key of this worker will do.
GetKey(r) ==
    /\ At(r, "get")
    /\ Goto(r, IF key.run # None /\ Host[key.run] = Host[r] THEN "del" ELSE "released")
    /\ UNCHANGED <<useRedis, alive, row, key, timer, deleting>>

DelKey(r) ==
    /\ At(r, "del")
    /\ key' = Gone
    /\ Goto(r, "released")
    /\ UNCHANGED <<useRedis, alive, row, timer, deleting>>

\* allSettled swallows a failing GET or DEL.
ReleaseKeyFails(r) ==
    /\ Live(r) /\ pc[r] \in {"get", "del"} /\ "redis" \in Faults
    /\ Goto(r, "released")
    /\ UNCHANGED <<useRedis, alive, row, key, timer, deleting>>

-----------------------------------------------------------------------------
(* Timers, time and crashes.                                               *)

\* Defect: the row is renewed for one interval only.
RenewShort(r) ==
    /\ Live(r) /\ timer[r] = "due"
    /\ timer' = [timer EXCEPT ![r] = "armed"]
    /\ \/ RowOf(r).run = r /\ SetRow(r, [run |-> r, left |-> 1])
       \/ RowOf(r).run # r /\ UNCHANGED row
       \/ "renew" \in Faults /\ UNCHANGED row
    /\ UNCHANGED <<useRedis, pc, alive, key, deleting>>

\* Defect: the renewal adds the TTL to what is left of it.
RenewAdds(r) ==
    /\ Live(r) /\ timer[r] = "due"
    /\ timer' = [timer EXCEPT ![r] = "armed"]
    /\ \/ RowOf(r).run = r /\ SetRow(r, [run |-> r, left |-> RowOf(r).left + Ttl])
       \/ RowOf(r).run # r /\ UNCHANGED row
       \/ "renew" \in Faults /\ UNCHANGED row
    /\ UNCHANGED <<useRedis, pc, alive, key, deleting>>

\* The interval fires: UPDATE ... AND id = leaseId.
Renew(r) ==
    /\ Live(r) /\ timer[r] = "due"
    /\ timer' = [timer EXCEPT ![r] = "armed"]
    /\ \/ RowOf(r).run = r /\ SetRow(r, Fresh(r))
       \/ RowOf(r).run # r /\ UNCHANGED row
       \/ "renew" \in Faults /\ UNCHANGED row
    /\ UNCHANGED <<useRedis, pc, alive, key, deleting>>

Less(x) == IF x = 0 THEN 0 ELSE x - 1

\* An expired key vanishes.
KeyAges == key' = IF key.left <= 1 THEN Gone ELSE [key EXCEPT !.left = @ - 1]

\* One interval passes; every timer fires in it.  Without the fault "overrun" no
\* run still needs the key when it expires.
Tick ==
    /\ \A r \in Run : Live(r) => timer[r] # "due"
    /\ key.left = 1 /\ "overrun" \notin Faults => ~Holding(key.run)
    /\ row' = [w \in Worker |-> [row[w] EXCEPT !.left = Less(@)]]
    /\ KeyAges
    /\ timer' = [r \in Run |-> IF Live(r) /\ timer[r] = "armed" THEN "due" ELSE timer[r]]
    /\ UNCHANGED <<useRedis, pc, alive, deleting>>

Crash(w) ==
    /\ "crash" \in Faults /\ w \in alive
    /\ alive' = alive \ {w}
    /\ UNCHANGED <<useRedis, pc, row, key, timer, deleting>>

Acquire(r) ==
    \/ ClearExpired(r) \/ Insert(r) \/ InsertConflict(r) \/ InsertFails(r)
    \/ SetKey(r) \/ KeyTaken(r) \/ SetKeyTwice(r) \/ SetKeyFails(r)
    \/ MemoryGrant(r)

Release(r) ==
    \/ Finish(r) \/ Reject(r) \/ DeleteRow(r) \/ GetKey(r) \/ DelKey(r)
    \/ ReleaseKeyFails(r)

Next ==
    \/ \E r \in Run : Acquire(r) \/ Release(r) \/ Renew(r)
    \/ Tick
    \/ \E w \in Worker : Crash(w)

Spec == Init /\ [][Next]_vars

\* Calls to the stores are answered, possibly with an error, executors answer,
\* timers fire and time passes.  Workers need not crash, and no run that was
\* refused or has rejected need come back to the node.
Fairness ==
    /\ WF_vars(Tick)
    /\ \A r \in Run : WF_vars(Acquire(r)) /\ WF_vars(Release(r)) /\ WF_vars(Renew(r))
FairSpec == Spec /\ Fairness

-----------------------------------------------------------------------------
(* What the lease promises.                                                *)

Pcs == {"cleanup", "insert", "redis", "holding", "get", "del", "released",
        "refused", "threw"}
Lease == [run : Run \cup {None}, left : 0..Ttl]

TypeOK ==
    /\ useRedis \in Redis
    /\ pc \in [Run -> Pcs]
    /\ alive \subseteq Worker
    /\ row \in [Worker -> Lease]
    /\ key \in Lease
    /\ timer \in [Run -> {"off", "armed", "due"}]
    /\ deleting \subseteq Run

\* A run that holds the lease has its key, unless it overran the TTL.
KeyInv ==
    "overrun" \notin Faults /\ useRedis =>
        /\ key.run # None => key.left > 0
        /\ \A r \in Run : Holding(r) => key.run = r

\* The timer is on from the insert to the release, for ever if there is none.
TimerInv ==
    \A r \in Run :
        /\ timer[r] # "off" <=> pc[r] \in {"redis", "holding", "threw"}
        /\ r \in deleting => pc[r] \in {"get", "del", "released", "refused"}

\* While its timer is on, a run's row is its own and up to date, unless a
\* renewal failed.
RowInv ==
    "renew" \notin Faults =>
        \A r \in Run :
            Live(r) /\ timer[r] # "off" =>
                /\ RowOf(r).run = r
                /\ RowOf(r).left = IF timer[r] = "due" THEN Ttl - 1 ELSE Ttl

IndInv == TypeOK /\ KeyInv /\ TimerInv /\ RowInv

\* Whatever keeps others out has an owner that is not through with the node: the
\* row of a live worker one that renews or deletes it, the key one that took it
\* and has not given it back.
OwnerInv ==
    /\ \A w \in Worker :
          row[w].run # None =>
              /\ Host[row[w].run] = w
              /\ w \in alive => timer[row[w].run] # "off" \/ row[w].run \in deleting
    /\ key.run # None => pc[key.run] \in {"holding", "get", "del", "threw"}
    /\ key.run = None => key = Gone
    /\ ~useRedis => key = Gone

\* "An exclusive lease": two runs never execute the node at the same time,
\* wherever they run (SET NX on the key).
LeaseExclusive == \A r, s \in Run : Executing(r) /\ Executing(s) => r = s

\* Two runs of one process never execute the node at the same time: the row of
\* the first, renewed in time, keeps the second out, with or without Redis.
InProcessExclusion ==
    \A r, s \in Run : Executing(r) /\ Executing(s) /\ Host[r] = Host[s] => r = s

\* A row that has not expired goes away only by its own run's DELETE, however
\* late the renewals and releases of other runs come.
OnlyOwnerRemovesLiveRow ==
    [][\A w \in Worker :
          LET r == row[w].run
          IN  r # None /\ row[w].left > 0 /\ row'[w].run # r
                  => r \in deleting /\ r \notin deleting']_vars

\* A run is turned away only because of another run that has the node or is giving
\* it back, never by what a run left behind that was refused or is through.
InBusiness(r) ==
    pc[r] \in {"redis", "holding", "get", "del", "threw"} \/ r \in deleting

RefusedByAnother ==
    [][\A r \in Run :
          pc[r] # "refused" /\ pc'[r] = "refused"
              => \E s \in Run \ {r} : InBusiness(s)]_vars

\* Nothing a run leaves behind stays for ever: once it is through with the node,
\* was refused it, or its worker has crashed, its key goes and its row is deleted or
\* expires, though statements and commands of the release fail, time out or are
\* sent twice.  Whoever comes to the node next is not kept out by it.
LeftoversExpire ==
    \A r \in Run :
        ~Live(r) \/ pc[r] \in {"released", "refused"}
            ~> key.run # r /\ \A w \in Worker : row[w].run = r => row[w].left = 0

\* Two workers competing for the node conflict on the table's unique index.
RowExclusive ==
    \A v, w \in Worker : row[v].left > 0 /\ row[w].left > 0 => v = w

\* "Only delete if we still own it": a run's DEL never takes away a key that
\* another worker has set.
DeletesOwnKey ==
    [][\A r \in Run :
          pc[r] = "del" /\ pc'[r] = "released" /\ key.run # None /\ key' = Gone
              => Host[key.run] = Host[r]]_vars

\* The row is renewed "while the node is still executing", not longer.
RenewedWhileExecuting ==
    \A r \in Run : Live(r) /\ timer[r] # "off" => pc[r] \in {"redis", "holding"}
=============================================================================
