-------------------------- MODULE NodeLease_proofs --------------------------
(***************************************************************************)
(* Proofs about NodeLease, for any number of runs and workers, any TTL of  *)
(* more than one renewal interval and any set of faults: exclusion within  *)
(* the TTL and within a process, who may remove a live row, and who may    *)
(* cause a refusal.                                                        *)
(***************************************************************************)
EXTENDS NodeLease, TLAPS

\* The initial state satisfies the inductive invariant.
LEMMA InitIndInv == Init => IndInv
BY LeaseAssumption
   DEF Init, IndInv, TypeOK, KeyInv, TimerInv, RowInv, Lease, Gone, Pcs, Holding,
       Live, RowOf

\* The variables keep their types through acquire.
LEMMA AcquireType ==
    ASSUME TypeOK, NEW r \in Run, Acquire(r)  PROVE  TypeOK'
<1>1. Gone \in Lease /\ Fresh(r) \in Lease
    BY LeaseAssumption DEF Gone, Fresh, Lease
<1>2. Host[r] \in Worker
    BY LeaseAssumption
<1>. USE <1>1, <1>2 DEF TypeOK, Pcs, At, Goto, SetRow
<1>3. CASE ClearExpired(r)     BY <1>3 DEF ClearExpired
<1>4. CASE Insert(r)           BY <1>4 DEF Insert
<1>5. CASE InsertConflict(r)   BY <1>5 DEF InsertConflict
<1>6. CASE InsertFails(r)      BY <1>6 DEF InsertFails
<1>7. CASE SetKey(r)           BY <1>7 DEF SetKey
<1>8. CASE KeyTaken(r)         BY <1>8 DEF KeyTaken
<1>9. CASE SetKeyTwice(r)      BY <1>9 DEF SetKeyTwice
<1>10. CASE SetKeyFails(r)     BY <1>10 DEF SetKeyFails
<1>11. CASE MemoryGrant(r)     BY <1>11 DEF MemoryGrant
<1>. QED BY <1>3, <1>4, <1>5, <1>6, <1>7, <1>8, <1>9, <1>10, <1>11
         DEF Acquire

\* ... and through release, renewal, the passing of time and crashes.
LEMMA ReleaseType ==
    ASSUME TypeOK, NEW r \in Run, Release(r) \/ Renew(r)  PROVE  TypeOK'
<1>1. Gone \in Lease /\ Fresh(r) \in Lease
    BY LeaseAssumption DEF Gone, Fresh, Lease
<1>2. Host[r] \in Worker
    BY LeaseAssumption
<1>. USE <1>1, <1>2 DEF TypeOK, Pcs, At, Goto, SetRow
<1>3. CASE Finish(r)           BY <1>3 DEF Finish
<1>4. CASE Reject(r)           BY <1>4 DEF Reject
<1>5. CASE DeleteRow(r)        BY <1>5 DEF DeleteRow
<1>6. CASE GetKey(r)           BY <1>6 DEF GetKey
<1>7. CASE DelKey(r)           BY <1>7 DEF DelKey
<1>8. CASE ReleaseKeyFails(r)  BY <1>8 DEF ReleaseKeyFails
<1>9. CASE Renew(r)            BY <1>9 DEF Renew
<1>. QED BY <1>3, <1>4, <1>5, <1>6, <1>7, <1>8, <1>9 DEF Release

LEMMA TickType == ASSUME TypeOK, Tick  PROVE  TypeOK'
<1>1. \A x \in Lease : [x EXCEPT !.left = Less(@)] \in Lease
    BY LeaseAssumption DEF Lease, Less
<1>2. row' \in [Worker -> Lease]
    BY <1>1 DEF Tick, TypeOK
<1>3. key' \in Lease
    BY LeaseAssumption DEF Tick, TypeOK, KeyAges, Gone, Lease
<1>. QED BY <1>2, <1>3 DEF Tick, TypeOK

\* The renewal timer is on exactly between the insert and the release.
LEMMA TimerStep ==
    ASSUME TypeOK, TimerInv, [Next]_vars  PROVE  TimerInv'
<1>. USE DEF TypeOK, TimerInv, At, Goto, Live
<1>1. CASE UNCHANGED vars  BY <1>1 DEF vars
<1>2. ASSUME NEW r \in Run, Acquire(r)  PROVE TimerInv'
    BY <1>2 DEF Acquire, ClearExpired, Insert, InsertConflict, InsertFails, SetKey,
                KeyTaken, SetKeyTwice, SetKeyFails, MemoryGrant
<1>3. ASSUME NEW r \in Run, Release(r)  PROVE TimerInv'
    BY <1>3 DEF Release, Finish, Reject, DeleteRow, GetKey, DelKey, ReleaseKeyFails
<1>4. ASSUME NEW r \in Run, Renew(r)  PROVE TimerInv'
    BY <1>4 DEF Renew
<1>5. CASE Tick  BY <1>5 DEF Tick
<1>6. ASSUME NEW w \in Worker, Crash(w)  PROVE TimerInv'
    BY <1>6 DEF Crash
<1>. QED BY <1>1, <1>2, <1>3, <1>4, <1>5, <1>6 DEF Next

\* While no run overruns the TTL, the key is the holder's.
LEMMA KeyStep ==
    ASSUME TypeOK, KeyInv, [Next]_vars  PROVE  KeyInv'
<1>0. useRedis' = useRedis
    BY DEF Next, vars, Acquire, ClearExpired, Insert, InsertConflict, InsertFails,
           SetKey, KeyTaken, SetKeyTwice, SetKeyFails, MemoryGrant, Release,
           Finish, Reject, DeleteRow, GetKey, DelKey, ReleaseKeyFails, Renew, Tick, Crash
<1>. SUFFICES ASSUME "overrun" \notin Faults, useRedis  PROVE KeyInv'
    BY <1>0 DEF KeyInv
<1>1. /\ key.run # None => key.left > 0
      /\ \A r \in Run : Holding(r) => key.run = r
    BY DEF KeyInv
<1>. USE <1>1, LeaseAssumption DEF TypeOK, KeyInv, Holding, At, Goto, Live
<1>2. CASE UNCHANGED vars  BY <1>2 DEF vars
<1>3. ASSUME NEW r \in Run, Acquire(r)  PROVE KeyInv'
  <2>1. CASE SetKey(r)  BY <2>1 DEF SetKey, Gone, Fresh
  <2>2. CASE SetKeyTwice(r)  BY <2>2 DEF SetKeyTwice, Gone, Fresh
  <2>3. CASE ~SetKey(r) /\ ~SetKeyTwice(r)
    <3>1. /\ key' = key /\ alive' = alive
          /\ \E p \in Pcs \ {"holding", "get", "del"} : pc' = [pc EXCEPT ![r] = p]
        BY <1>3, <2>3
           DEF Acquire, ClearExpired, Insert, InsertConflict, InsertFails, KeyTaken,
               SetKeyFails, MemoryGrant, Pcs
    <3>. QED BY <3>1
  <2>. QED BY <2>1, <2>2, <2>3
<1>4. ASSUME NEW r \in Run, Release(r)  PROVE KeyInv'
  <2>1. CASE DelKey(r)  BY <2>1 DEF DelKey, Gone
  <2>2. CASE ~DelKey(r)
    BY <1>4, <2>2 DEF Release, Finish, Reject, DeleteRow, GetKey, ReleaseKeyFails
  <2>. QED BY <2>1, <2>2
<1>5. ASSUME NEW r \in Run, Renew(r)  PROVE KeyInv'
    BY <1>5 DEF Renew
<1>6. CASE Tick
  <2>1. key.left \in Nat  BY DEF Lease
  <2>2. CASE key.left > 1  BY <1>6, <2>1, <2>2 DEF Tick, KeyAges, Lease
  <2>3. CASE key.left <= 1
    <3>1. \A r \in Run : ~Holding(r)
        BY <1>6, <2>1, <2>3 DEF Tick
    <3>. QED BY <1>6, <2>3, <3>1 DEF Tick, KeyAges, Gone
  <2>. QED BY <2>1, <2>2, <2>3
<1>7. ASSUME NEW w \in Worker, Crash(w)  PROVE KeyInv'
    BY <1>7 DEF Crash
<1>. QED BY <1>2, <1>3, <1>4, <1>5, <1>6, <1>7 DEF Next

\* While renewals succeed, no other run of the process gets at a renewed row.
LEMMA RowStep ==
    ASSUME TypeOK, TimerInv, RowInv, [Next]_vars  PROVE  RowInv'
<1>. SUFFICES ASSUME "renew" \notin Faults  PROVE RowInv'
    BY DEF RowInv
<1>. DEFINE Kept(q) == /\ row[Host[q]].run = q
                       /\ row[Host[q]].left = IF timer[q] = "due" THEN Ttl - 1 ELSE Ttl
<1>0. /\ \A q \in Run : Host[q] \in alive /\ timer[q] # "off" => Kept(q)
      /\ \A q \in Run : q # None /\ Host[q] \in Worker
      /\ Ttl - 1 > 0 /\ Ttl > 0
    BY LeaseAssumption DEF RowInv, Live, RowOf
<1>1. SUFFICES ASSUME NEW s \in Run, Host[s] \in alive', timer'[s] # "off"
               PROVE  Kept(s)'
    BY DEF RowInv, Live, RowOf
<1>. USE <1>0 DEF TypeOK, At, Goto, Live
<1>2. CASE UNCHANGED vars  BY <1>1, <1>2 DEF vars
<1>3. ASSUME NEW r \in Run, Acquire(r)  PROVE Kept(s)'
  <2>1. CASE Insert(r)
      BY <1>1, <2>1 DEF Insert, SetRow, RowOf, Fresh
  <2>2. CASE ~Insert(r)
    <3>1. /\ alive' = alive
          /\ timer' = timer \/ timer' = [timer EXCEPT ![r] = "off"]
        BY <1>3, <2>2
           DEF Acquire, ClearExpired, InsertConflict, InsertFails, SetKey, KeyTaken,
               SetKeyTwice, SetKeyFails, MemoryGrant
    <3>2. timer'[s] = timer[s] /\ Kept(s)
        BY <1>1, <3>1
    <3>3. CASE row' = row  BY <3>2, <3>3
    <3>4. CASE row' # row
      <4>1. /\ RowOf(r).left = 0 \/ RowOf(r).run = None
            /\ \E x : row' = [row EXCEPT ![Host[r]] = x]
          BY <1>3, <2>2, <3>4
             DEF Acquire, ClearExpired, InsertConflict, InsertFails, SetKey, KeyTaken,
                 SetKeyTwice, SetKeyFails, MemoryGrant, SetRow
      <4>2. Host[s] # Host[r]
          BY <3>2, <4>1 DEF RowOf
      <4>. QED BY <3>2, <4>1, <4>2
    <3>. QED BY <3>3, <3>4
  <2>. QED BY <2>1, <2>2
<1>4. ASSUME NEW r \in Run, Release(r)  PROVE Kept(s)'
  <2>1. /\ alive' = alive
        /\ timer' = timer \/ timer' = [timer EXCEPT ![r] = "off"]
      BY <1>4
         DEF Release, Finish, Reject, DeleteRow, GetKey, DelKey, ReleaseKeyFails
  <2>2. timer'[s] = timer[s] /\ Kept(s)
      BY <1>1, <2>1
  <2>3. CASE DeleteRow(r)
    <3>1. timer[r] = "off"
        BY <2>3 DEF DeleteRow, TimerInv
    <3>2. s # r /\ timer' = timer
        BY <1>1, <2>3, <3>1 DEF DeleteRow
    <3>. QED BY <2>2, <2>3, <3>2 DEF DeleteRow, RowOf, SetRow
  <2>4. CASE ~DeleteRow(r)
      BY <1>4, <2>2, <2>4 DEF Release, Finish, Reject, GetKey, DelKey, ReleaseKeyFails
  <2>. QED BY <2>3, <2>4
<1>5. ASSUME NEW r \in Run, Renew(r)  PROVE Kept(s)'
  <2>1. timer[r] # "off" /\ Kept(r) /\ alive' = alive
      BY <1>5 DEF Renew
  <2>2. CASE s = r
      BY <1>5, <2>1, <2>2 DEF Renew, RowOf, SetRow, Fresh
  <2>3. CASE s # r
    <3>1. timer'[s] = timer[s] /\ Kept(s)
        BY <1>1, <1>5, <2>1, <2>3 DEF Renew
    <3>2. Host[s] # Host[r]
        BY <2>1, <2>3, <3>1
    <3>. QED BY <1>5, <3>1, <3>2 DEF Renew, RowOf, SetRow
  <2>. QED BY <2>2, <2>3
<1>6. CASE Tick
  <2>1. /\ timer[s] = "armed" /\ timer'[s] = "due"
        /\ Host[s] \in alive
      BY <1>1, <1>6 DEF Tick
  <2>2. row[Host[s]].run = s /\ row[Host[s]].left = Ttl
      BY <2>1
  <2>3. row'[Host[s]] = [row[Host[s]] EXCEPT !.left = Less(@)]
      BY <1>6 DEF Tick
  <2>. QED BY <2>1, <2>2, <2>3, LeaseAssumption DEF Less, Lease
<1>7. ASSUME NEW w \in Worker, Crash(w)  PROVE Kept(s)'
    BY <1>1, <1>7 DEF Crash
<1>. QED BY <1>2, <1>3, <1>4, <1>5, <1>6, <1>7 DEF Next

\* The invariant is inductive.
LEMMA Inductive == Spec => []IndInv
<1>1. ASSUME IndInv, [Next]_vars  PROVE TypeOK'
  <2>. USE <1>1 DEF IndInv
  <2>1. CASE UNCHANGED vars  BY <2>1 DEF vars, TypeOK
  <2>2. CASE \E w \in Worker : Crash(w)  BY <2>2 DEF Crash, TypeOK
  <2>. QED BY <1>1, <2>1, <2>2, AcquireType, ReleaseType, TickType DEF Next
<1>2. IndInv /\ [Next]_vars => IndInv'
    BY <1>1, TimerStep, KeyStep, RowStep DEF IndInv
<1>. QED BY InitIndInv, <1>2, PTL DEF Spec

\* Every variable keeps its type, whatever fails.
THEOREM TypeCorrect == Spec => []TypeOK
<1>1. IndInv => TypeOK
    BY DEF IndInv
<1>. QED BY Inductive, <1>1, PTL

\* With Redis, and as long as no run needs the key for longer than its TTL, at
\* most one run on any worker executes the node: crashes, failing statements,
\* failing renewals and resent commands do not break the exclusion of SET NX.
THEOREM ExclusiveWithinTtl ==
    ASSUME "overrun" \notin Faults  PROVE Spec => [](useRedis => LeaseExclusive)
<1>1. IndInv => (useRedis => LeaseExclusive)
    BY LeaseAssumption
       DEF IndInv, KeyInv, LeaseExclusive, Executing, Holding, At, Live
<1>. QED BY Inductive, <1>1, PTL

\* As long as renewals succeed, at most one run of each process executes the
\* node, with or without Redis and however long the node takes.
THEOREM ExclusiveInProcess ==
    ASSUME "renew" \notin Faults  PROVE Spec => []InProcessExclusion
<1>1. ASSUME IndInv  PROVE InProcessExclusion
  <2>1. SUFFICES ASSUME NEW r \in Run, NEW s \in Run,
                        Executing(r), Executing(s), Host[r] = Host[s]
                 PROVE  r = s
      BY DEF InProcessExclusion
  <2>2. Live(r) /\ timer[r] # "off" /\ Live(s) /\ timer[s] # "off"
      BY <1>1, <2>1 DEF IndInv, TimerInv, Executing, At
  <2>3. RowOf(r).run = r /\ RowOf(s).run = s
      BY <1>1, <2>2 DEF IndInv, RowInv
  <2>. QED BY <2>1, <2>3 DEF RowOf
<1>. QED BY Inductive, <1>1, PTL

\* A step leaves each row to its run, clears it after it has expired, or is the
\* DELETE of the very run that wrote it.
LEMMA RowsOwner ==
    ASSUME TypeOK, [Next]_vars, NEW w \in Worker,
           row[w].run # None, row[w].left > 0, row'[w].run # row[w].run
    PROVE  row[w].run \in deleting /\ row[w].run \notin deleting'
<1>. USE DEF TypeOK, SetRow, RowOf
<1>1. CASE UNCHANGED vars  BY <1>1 DEF vars
<1>2. ASSUME NEW r \in Run, Acquire(r)  PROVE FALSE
  <2>1. CASE UNCHANGED row  BY <2>1
  <2>2. CASE row' # row
    <3>1. /\ RowOf(r).left = 0 \/ RowOf(r).run = None
          /\ \E x : row' = [row EXCEPT ![Host[r]] = x]
        BY <1>2, <2>2
           DEF Acquire, ClearExpired, Insert, InsertConflict, InsertFails, SetKey,
               KeyTaken, SetKeyTwice, SetKeyFails, MemoryGrant
    <3>2. w # Host[r]
        BY <3>1
    <3>. QED BY <3>1, <3>2
  <2>. QED BY <2>1, <2>2
<1>3. ASSUME NEW r \in Run, DeleteRow(r)
      PROVE  row[w].run \in deleting /\ row[w].run \notin deleting'
  <2>1. w = Host[r] /\ RowOf(r).run = r
      BY <1>3 DEF DeleteRow
  <2>. QED BY <1>3, <2>1 DEF DeleteRow
<1>4. ASSUME NEW r \in Run, Release(r), ~DeleteRow(r)  PROVE FALSE
    BY <1>4 DEF Release, Finish, Reject, GetKey, DelKey, ReleaseKeyFails
<1>5. ASSUME NEW r \in Run, Renew(r)  PROVE FALSE
    BY <1>5 DEF Renew, Fresh
<1>6. CASE Tick
    BY <1>6 DEF Tick, Lease
<1>7. ASSUME NEW v \in Worker, Crash(v)  PROVE FALSE
    BY <1>7 DEF Crash
<1>. QED BY <1>1, <1>2, <1>3, <1>4, <1>5, <1>6, <1>7 DEF Next

\* A row that has not expired goes away only by the DELETE of the run that wrote
\* it: the id in the statements of renewal and release keeps late ones off the
\* row of the next run.
THEOREM LiveRowIsOwners == Spec => OnlyOwnerRemovesLiveRow
<1>1. ASSUME IndInv, [Next]_vars
      PROVE  [\A w \in Worker :
                LET r == row[w].run
                IN  r # None /\ row[w].left > 0 /\ row'[w].run # r
                        => r \in deleting /\ r \notin deleting']_vars
    BY <1>1, RowsOwner DEF IndInv
<1>. QED BY Inductive, <1>1, PTL DEF Spec, OnlyOwnerRemovesLiveRow

\* Whatever keeps others out has an owner, as long as no statement and no command
\* fails: a row stays behind a failed DELETE, a key behind a failed DEL.
LEMMA OwnerStep ==
    ASSUME "db" \notin Faults, "redis" \notin Faults,
           TypeOK, TimerInv, OwnerInv, [Next]_vars
    PROVE  OwnerInv'
<1>. DEFINE Owned(w) == row[w].run # None =>
                /\ Host[row[w].run] = w
                /\ w \in alive => timer[row[w].run] # "off" \/ row[w].run \in deleting
            KeyOwned == /\ key.run # None =>
                              pc[key.run] \in {"holding", "get", "del", "threw"}
                        /\ key.run = None => key = Gone
                        /\ ~useRedis => key = Gone
<1>0. /\ \A w \in Worker : Owned(w)
      /\ KeyOwned
      /\ \A r \in Run : r # None /\ Host[r] \in Worker
      /\ \A w \in Worker : row[w].run \in Run \cup {None}
      /\ key.run \in Run \cup {None}
    BY LeaseAssumption DEF OwnerInv, TypeOK, Lease
<1>1. SUFFICES (\A w \in Worker : Owned(w)') /\ KeyOwned'
    BY DEF OwnerInv
<1>. USE <1>0 DEF TypeOK, At, Goto, Live
<1>2. CASE UNCHANGED vars  BY <1>2 DEF vars
<1>3. ASSUME NEW r \in Run, Acquire(r)
      PROVE  (\A w \in Worker : Owned(w)') /\ KeyOwned'
  <2>1. CASE ClearExpired(r)
    <3>1. KeyOwned'
        BY <2>1 DEF ClearExpired
    <3>2. ASSUME NEW w \in Worker  PROVE Owned(w)'
        BY <2>1, Owned(w) DEF ClearExpired, SetRow, Gone
    <3>. QED BY <3>1, <3>2
  <2>2. CASE Insert(r)
    <3>1. KeyOwned'
        BY <2>2 DEF Insert
    <3>2. ASSUME NEW w \in Worker  PROVE Owned(w)'
        BY <2>2, Owned(w) DEF Insert, SetRow, Fresh
    <3>. QED BY <3>1, <3>2
  <2>3. CASE InsertConflict(r)  BY <2>3 DEF InsertConflict
  <2>4. CASE InsertFails(r)  BY <2>4 DEF InsertFails
  <2>5. CASE SetKey(r)  BY <2>5 DEF SetKey, Fresh
  <2>6. CASE KeyTaken(r)  BY <2>6 DEF KeyTaken
  <2>7. CASE SetKeyTwice(r) \/ SetKeyFails(r)  BY <2>7 DEF SetKeyTwice, SetKeyFails
  <2>8. CASE MemoryGrant(r)  BY <2>8 DEF MemoryGrant
  <2>. QED BY <1>3, <2>1, <2>2, <2>3, <2>4, <2>5, <2>6, <2>7, <2>8 DEF Acquire
<1>4. ASSUME NEW r \in Run, Release(r)
      PROVE  (\A w \in Worker : Owned(w)') /\ KeyOwned'
  <2>1. CASE Finish(r)
    <3>1. KeyOwned'
      <4>1. CASE useRedis  BY <2>1, <4>1 DEF Finish
      <4>2. CASE ~useRedis  BY <2>1, <4>2 DEF Finish, Gone
      <4>. QED BY <4>1, <4>2
    <3>2. ASSUME NEW w \in Worker  PROVE Owned(w)'
        BY <2>1, Owned(w) DEF Finish
    <3>. QED BY <3>1, <3>2
  <2>2. CASE Reject(r)  BY <2>2 DEF Reject
  <2>3. CASE DeleteRow(r)
    <3>1. KeyOwned'
        BY <2>3 DEF DeleteRow
    <3>2. ASSUME NEW w \in Worker  PROVE Owned(w)'
        BY <2>3, Owned(w) DEF DeleteRow, SetRow, RowOf, Gone
    <3>. QED BY <3>1, <3>2
  <2>4. CASE GetKey(r)  BY <2>4 DEF GetKey
  <2>5. CASE DelKey(r)  BY <2>5 DEF DelKey, Gone
  <2>6. CASE ReleaseKeyFails(r)  BY <2>6 DEF ReleaseKeyFails
  <2>. QED BY <1>4, <2>1, <2>2, <2>3, <2>4, <2>5, <2>6 DEF Release
<1>5. ASSUME NEW r \in Run, Renew(r)
      PROVE  (\A w \in Worker : Owned(w)') /\ KeyOwned'
  <2>1. KeyOwned'
      BY <1>5 DEF Renew
  <2>2. ASSUME NEW w \in Worker  PROVE Owned(w)'
      BY <1>5, Owned(w) DEF Renew, SetRow, RowOf, Fresh
  <2>. QED BY <2>1, <2>2
<1>6. CASE Tick
  <2>1. KeyOwned'
      BY <1>6 DEF Tick, KeyAges, Gone
  <2>2. ASSUME NEW w \in Worker  PROVE Owned(w)'
    <3>1. row'[w].run = row[w].run
        BY <1>6 DEF Tick, Lease
    <3>. QED BY <1>6, <3>1, Owned(w) DEF Tick
  <2>. QED BY <2>1, <2>2
<1>7. ASSUME NEW w \in Worker, Crash(w)
      PROVE  (\A v \in Worker : Owned(v)') /\ KeyOwned'
    BY <1>7 DEF Crash
<1>. QED BY <1>2, <1>3, <1>4, <1>5, <1>6, <1>7 DEF Next

\* A run is refused at the insert, where the row of a live run of its process
\* stands, or at the key, which another run has.
LEMMA RefusalStep ==
    ASSUME "db" \notin Faults, "redis" \notin Faults,
           TypeOK, TimerInv, OwnerInv, [Next]_vars,
           NEW r \in Run, pc[r] # "refused", pc'[r] = "refused"
    PROVE  \E s \in Run \ {r} : InBusiness(s)
<1>1. InsertConflict(r) \/ KeyTaken(r)
  <2>. USE DEF TypeOK, At, Goto
  <2>1. CASE UNCHANGED vars  BY <2>1 DEF vars
  <2>2. ASSUME NEW q \in Run, Acquire(q)  PROVE InsertConflict(r) \/ KeyTaken(r)
    <3>1. \/ InsertConflict(q) \/ KeyTaken(q)
          \/ \E p : p # "refused" /\ pc' = [pc EXCEPT ![q] = p]
        BY <2>2 DEF Acquire, ClearExpired, Insert, InsertFails, SetKey, SetKeyTwice,
                    SetKeyFails, MemoryGrant
    <3>2. q = r
        BY <3>1 DEF InsertConflict, KeyTaken
    <3>. QED BY <3>1, <3>2
  <2>3. ASSUME NEW q \in Run, Release(q)  PROVE FALSE
      BY <2>3 DEF Release, Finish, Reject, DeleteRow, GetKey, DelKey, ReleaseKeyFails
  <2>4. CASE (\E q \in Run : Renew(q)) \/ Tick \/ \E w \in Worker : Crash(w)
      BY <2>4 DEF Renew, Tick, Crash
  <2>. QED BY <2>1, <2>2, <2>3, <2>4 DEF Next
<1>2. CASE InsertConflict(r)
  <2>. DEFINE s == row[Host[r]].run
  <2>1. s \in Run /\ Host[r] \in Worker /\ Host[r] \in alive /\ pc[r] = "insert"
      BY <1>2, LeaseAssumption DEF InsertConflict, RowOf, At, Live, TypeOK, Lease
  <2>2. timer[s] # "off" \/ s \in deleting
      BY <2>1, LeaseAssumption DEF OwnerInv
  <2>3. s # r
      BY <2>1, <2>2 DEF TimerInv
  <2>4. InBusiness(s)
      BY <2>1, <2>2 DEF InBusiness, TimerInv
  <2>. QED BY <2>1, <2>3, <2>4
<1>3. CASE KeyTaken(r)
  <2>1. key.run \in Run /\ pc[key.run] \in {"holding", "get", "del", "threw"}
      BY <1>3 DEF KeyTaken, OwnerInv, TypeOK, Lease
  <2>2. key.run # r
      BY <1>3, <2>1 DEF KeyTaken, At
  <2>. QED BY <2>1, <2>2 DEF InBusiness
<1>. QED BY <1>1, <1>2, <1>3

\* As long as no statement and no command fails, a run is refused only because of
\* another run that has the node or is giving it back: refused and finished runs
\* leave nothing behind that keeps a later one out.
THEOREM NoneRefusedInVain ==
    ASSUME "db" \notin Faults, "redis" \notin Faults  PROVE Spec => RefusedByAnother
<1>1. Init => OwnerInv
    BY DEF Init, OwnerInv, Gone
<1>2. OwnerInv /\ IndInv /\ [Next]_vars => OwnerInv'
    BY OwnerStep DEF IndInv
<1>3. ASSUME IndInv, OwnerInv, [Next]_vars
      PROVE  [\A r \in Run :
                pc[r] # "refused" /\ pc'[r] = "refused"
                    => \E s \in Run \ {r} : InBusiness(s)]_vars
    BY <1>3, RefusalStep DEF IndInv
<1>. QED BY Inductive, <1>1, <1>2, <1>3, PTL DEF Spec, RefusedByAnother
=============================================================================
