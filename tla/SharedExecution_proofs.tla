----------------------- MODULE SharedExecution_proofs -----------------------
(***************************************************************************)
(* Proofs about SharedExecution, for any runs, graph, attempts and faults: *)
(* types, one executing run per node, no work on missing inputs, what      *)
(* stands behind a refused lease, and, in graphs without joins, that an    *)
(* execution that completed is whole.                                      *)
(***************************************************************************)
EXTENDS SharedExecution, TLAPS

IndInv == TypeOK /\ RowInv /\ OwnInv /\ InputInv /\ LeaseInv

\* The keys of the checkpoint table; every node has a first attempt.
LEMMA Keys ==
    /\ \A n \in Node : \A k \in 1..MaxAttempts[n] : <<n, k>> \in Key
    /\ \A x \in Key : \E n \in Node : \E k \in 1..MaxAttempts[n] : x = <<n, k>>
    /\ \A n \in Node : 1 \in 1..MaxAttempts[n]
BY SharedAssumption DEF Key

\* A node has rows when one of its keys has.
LEMMA RowsOf ==
    /\ \A n \in Node : \A x \in Rows(n) : x \in Key /\ x[1] = n /\ status[x] # "none"
    /\ \A n \in Node : \A k \in 1..MaxAttempts[n] :
         status[<<n, k>>] # "none" => <<n, k>> \in Rows(n)
BY Keys DEF Rows

\* Moving one node of one run.
LEMMA Moves ==
    ASSUME TypeOK, NEW r \in Run, NEW n \in Node, NEW place \in Places, Move(r, n, place)
    PROVE  /\ at' \in [Run -> [Node -> Places]]
           /\ at'[r][n] = place
           /\ \A q \in Run : \A m \in Node : q # r \/ m # n => at'[q][m] = at[q][m]
BY DEF TypeOK, Move

LEMMA Typing == TypeOK /\ [Next]_vars => TypeOK'
<1>. SUFFICES ASSUME TypeOK, [Next]_vars  PROVE TypeOK'
    OBVIOUS
<1>. USE DEF TypeOK, table
<1>1. ASSUME NEW r \in Run, RunStep(r) \/ Crash(r)  PROVE TypeOK'
  <2>1. CASE Begin(r)
      BY <2>1 DEF Begin, States
  <2>2. CASE Complete(r) \/ Settle(r)
      BY <2>2 DEF Complete, Settle, States
  <2>3. CASE GiveUp(r) \/ Crash(r)
      BY <2>3 DEF GiveUp, Crash, States
  <2>. QED BY <1>1, <2>1, <2>2, <2>3 DEF RunStep
<1>2. ASSUME NEW r \in Run, NEW n \in Node, NodeStep(r, n)  PROVE TypeOK'
  <2>1. CASE Start(r, n) \/ RefuseLease(r, n) \/ ProbeMiss(r, n)
    <3>1. Move(r, n, "lease") \/ Move(r, n, "refused") \/ Move(r, n, "save")
        BY <2>1 DEF Start, RefuseLease, ProbeMiss
    <3>2. at' \in [Run -> [Node -> Places]]
        BY <3>1, Moves DEF Places
    <3>. QED BY <2>1, <3>2 DEF Start, RefuseLease, ProbeMiss
  <2>9. CASE TakeLease(r, n)
      BY <2>9, Moves DEF TakeLease, Places
  <2>2. CASE ProbeHit(r, n)
      BY <2>2, Moves DEF ProbeHit, Propagate, Places
  <2>3. CASE Save(r, n)
      BY <2>3, Moves DEF Save, Places
  <2>4. CASE SaveConflict(r, n)
    <3>1. Move(r, n, "rejected")
        BY <2>4 DEF SaveConflict
    <3>2. at' \in [Run -> [Node -> Places]]
        BY <3>1, Moves DEF Places
    <3>3. state' \in [Run -> States]
        BY <2>4 DEF SaveConflict, States
    <3>. QED BY <2>4, <3>2, <3>3 DEF SaveConflict
  <2>5. CASE Succeed(r, n)
    <3>1. /\ status' \in [Key -> {"none", "running", "success", "failed"}]
          /\ stack' \in [Run -> SUBSET Node]
        BY <2>5 DEF Succeed
    <3>2. unlocked' \in [Run -> SUBSET Node] /\ at' \in [Run -> [Node -> Places]]
        BY <2>5, Moves DEF Succeed, Propagate, Places
    <3>. QED BY <2>5, <3>1, <3>2 DEF Succeed
  <2>6. CASE Fail(r, n)
    <3>1. status' \in [Key -> {"none", "running", "success", "failed"}]
        BY <2>6 DEF Fail
    <3>2. at' \in [Run -> [Node -> Places]] /\ failed' \in [Run -> BOOLEAN]
      <4>1. Move(r, n, "save") \/ Move(r, n, "release")
          BY <2>6 DEF Fail
      <4>2. failed' = failed \/ failed' = [failed EXCEPT ![r] = TRUE]
          BY <2>6 DEF Fail
      <4>3. at' \in [Run -> [Node -> Places]]
          BY <4>1, Moves DEF Places
      <4>. QED BY <4>2, <4>3
    <3>3. /\ attempt' \in [Run -> [Node -> Nat \ {0}]]
          /\ \A q \in Run : \A m \in Node : attempt'[q][m] <= MaxAttempts[m]
      <4>1. CASE /\ attempt[r][n] < MaxAttempts[n]
                 /\ attempt' = [attempt EXCEPT ![r][n] = @ + 1]
        <5>1. attempt[r][n] + 1 \in Nat \ {0} /\ attempt[r][n] + 1 <= MaxAttempts[n]
            BY <4>1, SharedAssumption
        <5>. QED BY <4>1, <5>1
      <4>2. CASE UNCHANGED attempt
          BY <4>2
      <4>. QED BY <2>6, <4>1, <4>2 DEF Fail
    <3>. QED BY <2>6, <3>1, <3>2, <3>3 DEF Fail
  <2>7. CASE Release(r, n)
    <3>1. holder' \in [Node -> Run \cup {None}]
        BY <2>7 DEF Release
    <3>. QED BY <2>7, <3>1, Moves DEF Release, Places
  <2>8. CASE Compensate(r, n)
      BY <2>8 DEF Compensate
  <2>. QED BY <1>2, <2>1, <2>2, <2>3, <2>4, <2>5, <2>6, <2>7, <2>8, <2>9
           DEF NodeStep
<1>3. ASSUME NEW n \in Node, Expire(n)  PROVE TypeOK'
    BY <1>3 DEF Expire
<1>4. CASE UNCHANGED vars
    BY <1>4 DEF vars
<1>. QED BY <1>1, <1>2, <1>3, <1>4 DEF Next

\* A run that executes a node has a row that says so.
LEMMA ExecutingRows ==
    ASSUME OwnInv
    PROVE  \A q \in Run : \A m \in Node :
             at[q][m] = "execute" => status[<<m, attempt[q][m]>>] = "running"
<1>. DEFINE first(q, m) == at[q][m] \in {"idle", "lease", "probe"} => attempt[q][m] = 1
            later(q, m) == at[q][m] \in {"save", "execute"} /\ attempt[q][m] # 1
                             => writer[<<m, 1>>] = q
            mine(q, m) == writer[<<m, attempt[q][m]>>] = q
            running(q, m) == status[<<m, attempt[q][m]>>] = "running"
<1>1. \A q \in Run : \A m \in Node :
        /\ first(q, m) /\ later(q, m)
        /\ at[q][m] = "execute" => running(q, m) /\ mine(q, m)
    BY Zenon DEF OwnInv
<1>2. \A q \in Run : \A m \in Node : at[q][m] = "execute" => running(q, m)
  <2>. HIDE DEF first, later, mine, running
  <2>. QED BY ONLY <1>1
<1>. QED BY <1>2

\* Only four steps touch rows, places or attempts in a way that matters here.
LEMMA RowStep ==
    ASSUME TypeOK, RowInv, OwnInv, TypeOK', [Next]_vars
    PROVE  RowInv' /\ OwnInv'
<1>. USE DEF TypeOK, table
<1>1. ASSUME NEW r \in Run, RunStep(r) \/ Crash(r)  PROVE RowInv' /\ OwnInv'
    BY <1>1 DEF RunStep, Begin, Complete, Settle, GiveUp, Crash, RowInv, OwnInv
<1>2. ASSUME NEW r \in Run, NEW n \in Node, NodeStep(r, n)  PROVE RowInv' /\ OwnInv'
  <2>1. CASE \/ Start(r, n) \/ TakeLease(r, n) \/ RefuseLease(r, n)
             \/ ProbeHit(r, n) \/ ProbeMiss(r, n) \/ SaveConflict(r, n) \/ Release(r, n)
    <3>1. UNCHANGED <<table, attempt>>
        BY <2>1 DEF Start, TakeLease, RefuseLease, ProbeHit, ProbeMiss, SaveConflict,
                    Release
    <3>2. /\ \A q \in Run : \A m \in Node : q # r \/ m # n => at'[q][m] = at[q][m]
          /\ at'[r][n] # "execute"
          /\ at'[r][n] = "save" => at[r][n] = "probe"
          /\ at'[r][n] \in {"lease", "probe"} => at[r][n] \in {"idle", "lease"}
          /\ at'[r][n] # "idle"
        BY <2>1 DEF Start, TakeLease, RefuseLease, ProbeHit, ProbeMiss, SaveConflict,
                    Release, Move, Ready
    <3>3. RowInv'
        BY <3>1 DEF RowInv
    <3>4. ASSUME NEW q \in Run, NEW m \in Node
          PROVE  /\ at'[q][m] \in {"idle", "lease", "probe"} => attempt'[q][m] = 1
                 /\ at'[q][m] \in {"save", "execute"} /\ attempt'[q][m] # 1
                      => writer'[<<m, 1>>] = q
                 /\ at'[q][m] = "execute" =>
                      /\ status'[<<m, attempt'[q][m]>>] = "running"
                      /\ writer'[<<m, attempt'[q][m]>>] = q
      <4>1. CASE q = r /\ m = n
          BY <3>1, <3>2, <4>1 DEF OwnInv
      <4>2. CASE q # r \/ m # n
          BY <3>1, <3>2, <4>2 DEF OwnInv
      <4>. QED BY <4>1, <4>2
    <3>5. OwnInv'
        BY <3>4 DEF OwnInv
    <3>. QED BY <3>3, <3>5
  <2>2. CASE Save(r, n)
    <3>. DEFINE k == attempt[r][n]
    <3>1. /\ at[r][n] = "save" /\ status[<<n, k>>] = "none"
          /\ status' = [status EXCEPT ![<<n, k>>] = "running"]
          /\ writer' = [writer EXCEPT ![<<n, k>>] = r]
          /\ at' = [at EXCEPT ![r][n] = "execute"]
          /\ UNCHANGED attempt
        BY <2>2 DEF Save, Move
    <3>2. k \in 1..MaxAttempts[n] /\ <<n, k>> \in Key /\ <<n, 1>> \in Key
        BY Keys, SharedAssumption
    <3>3. \A j \in 1..MaxAttempts[n] : status[<<n, j>>] # "none" =>
            k # 1 /\ writer[<<n, j>>] = r
        BY <3>1, <3>2 DEF RowInv, OwnInv
    <3>4. k # 1 => writer[<<n, 1>>] = r /\ status[<<n, 1>>] # "none"
        BY <3>1, <3>2 DEF RowInv, OwnInv
    <3>5. \A m \in Node : \A j \in 1..MaxAttempts[m] :
            /\ <<m, j>> \in Key /\ <<m, 1>> \in Key
            /\ m # n \/ j # k => /\ status'[<<m, j>>] = status[<<m, j>>]
                                 /\ writer'[<<m, j>>] = writer[<<m, j>>]
        BY <3>1, Keys
    <3>6. \A x \in Key : status'[x] # "none" <=> writer'[x] \in Run
        BY <3>1, <3>2 DEF RowInv
    <3>7. ASSUME NEW m \in Node, NEW j \in 1..MaxAttempts[m], status'[<<m, j>>] # "none"
          PROVE  status'[<<m, 1>>] # "none" /\ writer'[<<m, j>>] = writer'[<<m, 1>>]
      <4>1. CASE m # n
          BY <3>5, <3>7, <4>1, Keys DEF RowInv
      <4>2. CASE m = n
          BY <3>1, <3>2, <3>3, <3>4, <3>5, <3>7, <4>2, Keys
      <4>. QED BY <4>1, <4>2
    <3>8. RowInv'
        BY <3>6, <3>7 DEF RowInv
    <3>9. ASSUME NEW q \in Run, NEW m \in Node
          PROVE  /\ at'[q][m] \in {"idle", "lease", "probe"} => attempt'[q][m] = 1
                 /\ at'[q][m] \in {"save", "execute"} /\ attempt'[q][m] # 1
                      => writer'[<<m, 1>>] = q
                 /\ at'[q][m] = "execute" =>
                      /\ status'[<<m, attempt'[q][m]>>] = "running"
                      /\ writer'[<<m, attempt'[q][m]>>] = q
      <4>1. CASE q = r /\ m = n
          BY <3>1, <3>2, <3>4, <4>1
      <4>2. CASE q # r \/ m # n
        <5>1. at'[q][m] = at[q][m] /\ attempt'[q][m] = attempt[q][m]
            BY <3>1, <4>2
        <5>2. attempt[q][m] \in 1..MaxAttempts[m] /\ 1 \in 1..MaxAttempts[m]
            BY SharedAssumption
        <5>3. at[q][m] = "execute" => m # n \/ attempt[q][m] # k
          <6>1. at[q][m] = "execute" => status[<<m, attempt[q][m]>>] = "running"
              BY ExecutingRows
          <6>. QED BY <3>1, <6>1
        <5>4. ASSUME at[q][m] \in {"save", "execute"}, attempt[q][m] # 1
              PROVE  writer'[<<m, 1>>] = q
          <6>1. writer[<<m, 1>>] = q
              BY <5>4 DEF OwnInv
          <6>2. <<m, 1>> \in Key /\ status[<<m, 1>>] # "none"
              BY <5>2, <6>1, Keys DEF RowInv
          <6>. QED BY <3>1, <3>5, <5>2, <6>1, <6>2
        <5>. QED BY <3>5, <5>1, <5>2, <5>3, <5>4 DEF OwnInv
      <4>. QED BY <4>1, <4>2
    <3>10. OwnInv'
        BY <3>9 DEF OwnInv
    <3>. QED BY <3>8, <3>10
  <2>3. CASE Succeed(r, n) \/ Fail(r, n)
    <3>. DEFINE k == attempt[r][n]
    <3>1. /\ at[r][n] = "execute"
          /\ \E s \in {"success", "failed"} : status' = [status EXCEPT ![<<n, k>>] = s]
          /\ UNCHANGED writer
        BY <2>3 DEF Succeed, Fail
    <3>2. /\ k \in 1..MaxAttempts[n] /\ <<n, k>> \in Key
          /\ status[<<n, k>>] = "running" /\ writer[<<n, k>>] = r
      <4>1. status[<<n, k>>] = "running" /\ writer[<<n, k>>] = r
          BY <3>1 DEF OwnInv
      <4>2. k \in 1..MaxAttempts[n]
          BY SharedAssumption
      <4>. QED BY <4>1, <4>2, Keys
    <3>3. \A x \in Key : /\ status'[x] # "none" <=> status[x] # "none"
                         /\ x # <<n, k>> => status'[x] = status[x]
        BY <3>1, <3>2
    <3>4. RowInv'
        BY <3>1, <3>3, Keys DEF RowInv
    <3>5. \/ at' = [at EXCEPT ![r][n] = "release"] /\ UNCHANGED attempt
          \/ /\ at' = [at EXCEPT ![r][n] = "save"]
             /\ attempt' = [attempt EXCEPT ![r][n] = k + 1]
        BY <2>3 DEF Succeed, Fail, Move
    <3>6. writer[<<n, 1>>] = r
        BY <3>2 DEF RowInv
    <3>7. ASSUME NEW q \in Run, NEW m \in Node
          PROVE  /\ at'[q][m] \in {"idle", "lease", "probe"} => attempt'[q][m] = 1
                 /\ at'[q][m] \in {"save", "execute"} /\ attempt'[q][m] # 1
                      => writer'[<<m, 1>>] = q
                 /\ at'[q][m] = "execute" =>
                      /\ status'[<<m, attempt'[q][m]>>] = "running"
                      /\ writer'[<<m, attempt'[q][m]>>] = q
      <4>1. CASE q = r /\ m = n
          BY <3>1, <3>5, <3>6, <4>1
      <4>2. CASE q # r \/ m # n
        <5>1. at'[q][m] = at[q][m] /\ attempt'[q][m] = attempt[q][m]
            BY <3>5, <4>2
        <5>2. attempt[q][m] \in 1..MaxAttempts[m] /\ <<m, attempt[q][m]>> \in Key
            BY SharedAssumption, Keys
        <5>3. at[q][m] = "execute" => <<m, attempt[q][m]>> # <<n, k>>
          <6>1. at[q][m] = "execute" => writer[<<m, attempt[q][m]>>] = q
              BY DEF OwnInv
          <6>. QED BY <3>2, <4>2, <6>1
        <5>. QED BY <3>1, <3>3, <5>1, <5>2, <5>3 DEF OwnInv
      <4>. QED BY <4>1, <4>2
    <3>8. OwnInv'
        BY <3>7 DEF OwnInv
    <3>. QED BY <3>4, <3>8
  <2>4. CASE Compensate(r, n)
      BY <2>4 DEF Compensate, RowInv, OwnInv
  <2>. QED BY <1>2, <2>1, <2>2, <2>3, <2>4 DEF NodeStep
<1>3. ASSUME NEW n \in Node, Expire(n)  PROVE RowInv' /\ OwnInv'
    BY <1>3 DEF Expire, RowInv, OwnInv
<1>4. CASE UNCHANGED vars
    BY <1>4 DEF vars, RowInv, OwnInv
<1>. QED BY <1>1, <1>2, <1>3, <1>4 DEF Next

\* A row stays, and a success stays one: only who inserted a row updates it.
LEMMA RowsStay ==
    ASSUME TypeOK, OwnInv, [Next]_vars
    PROVE  /\ \A n \in Node : Succeeded(n) => Succeeded(n)'
           /\ \A n \in Node : Rows(n) # {} => (Rows(n) # {})'
<1>. USE DEF TypeOK, table
<1>1. \A x \in Key : /\ status[x] # "none" => status'[x] # "none"
                     /\ status[x] = "success" => status'[x] = "success"
  <2>1. ASSUME NEW r \in Run, NEW n \in Node, Save(r, n) \/ Succeed(r, n) \/ Fail(r, n)
        PROVE  \E s \in {"running", "success", "failed"} :
                 /\ status' = [status EXCEPT ![<<n, attempt[r][n]>>] = s]
                 /\ status[<<n, attempt[r][n]>>] # "success"
      BY <2>1 DEF Save, Succeed, Fail, OwnInv
  <2>2. \/ UNCHANGED status
        \/ \E r \in Run : \E n \in Node : Save(r, n) \/ Succeed(r, n) \/ Fail(r, n)
    <3>1. ASSUME NEW r \in Run, RunStep(r) \/ Crash(r)  PROVE UNCHANGED status
        BY <3>1 DEF RunStep, Begin, Complete, Settle, GiveUp, Crash
    <3>2. ASSUME NEW r \in Run, NEW n \in Node, NodeStep(r, n)
          PROVE  UNCHANGED status \/ Save(r, n) \/ Succeed(r, n) \/ Fail(r, n)
        BY <3>2 DEF NodeStep, Start, TakeLease, RefuseLease, ProbeHit, ProbeMiss,
                    SaveConflict, Release, Compensate
    <3>3. ASSUME NEW n \in Node, Expire(n)  PROVE UNCHANGED status
        BY <3>3 DEF Expire
    <3>. QED BY ONLY <3>1, <3>2, <3>3, [Next]_vars DEF Next, vars, table
  <2>. QED BY <2>1, <2>2
<1>. QED BY <1>1 DEF Succeeded, Rows

LEMMA InputStep ==
    ASSUME TypeOK, OwnInv, InputInv, [Next]_vars
    PROVE  InputInv'
<1>. USE DEF TypeOK, table
<1>. DEFINE Kept == /\ UNCHANGED unlocked
                    /\ \A q \in Run : \A m \in Node :
                         at'[q][m] # "idle" => at[q][m] # "idle"
<1>1. CASE Kept
    BY <1>1, RowsStay DEF InputInv
<1>2. ASSUME NEW r \in Run, NEW n \in Node, Start(r, n)  PROVE InputInv'
  <2>1. /\ UNCHANGED unlocked /\ Pred(n) \subseteq unlocked[r]
        /\ \A q \in Run : \A m \in Node : q # r \/ m # n => at'[q][m] = at[q][m]
      BY <1>2 DEF Start, Ready, Move
  <2>2. Pred(n)' = Pred(n)
      BY DEF Pred
  <2>. QED BY <2>1, <2>2, RowsStay DEF InputInv, Pred
<1>3. ASSUME NEW r \in Run, NEW n \in Node, ProbeHit(r, n) \/ Succeed(r, n)
      PROVE  InputInv'
  <2>1. Succeeded(n)'
    <3>1. CASE ProbeHit(r, n)
        BY <3>1, RowsStay DEF ProbeHit
    <3>2. CASE Succeed(r, n)
      <4>1. attempt[r][n] \in 1..MaxAttempts[n] /\ <<n, attempt[r][n]>> \in Key
          BY SharedAssumption, Keys
      <4>2. status'[<<n, attempt[r][n]>>] = "success"
          BY <3>2, <4>1 DEF Succeed
      <4>. QED BY <4>1, <4>2 DEF Succeeded, Rows
    <3>. QED BY <1>3, <3>1, <3>2
  <2>2. /\ \A q \in Run : unlocked[q] \subseteq unlocked'[q]
                          /\ unlocked'[q] \subseteq unlocked[q] \cup {n}
        /\ \A q \in Run : \A m \in Node : at'[q][m] # "idle" => at[q][m] # "idle"
    <3>1. Propagate(r, n) /\ Move(r, n, "release") /\ at[r][n] # "idle"
        BY <1>3 DEF ProbeHit, Succeed
    <3>2. \A q \in Run : \A m \in Node : q # r \/ m # n => at'[q][m] = at[q][m]
        BY <3>1, Moves DEF Places
    <3>. QED BY <3>1, <3>2 DEF Propagate
  <2>. QED BY <2>1, <2>2, RowsStay DEF InputInv, Pred
<1>4. ASSUME NEW r \in Run, RunStep(r) \/ Crash(r)  PROVE Kept
    BY <1>4 DEF RunStep, Begin, Complete, Settle, GiveUp, Crash
<1>5. ASSUME NEW r \in Run, NEW n \in Node,
             \/ TakeLease(r, n) \/ RefuseLease(r, n) \/ ProbeMiss(r, n) \/ Save(r, n)
             \/ SaveConflict(r, n) \/ Fail(r, n) \/ Release(r, n) \/ Compensate(r, n)
      PROVE  Kept
    BY <1>5 DEF TakeLease, RefuseLease, ProbeMiss, Save, SaveConflict, Fail, Release,
                Compensate, Move
<1>6. ASSUME NEW n \in Node, Expire(n)  PROVE Kept
    BY <1>6 DEF Expire
<1>7. CASE UNCHANGED vars
    BY <1>1, <1>7 DEF vars
<1>. QED BY <1>1, <1>2, <1>3, <1>4, <1>5, <1>6, <1>7 DEF Next, NodeStep

\* A row that is there: what makes Rows(n) non-empty.
LEMMA HasRow ==
    ASSUME NEW r \in Run, NEW n \in Node, TypeOK, status[<<n, attempt[r][n]>>] # "none"
    PROVE  Rows(n) # {}
<1>1. attempt[r][n] \in 1..MaxAttempts[n]
    BY SharedAssumption DEF TypeOK
<1>. QED BY <1>1, RowsOf

LEMMA LeaseStep ==
    ASSUME TypeOK, OwnInv, LeaseInv, TypeOK', [Next]_vars
    PROVE  LeaseInv'
<1>. USE DEF TypeOK, table
<1>. DEFINE Kept == /\ \A m \in Node : holder'[m] # None => holder'[m] = holder[m]
                    /\ UNCHANGED at
<1>1. CASE Kept
    BY <1>1, RowsStay DEF LeaseInv
<1>2. ASSUME NEW r \in Run, NEW n \in Node, NEW place \in Places, Move(r, n, place),
             place \notin {"idle", "lease"},
             place = "refused" => holder[n] # r,
             place \in {"execute", "release", "done", "rejected"} => (Rows(n) # {})',
             \A m \in Node : \/ holder'[m] \in {None, holder[m]}
                             \/ m = n /\ holder'[m] = r /\ place # "refused"
      PROVE  LeaseInv'
  <2>1. /\ at'[r][n] = place
        /\ \A q \in Run : \A m \in Node : q # r \/ m # n => at'[q][m] = at[q][m]
      BY <1>2 DEF Move
  <2>2. \A m \in Node : holder'[m] # None =>
            at'[holder'[m]][m] \notin {"idle", "lease", "refused"}
    <3>. SUFFICES ASSUME NEW m \in Node, holder'[m] # None
                  PROVE  at'[holder'[m]][m] \notin {"idle", "lease", "refused"}
        OBVIOUS
    <3>1. CASE m = n /\ holder'[m] = r
        BY <1>2, <2>1, <3>1
    <3>2. CASE holder'[m] = holder[m] /\ ~(m = n /\ holder'[m] = r)
        BY <2>1, <3>2 DEF LeaseInv
    <3>. QED BY <1>2, <3>1, <3>2
  <2>3. \A q \in Run : \A m \in Node :
            at'[q][m] \in {"execute", "release", "done", "rejected"} => (Rows(m) # {})'
    <3>. SUFFICES ASSUME NEW q \in Run, NEW m \in Node,
                         at'[q][m] \in {"execute", "release", "done", "rejected"}
                  PROVE  (Rows(m) # {})'
        OBVIOUS
    <3>1. CASE q = r /\ m = n
        BY <1>2, <2>1, <3>1
    <3>2. CASE q # r \/ m # n
        BY <2>1, <3>2, RowsStay DEF LeaseInv
    <3>. QED BY <3>1, <3>2
  <2>. QED BY <2>2, <2>3 DEF LeaseInv
<1>3. ASSUME NEW r \in Run, NEW n \in Node, NodeStep(r, n)  PROVE LeaseInv'
  <2>1. CASE Start(r, n)
    <3>1. UNCHANGED holder /\ at' = [at EXCEPT ![r][n] = "lease"] /\ at[r][n] = "idle"
        BY <2>1 DEF Start, Move, Ready
    <3>2. holder[n] # r
        BY <3>1, SharedAssumption DEF LeaseInv
    <3>3. \A q \in Run : \A m \in Node :
            at'[q][m] = IF q = r /\ m = n THEN "lease" ELSE at[q][m]
        BY <3>1
    <3>4. \A m \in Node : holder'[m] # None =>
            at'[holder'[m]][m] \notin {"idle", "lease", "refused"}
      <4>. TAKE m \in Node
      <4>1. holder[m] # None => /\ holder[m] \in Run
                                /\ at[holder[m]][m] \notin {"idle", "lease", "refused"}
          BY DEF LeaseInv
      <4>2. holder[m] \in Run => ~(holder[m] = r /\ m = n)
          BY <3>2
      <4>. QED BY ONLY <3>1, <3>3, <4>1, <4>2, m \in Node
    <3>5. \A q \in Run : \A m \in Node :
            at'[q][m] \in {"execute", "release", "done", "rejected"} => (Rows(m) # {})'
      <4>. SUFFICES ASSUME NEW q \in Run, NEW m \in Node
                    PROVE  at'[q][m] \in {"execute", "release", "done", "rejected"}
                             => (Rows(m) # {})'
          OBVIOUS
      <4>1. at[q][m] \in {"execute", "release", "done", "rejected"} => Rows(m) # {}
          BY DEF LeaseInv
      <4>2. Rows(m) # {} => (Rows(m) # {})'
          BY RowsStay
      <4>. QED BY ONLY <3>3, <4>1, <4>2, q \in Run, m \in Node
    <3>. QED BY <3>4, <3>5 DEF LeaseInv
  <2>2. CASE TakeLease(r, n)
      BY <1>2, <2>2 DEF TakeLease, Places
  <2>3. CASE RefuseLease(r, n)
    <3>1. holder[n] # r
        BY <2>3, SharedAssumption DEF RefuseLease, LeaseInv
    <3>. QED BY <1>2, <2>3, <3>1 DEF RefuseLease, Places
  <2>4. CASE ProbeHit(r, n)
    <3>1. Rows(n) # {}
        BY <2>4 DEF ProbeHit, Succeeded
    <3>. QED BY <1>2, <2>4, <3>1, RowsStay DEF ProbeHit, Places
  <2>5. CASE ProbeMiss(r, n)
      BY <1>2, <2>5 DEF ProbeMiss, Places
  <2>6. CASE Save(r, n)
    <3>1. PICK k \in 1..MaxAttempts[n] : k = attempt[r][n]
        BY SharedAssumption
    <3>2. <<n, k>> \in Key /\ status'[<<n, k>>] = "running"
        BY <2>6, <3>1, Keys DEF Save
    <3>3. <<n, k>> \in Rows(n)'
      <4>1. <<n, k>>[1] = n /\ status'[<<n, k>>] # "none"
          BY <3>2
      <4>. QED BY <3>2, <4>1 DEF Rows
    <3>. QED BY <1>2, <2>6, <3>3 DEF Save, Places
  <2>7. CASE SaveConflict(r, n)
    <3>1. Rows(n) # {}
        BY <2>7, HasRow DEF SaveConflict
    <3>. QED BY <1>2, <2>7, <3>1, RowsStay DEF SaveConflict, Places
  <2>8. CASE Succeed(r, n) \/ Fail(r, n)
    <3>1. Rows(n) # {} /\ UNCHANGED holder
        BY <2>8 DEF Succeed, Fail, LeaseInv
    <3>2. Move(r, n, "save") \/ Move(r, n, "release")
        BY <2>8 DEF Succeed, Fail
    <3>. QED BY <1>2, <3>1, <3>2, RowsStay DEF Places
  <2>9. CASE Release(r, n)
    <3>1. Rows(n) # {}
        BY <2>9 DEF Release, LeaseInv
    <3>2. \A m \in Node : holder'[m] # None => holder'[m] = holder[m]
        BY <2>9 DEF Release
    <3>. QED BY <1>2, <2>9, <3>1, <3>2, RowsStay DEF Release, Places
  <2>10. CASE Compensate(r, n)
      BY <1>1, <2>10 DEF Compensate
  <2>. QED BY <1>3, <2>1, <2>2, <2>3, <2>4, <2>5, <2>6, <2>7, <2>8, <2>9, <2>10
           DEF NodeStep
<1>4. ASSUME NEW r \in Run, RunStep(r) \/ Crash(r)  PROVE LeaseInv'
    BY <1>1, <1>4 DEF RunStep, Begin, Complete, Settle, GiveUp, Crash
<1>5. ASSUME NEW n \in Node, Expire(n)  PROVE LeaseInv'
    BY <1>1, <1>5 DEF Expire
<1>6. CASE UNCHANGED vars
    BY <1>1, <1>6 DEF vars
<1>. QED BY <1>3, <1>4, <1>5, <1>6 DEF Next

LEMMA InitInv == Init => IndInv
<1>. SUFFICES ASSUME Init  PROVE IndInv
    OBVIOUS
<1>1. TypeOK
    BY SharedAssumption DEF Init, TypeOK, States, Places
<1>2. RowInv
    BY SharedAssumption, Keys DEF Init, RowInv
<1>3. OwnInv /\ InputInv /\ LeaseInv
    BY DEF Init, OwnInv, InputInv, LeaseInv
<1>. QED BY <1>1, <1>2, <1>3 DEF IndInv

LEMMA Invariance == Spec => []IndInv
<1>1. IndInv /\ [Next]_vars => IndInv'
    BY Typing, RowStep, InputStep, LeaseStep DEF IndInv
<1>. QED BY InitInv, <1>1, PTL DEF Spec

\* Who comes to a refusal was refused, and who has the lease goes on to the row.
LEMMA PlaceStep ==
    ASSUME TypeOK, [Next]_vars, NEW r \in Run, NEW n \in Node
    PROVE  /\ at'[r][n] = "refused" => at[r][n] = "refused" \/ RefuseLease(r, n)
           /\ at[r][n] \in {"probe", "save"} =>
                at'[r][n] \in {"probe", "save", "execute", "release", "rejected"}
<1>1. CASE UNCHANGED at
    BY <1>1
<1>2. ASSUME NEW q \in Run, NEW m \in Node, NEW place \in Places, Move(q, m, place),
             place = "refused" => RefuseLease(q, m),
             at[q][m] \in {"probe", "save"} =>
               place \in {"probe", "save", "execute", "release", "rejected"}
      PROVE  /\ at'[r][n] = "refused" => at[r][n] = "refused" \/ RefuseLease(r, n)
             /\ at[r][n] \in {"probe", "save"} =>
                  at'[r][n] \in {"probe", "save", "execute", "release", "rejected"}
  <2>1. CASE q = r /\ m = n
      BY <1>2, <2>1, Moves
  <2>2. CASE q # r \/ m # n
    <3>1. at'[r][n] = at[r][n]
        BY <1>2, <2>2, Moves
    <3>. QED BY <3>1
  <2>. QED BY <2>1, <2>2
<1>3. ASSUME NEW q \in Run, NEW m \in Node, NodeStep(q, m)
      PROVE  \/ UNCHANGED at
             \/ \E place \in Places :
                  /\ Move(q, m, place)
                  /\ place = "refused" => RefuseLease(q, m)
                  /\ at[q][m] \in {"probe", "save"} =>
                       place \in {"probe", "save", "execute", "release", "rejected"}
  <2>1. CASE Start(q, m)
      BY <2>1 DEF Start, Ready, Places
  <2>2. CASE TakeLease(q, m) \/ RefuseLease(q, m)
      BY <2>2 DEF TakeLease, RefuseLease, Places
  <2>3. CASE ProbeHit(q, m) \/ ProbeMiss(q, m) \/ Save(q, m) \/ SaveConflict(q, m)
      BY <2>3 DEF ProbeHit, ProbeMiss, Save, SaveConflict, Places
  <2>4. CASE Succeed(q, m) \/ Fail(q, m) \/ Release(q, m) \/ Compensate(q, m)
      BY <2>4 DEF Succeed, Fail, Release, Compensate, Places
  <2>. QED BY <1>3, <2>1, <2>2, <2>3, <2>4 DEF NodeStep
<1>4. ASSUME NEW q \in Run, RunStep(q) \/ Crash(q)  PROVE UNCHANGED at
    BY <1>4 DEF RunStep, Begin, Complete, Settle, GiveUp, Crash
<1>5. ASSUME NEW m \in Node, Expire(m)  PROVE UNCHANGED at
    BY <1>5 DEF Expire
<1>6. CASE UNCHANGED vars
    BY <1>1, <1>6 DEF vars
<1>. QED BY <1>1, <1>2, <1>3, <1>4, <1>5, <1>6 DEF Next

-----------------------------------------------------------------------------
\* Runs, table, leases and positions keep their types under every overlap,
\* crash and lapse (dag-runner.ts, dag-worker.ts).
THEOREM TypeCorrect == Spec => []TypeOK
BY Invariance, PTL DEF IndInv

\* The attempts of a node have the writer of its first.
LEMMA OneWriter ==
    ASSUME IndInv, NEW x \in Key, status[x] # "none"
    PROVE  writer[x] = writer[<<x[1], 1>>]
<1>1. PICK n \in Node : \E k \in 1..MaxAttempts[n] : x = <<n, k>>
    BY Keys
<1>2. PICK k \in 1..MaxAttempts[n] : x = <<n, k>>
    BY <1>1
<1>. QED BY <1>2 DEF IndInv, RowInv

\* However many runs overlap or follow each other, and whatever leases lapse,
\* a node is executed by one of them: the unique key of the checkpoint table
\* admits the first and turns the others away (DbCheckpointStore.save).
THEOREM OneRunPerNode == Spec => []ExecutedByOneRun
<1>1. IndInv => ExecutedByOneRun
  <2>. SUFFICES ASSUME IndInv, NEW n \in Node, NEW x \in Rows(n)
                PROVE  writer[x] = writer[<<n, 1>>]
      BY DEF ExecutedByOneRun
  <2>. QED BY RowsOf, OneWriter
<1>. QED BY Invariance, <1>1, PTL

\* No run starts a node before all its predecessors have succeeded, in that
\* run or in another whose rows it found (processNode's idempotency probe).
THEOREM NoMissingInputs == Spec => []InputsSucceeded
<1>1. IndInv => InputsSucceeded
    BY DEF IndInv, InputInv, InputsSucceeded
<1>. QED BY Invariance, <1>1, PTL

\* A run that was refused a lease was refused because of one that stood between its
\* lease and its row, crashed there perhaps, or has left the row.
LEMMA RefusalInvariance == Spec => []RefusedInv
<1>1. IndInv /\ RefusedInv /\ [Next]_vars => RefusedInv'
  <2>. SUFFICES ASSUME IndInv, RefusedInv, [Next]_vars, NEW r \in Run, NEW n \in Node,
                       at'[r][n] = "refused", ~(Rows(n) # {})'
                PROVE  \E q \in Run \ {r} : at'[q][n] \in {"probe", "save"}
      BY DEF RefusedInv
  <2>. USE DEF IndInv, TypeOK
  <2>1. Rows(n) = {}
      BY RowsStay
  <2>2. PICK q \in Run \ {r} : at[q][n] \in {"probe", "save"}
    <3>1. CASE at[r][n] = "refused"
        BY <2>1, <3>1 DEF RefusedInv
    <3>2. CASE at[r][n] # "refused"
      <4>1. RefuseLease(r, n)
          BY <3>2, PlaceStep
      <4>2. /\ holder[n] # None /\ at[r][n] = "lease"
            /\ at[holder[n]][n] \notin {"idle", "lease", "refused"}
          BY <4>1 DEF RefuseLease, LeaseInv
      <4>3. holder[n] \in Run \ {r}
          BY <4>2
      <4>4. at[holder[n]][n] \in {"probe", "save"}
        <5>1. at[holder[n]][n] \in Places
            BY <4>3
        <5>2. at[holder[n]][n] \notin {"execute", "release", "done", "rejected"}
            BY <2>1, <4>3 DEF LeaseInv
        <5>. QED BY ONLY <4>2, <5>1, <5>2 DEF Places
      <4>. QED BY <4>3, <4>4
    <3>. QED BY <3>1, <3>2
  <2>3. at'[q][n] \in {"probe", "save"} \/ (Rows(n) # {})'
    <3>1. LeaseInv'
        BY LeaseStep, Typing
    <3>2. at'[q][n] \in {"probe", "save", "execute", "release", "rejected"}
        BY <2>2, PlaceStep
    <3>. QED BY <3>1, <3>2 DEF LeaseInv
  <2>. QED BY <2>2, <2>3
<1>2. Init => RefusedInv
    BY DEF Init, RefusedInv
<1>. QED BY Invariance, <1>1, <1>2, PTL DEF Spec

-----------------------------------------------------------------------------
(* In a graph without joins a completed execution is whole. *)

\* What a step at a node of one run leaves to the others.
LEMMA OthersKeep ==
    ASSUME IndInv, WholeInv, [Next]_vars, NEW r \in Run, NEW q \in Run \ {r},
           state'[q] = state[q], failed'[q] = failed[q], loaded'[q] = loaded[q],
           unlocked'[q] = unlocked[q], \A n \in Node : at'[q][n] = at[q][n],
           \A x \in Key : writer'[x] = q =>
             writer[x] = q /\ (status'[x] = "success" => status[x] = "success")
    PROVE  WholeOf(q)'
<1>1. WholeOf(q)
    BY DEF WholeInv
<1>2. \A n \in Node : Succeeded(n) => Succeeded(n)'
    BY RowsStay DEF IndInv
<1>3. loaded[q] \subseteq Node
    BY DEF IndInv, TypeOK
<1>4. \A n \in Node : AtRest(q, n)' = AtRest(q, n) /\ Ready(q, n)' = Ready(q, n)
    BY DEF AtRest, Ready, Pred
<1>5. \A x \in Key : x[1] \in Node
    BY DEF Key
<1>. QED BY <1>1, <1>2, <1>3, <1>4, <1>5 DEF WholeOf

\* Steps of a run that move nothing.
LEMMA WholeRun ==
    ASSUME IndInv, WholeInv, [Next]_vars, NEW r \in Run, RunStep(r) \/ Crash(r)
    PROVE  WholeInv'
<1>1. /\ UNCHANGED <<failed, at, unlocked, status, writer>>
      /\ \A q \in Run \ {r} : state'[q] = state[q] /\ loaded'[q] = loaded[q]
    BY DEF RunStep, Begin, Complete, Settle, GiveUp, Crash, table, IndInv, TypeOK
<1>2. \A q \in Run \ {r} : WholeOf(q)'
    BY <1>1, OthersKeep
<1>3. WholeOf(r)'
  <2>1. /\ \A n \in Node : Succeeded(n)' = Succeeded(n)
        /\ \A n \in Node : AtRest(r, n)' = AtRest(r, n)
      BY <1>1 DEF Succeeded, Rows, AtRest
  <2>2. \A n \in loaded'[r] : Succeeded(n)'
    <3>1. loaded[r] \subseteq Node /\ WholeOf(r)
        BY DEF IndInv, TypeOK, WholeInv
    <3>2. loaded'[r] = loaded[r] \/ loaded'[r] = {n \in Node : Succeeded(n)}
        BY DEF RunStep, Begin, Complete, Settle, GiveUp, Crash, IndInv, TypeOK
    <3>. QED BY <2>1, <3>1, <3>2 DEF WholeOf
  <2>3. /\ state'[r] # "queued"
        /\ state'[r] = "running" => state[r] = "queued"
        /\ state'[r] = "completed" => Complete(r)
      BY DEF RunStep, Begin, Complete, Settle, GiveUp, Crash, IndInv, TypeOK, States
  <2>4. state'[r] = "completed" =>
          ~failed'[r] /\ \A n \in Node : AtRest(r, n)' /\ ~Ready(r, n)'
    <3>1. Complete(r) => loaded' = loaded
        BY DEF Complete
    <3>2. Complete(r) => \A n \in Node : Ready(r, n)' = Ready(r, n)
        BY <1>1, <3>1 DEF Ready, Pred
    <3>. QED BY <1>1, <2>1, <2>3, <3>2 DEF Complete
  <2>5. \A n \in Node : at'[r][n] = "rejected" =>
          failed'[r] \/ state'[r] \notin {"running", "completed"}
      BY <1>1, <2>3 DEF WholeInv, WholeOf, Complete
  <2>6. /\ \A n \in Node : at'[r][n] \in {"release", "done"} =>
             failed'[r] \/ n \in unlocked'[r]
        /\ \A x \in Key : writer'[x] = r =>
             /\ at'[r][x[1]] \notin {"idle", "lease", "refused", "probe"}
             /\ status'[x] = "success" => failed'[r] \/ x[1] \in unlocked'[r]
      BY <1>1 DEF WholeInv, WholeOf
  <2>. QED BY <2>2, <2>3, <2>4, <2>5, <2>6 DEF WholeOf
<1>. QED BY <1>2, <1>3 DEF WholeInv

\* A step at a node of a run that is at work: its parts, each of which some steps
\* disturb and most leave alone.
LEMMA WholeMove ==
    ASSUME IndInv, WholeInv, [Next]_vars, NEW r \in Run, NEW n \in Node,
           NEW place \in Places, Move(r, n, place), place # "idle",
           state[r] # "queued", ~AtRest(r, n) \/ state[r] = "running",
           UNCHANGED loaded,
           \A q \in Run \ {r} : /\ state'[q] = state[q] /\ failed'[q] = failed[q]
                                /\ unlocked'[q] = unlocked[q],
           state'[r] \in {state[r], "threw"},
           failed[r] => failed'[r],
           unlocked[r] \subseteq unlocked'[r],
           place \in {"release", "done"} => failed'[r] \/ n \in unlocked'[r],
           place = "rejected" => failed'[r] \/ state'[r] \notin {"running", "completed"},
           \A x \in Key :
             \/ status'[x] = status[x] /\ writer'[x] = writer[x]
             \/ /\ x[1] = n /\ writer'[x] = r
                /\ status'[x] = "success" => failed'[r] \/ n \in unlocked'[r],
           (\E x \in Key : x[1] = n /\ writer'[x] = r) =>
             place \notin {"lease", "refused", "probe"}
    PROVE  WholeInv'
<1>. USE DEF IndInv, TypeOK
<1>1. /\ at'[r][n] = place
      /\ \A q \in Run : \A m \in Node : q # r \/ m # n => at'[q][m] = at[q][m]
    BY Moves
<1>2. ASSUME NEW q \in Run \ {r}  PROVE WholeOf(q)'
  <2>1. \A x \in Key : writer'[x] = q =>
          writer[x] = q /\ (status'[x] = "success" => status[x] = "success")
      OBVIOUS
  <2>2. loaded'[q] = loaded[q] /\ \A m \in Node : at'[q][m] = at[q][m]
      BY <1>1
  <2>. QED BY <2>1, <2>2, OthersKeep
<1>3. WholeOf(r)
    BY DEF WholeInv
<1>4. state[r] # "completed" /\ state'[r] # "completed" /\ state'[r] # "queued"
    BY <1>3 DEF WholeOf
<1>5. \A m \in loaded'[r] : Succeeded(m)'
    BY <1>3, RowsStay DEF WholeOf
<1>6. ASSUME NEW m \in Node
      PROVE  /\ at'[r][m] \in {"release", "done"} => failed'[r] \/ m \in unlocked'[r]
             /\ at'[r][m] = "rejected" =>
                  failed'[r] \/ state'[r] \notin {"running", "completed"}
  <2>1. CASE m = n
      BY <1>1, <2>1
  <2>2. CASE m # n
      BY <1>1, <1>3, <1>4, <2>2 DEF WholeOf
  <2>. QED BY <2>1, <2>2
<1>7. ASSUME NEW x \in Key, writer'[x] = r
      PROVE  /\ at'[r][x[1]] \notin {"idle", "lease", "refused", "probe"}
             /\ status'[x] = "success" => failed'[r] \/ x[1] \in unlocked'[r]
  <2>0. x[1] \in Node
      BY DEF Key
  <2>1. CASE x[1] = n
      BY <1>1, <1>3, <1>7, <2>1 DEF WholeOf
  <2>2. CASE x[1] # n
      BY <1>1, <1>3, <1>7, <2>0, <2>2 DEF WholeOf
  <2>. QED BY <2>1, <2>2
<1>8. WholeOf(r)'
    BY <1>4, <1>5, <1>6, <1>7 DEF WholeOf
<1>. QED BY <1>2, <1>8 DEF WholeInv

\* The rows of a node that a run inserted are there once it is past the probe.
LEMMA NoRowYet ==
    ASSUME WholeInv, NEW r \in Run, NEW n \in Node,
           at[r][n] \in {"idle", "lease", "refused", "probe"}
    PROVE  ~(\E x \in Key : x[1] = n /\ writer[x] = r)
BY DEF WholeInv, WholeOf

LEMMA WholeNode ==
    ASSUME IndInv, WholeInv, [Next]_vars, NEW r \in Run, NEW n \in Node, NodeStep(r, n)
    PROVE  WholeInv'
<1>. USE DEF table
<1>0. /\ TypeOK
      /\ attempt[r][n] \in 1..MaxAttempts[n] /\ <<n, attempt[r][n]>> \in Key
      /\ \A k : <<n, k>>[1] = n
    BY SharedAssumption, Keys DEF IndInv, TypeOK
<1>1. CASE Start(r, n)
  <2>1. /\ Move(r, n, "lease") /\ at[r][n] = "idle" /\ state[r] = "running"
        /\ UNCHANGED <<state, failed, loaded, unlocked, status, writer>>
      BY <1>1 DEF Start, Ready
  <2>2. ~(\E x \in Key : x[1] = n /\ writer'[x] = r)
      BY <2>1, NoRowYet
  <2>. QED BY <2>1, <2>2, WholeMove DEF Places
<1>2. CASE TakeLease(r, n) \/ RefuseLease(r, n)
  <2>1. /\ Move(r, n, "probe") \/ Move(r, n, "refused")
        /\ at[r][n] = "lease" /\ state[r] # "queued"
        /\ UNCHANGED <<state, failed, loaded, unlocked, status, writer>>
      BY <1>2 DEF TakeLease, RefuseLease, Alive
  <2>2. ~(\E x \in Key : x[1] = n /\ writer'[x] = r)
      BY <2>1, NoRowYet
  <2>. QED BY <2>1, <2>2, WholeMove DEF Places, AtRest
<1>3. CASE ProbeHit(r, n)
  <2>1. /\ Move(r, n, "release") /\ at[r][n] = "probe" /\ state[r] # "queued"
        /\ Propagate(r, n) /\ UNCHANGED <<state, failed, loaded, status, writer>>
      BY <1>3 DEF ProbeHit, Alive
  <2>2. /\ \A q \in Run \ {r} : unlocked'[q] = unlocked[q]
        /\ unlocked[r] \subseteq unlocked'[r]
        /\ failed'[r] \/ n \in unlocked'[r]
      BY <1>0, <2>1 DEF Propagate, TypeOK
  <2>. QED BY <2>1, <2>2, WholeMove DEF Places, AtRest
<1>4. CASE ProbeMiss(r, n)
  <2>1. /\ Move(r, n, "save") /\ at[r][n] = "probe" /\ state[r] # "queued"
        /\ UNCHANGED <<state, failed, loaded, unlocked, status, writer>>
      BY <1>4 DEF ProbeMiss, Alive
  <2>. QED BY <2>1, WholeMove DEF Places, AtRest
<1>5. CASE Save(r, n)
  <2>. DEFINE y == <<n, attempt[r][n]>>
  <2>1. /\ Move(r, n, "execute") /\ at[r][n] = "save" /\ state[r] # "queued"
        /\ UNCHANGED <<state, failed, loaded, unlocked>>
        /\ status' = [status EXCEPT ![y] = "running"]
        /\ writer' = [writer EXCEPT ![y] = r]
      BY <1>5 DEF Save, Alive
  <2>2. \A x \in Key :
          \/ status'[x] = status[x] /\ writer'[x] = writer[x]
          \/ x[1] = n /\ writer'[x] = r /\ status'[x] = "running"
    <3>1. y \in Key /\ y[1] = n
        BY <1>0
    <3>. HIDE DEF y
    <3>. QED BY <1>0, <2>1, <3>1 DEF TypeOK
  <2>. HIDE DEF y
  <2>3. /\ state'[r] \in {state[r], "threw"} /\ unlocked[r] \subseteq unlocked'[r]
        /\ "execute" \in Places /\ ~AtRest(r, n) /\ loaded' = loaded
      BY <2>1 DEF Places, AtRest
  <2>. QED BY <2>1, <2>2, <2>3, WholeMove
<1>6. CASE SaveConflict(r, n)
  <2>1. /\ Move(r, n, "rejected") /\ at[r][n] = "save" /\ state[r] # "queued"
        /\ UNCHANGED <<failed, loaded, unlocked, status, writer>>
        /\ \/ state' = [state EXCEPT ![r] = "threw"]
           \/ state' = state /\ (state[r] # "running" \/ failed[r])
      BY <1>6 DEF SaveConflict, Alive
  <2>2. state[r] # "completed"
      BY <2>1 DEF WholeInv, WholeOf, AtRest
  <2>3. /\ \A q \in Run \ {r} : state'[q] = state[q]
        /\ state'[r] \in {state[r], "threw"}
        /\ failed'[r] \/ state'[r] \notin {"running", "completed"}
      BY <1>0, <2>1, <2>2 DEF TypeOK
  <2>. QED BY <2>1, <2>3, WholeMove DEF Places, AtRest
<1>7. CASE Succeed(r, n)
  <2>. DEFINE y == <<n, attempt[r][n]>>
  <2>1. /\ Move(r, n, "release") /\ at[r][n] = "execute" /\ state[r] # "queued"
        /\ Propagate(r, n) /\ UNCHANGED <<state, failed, loaded, writer>>
        /\ status' = [status EXCEPT ![y] = "success"]
      BY <1>7 DEF Succeed, Alive
  <2>2. /\ \A q \in Run \ {r} : unlocked'[q] = unlocked[q]
        /\ unlocked[r] \subseteq unlocked'[r]
        /\ failed'[r] \/ n \in unlocked'[r]
      BY <1>0, <2>1 DEF Propagate, TypeOK
  <2>3. writer[y] = r
      BY <2>1 DEF IndInv, OwnInv
  <2>4. \A x \in Key : status'[x] = status[x] \/ (x[1] = n /\ writer'[x] = r)
    <3>1. y \in Key /\ y[1] = n
        BY <1>0
    <3>. HIDE DEF y
    <3>. QED BY <1>0, <2>1, <2>3, <3>1 DEF TypeOK
  <2>. QED BY <2>1, <2>2, <2>4, WholeMove DEF Places, AtRest
<1>8. CASE Fail(r, n)
  <2>. DEFINE y == <<n, attempt[r][n]>>
  <2>1. /\ at[r][n] = "execute" /\ state[r] # "queued"
        /\ UNCHANGED <<state, loaded, writer, unlocked>>
        /\ status' = [status EXCEPT ![y] = "failed"]
        /\ \/ Move(r, n, "save") /\ failed' = failed
           \/ Move(r, n, "release") /\ failed' = [failed EXCEPT ![r] = TRUE]
      BY <1>8 DEF Fail, Alive
  <2>2. writer[y] = r
      BY <2>1 DEF IndInv, OwnInv
  <2>3. \A x \in Key : \/ status'[x] = status[x]
                       \/ x[1] = n /\ writer'[x] = r /\ status'[x] = "failed"
    <3>1. y \in Key /\ y[1] = n
        BY <1>0
    <3>. HIDE DEF y
    <3>. QED BY <1>0, <2>1, <2>2, <3>1 DEF TypeOK
  <2>4. CASE Move(r, n, "save") /\ failed' = failed
      BY <2>1, <2>3, <2>4, WholeMove DEF Places, AtRest
  <2>5. CASE Move(r, n, "release") /\ failed' = [failed EXCEPT ![r] = TRUE]
    <3>1. failed'[r] /\ \A q \in Run \ {r} : failed'[q] = failed[q]
        BY <1>0, <2>5 DEF TypeOK
    <3>2. \A x \in Key :
            \/ status'[x] = status[x] /\ writer'[x] = writer[x]
            \/ /\ x[1] = n /\ writer'[x] = r
               /\ status'[x] = "success" => failed'[r] \/ n \in unlocked'[r]
        BY <2>1, <2>3
    <3>3. /\ Move(r, n, "release") /\ ~AtRest(r, n) /\ "release" \in Places
          /\ state'[r] = state[r] /\ unlocked'[r] = unlocked[r] /\ loaded' = loaded
          /\ \A q \in Run \ {r} : state'[q] = state[q] /\ unlocked'[q] = unlocked[q]
        BY <2>1, <2>5 DEF Places, AtRest
    <3>. HIDE DEF y
    <3>. QED BY <2>1, <3>1, <3>2, <3>3, WholeMove
  <2>. QED BY <2>1, <2>4, <2>5
<1>9. CASE Release(r, n)
  <2>1. /\ Move(r, n, "done") /\ at[r][n] = "release" /\ state[r] # "queued"
        /\ UNCHANGED <<state, failed, loaded, unlocked, status, writer>>
      BY <1>9 DEF Release, Alive
  <2>2. failed'[r] \/ n \in unlocked'[r]
      BY <2>1 DEF WholeInv, WholeOf
  <2>. QED BY <2>1, <2>2, WholeMove DEF Places, AtRest
<1>10. CASE Compensate(r, n)
  <2>1. UNCHANGED <<state, failed, loaded, at, unlocked, status, writer>>
      BY <1>10 DEF Compensate
  <2>. QED BY <2>1 DEF WholeInv, WholeOf, Succeeded, Rows, AtRest, Ready
<1>. QED BY <1>1, <1>2, <1>3, <1>4, <1>5, <1>6, <1>7, <1>8, <1>9, <1>10 DEF NodeStep

LEMMA WholeStep == IndInv /\ WholeInv /\ [Next]_vars => WholeInv'
<1>1. ASSUME IndInv, WholeInv, NEW n \in Node, Expire(n)  PROVE WholeInv'
    BY <1>1 DEF Expire, WholeInv, WholeOf, Succeeded, Rows, AtRest, Ready, table
<1>2. ASSUME IndInv, WholeInv, UNCHANGED vars  PROVE WholeInv'
    BY <1>2 DEF vars, WholeInv, WholeOf, Succeeded, Rows, AtRest, Ready, table
<1>. QED BY <1>1, <1>2, WholeRun, WholeNode DEF Next

\* A run that has completed did every node it inserted a row for.
LEMMA CompletedDidItsRows ==
    ASSUME IndInv, WholeInv, NEW r \in Run, state[r] = "completed",
           NEW x \in Key, writer[x] = r
    PROVE  Succeeded(x[1]) /\ (status[x] = "success" => x[1] \in unlocked[r])
<1>1. WholeOf(r) /\ x[1] \in Node
    BY DEF WholeInv, Key
<1>2. at[r][x[1]] = "done" /\ ~failed[r]
    BY <1>1 DEF WholeOf, AtRest
<1>3. x[1] \in unlocked[r]
    BY <1>1, <1>2 DEF WholeOf
<1>. QED BY <1>3 DEF IndInv, InputInv

\* Every run that was begun has completed.
AllCompleted ==
    /\ \E r \in Run : state[r] # "queued"
    /\ \A r \in Run : state[r] \in {"queued", "completed"}

\* A completed run that unlocked all of a node's predecessors leaves it done.
LEMMA UnlockedIsDone ==
    ASSUME IndInv, WholeInv, RefusedInv, AllCompleted,
           NEW n \in Node, NEW q \in Run, state[q] = "completed",
           Pred(n) \subseteq unlocked[q]
    PROVE  Succeeded(n)
<1>. SUFFICES ASSUME ~Succeeded(n)  PROVE FALSE
    OBVIOUS
<1>1. ASSUME NEW x \in Rows(n)  PROVE FALSE
  <2>1. x \in Key /\ x[1] = n /\ writer[x] \in Run
      BY <1>1, RowsOf DEF IndInv, RowInv
  <2>2. at[writer[x]][n] # "idle"
      BY <2>1 DEF WholeInv, WholeOf
  <2>3. state[writer[x]] = "completed"
      BY <2>1, <2>2 DEF WholeInv, WholeOf, AllCompleted
  <2>. QED BY <2>1, <2>3, CompletedDidItsRows
<1>2. WholeOf(q)
    BY DEF WholeInv
<1>3. n \notin loaded[q] /\ n \notin unlocked[q]
    BY <1>2 DEF WholeOf, IndInv, InputInv
<1>4. at[q][n] \in {"refused", "done", "rejected"}
    BY <1>2, <1>3 DEF WholeOf, AtRest, Ready
<1>5. at[q][n] = "refused"
    BY <1>2, <1>3, <1>4 DEF WholeOf
<1>6. PICK p \in Run : at[p][n] \in {"probe", "save"}
    BY <1>1, <1>5 DEF RefusedInv
<1>. QED BY <1>6 DEF WholeInv, WholeOf, AtRest, AllCompleted

\* The run that did a node has completed, and has unlocked behind it.
LEMMA DoneByCompleted ==
    ASSUME IndInv, WholeInv, AllCompleted, NEW x \in Key, status[x] = "success"
    PROVE  /\ writer[x] \in Run /\ state[writer[x]] = "completed"
           /\ x[1] \in unlocked[writer[x]]
<1>1. writer[x] \in Run /\ x[1] \in Node
    BY DEF IndInv, RowInv, Key
<1>2. at[writer[x]][x[1]] # "idle"
    BY <1>1 DEF WholeInv, WholeOf
<1>3. state[writer[x]] = "completed"
    BY <1>1, <1>2 DEF WholeInv, WholeOf, AllCompleted
<1>. QED BY <1>1, <1>3, CompletedDidItsRows

\* What completed runs can leave out: the nodes behind a node that is left out, and
\* joins whose inputs different runs did.
LeftOutIsSplit ==
    AllCompleted =>
        \A n \in Node :
            \/ Succeeded(n)
            \/ \E m \in Pred(n) : ~Succeeded(m)
            \/ \E x, y \in Key : /\ x[1] \in Pred(n) /\ y[1] \in Pred(n)
                                 /\ status[x] = "success" /\ status[y] = "success"
                                 /\ writer[x] # writer[y]

LEMMA LeftOut ==
    ASSUME IndInv, WholeInv, RefusedInv  PROVE LeftOutIsSplit
<1>. SUFFICES ASSUME AllCompleted, NEW n \in Node, ~Succeeded(n),
                     \A m \in Pred(n) : Succeeded(m),
                     \A x, y \in Key : /\ x[1] \in Pred(n) /\ y[1] \in Pred(n)
                                       /\ status[x] = "success" /\ status[y] = "success"
                                       => writer[x] = writer[y]
              PROVE  FALSE
    BY DEF LeftOutIsSplit
<1>1. \A q \in Run : state[q] = "completed" => ~(Pred(n) \subseteq unlocked[q])
    BY UnlockedIsDone
<1>2. PICK m \in Pred(n) : TRUE
    BY <1>1 DEF AllCompleted
<1>3. ASSUME NEW k \in Pred(n)
      PROVE  \E x \in Key : x[1] = k /\ status[x] = "success"
  <2>1. k \in Node /\ Succeeded(k)
      BY DEF Pred
  <2>. QED BY <2>1, RowsOf DEF Succeeded
<1>4. PICK x \in Key : x[1] = m /\ status[x] = "success"
    BY <1>2, <1>3
<1>5. state[writer[x]] = "completed" /\ writer[x] \in Run
    BY <1>4, DoneByCompleted
<1>6. Pred(n) \subseteq unlocked[writer[x]]
  <2>. SUFFICES ASSUME NEW k \in Pred(n)  PROVE k \in unlocked[writer[x]]
      OBVIOUS
  <2>1. PICK y \in Key : y[1] = k /\ status[y] = "success"
      BY <1>3
  <2>2. writer[y] = writer[x]
      BY <1>4, <2>1
  <2>. QED BY <2>1, <2>2, DoneByCompleted
<1>. QED BY <1>1, <1>5, <1>6

LEMMA WholeInvariance == Spec => [](IndInv /\ WholeInv /\ RefusedInv)
<1>1. Init => WholeInv
    BY SharedAssumption DEF Init, WholeInv, WholeOf, Key
<1>. QED BY Invariance, RefusalInvariance, WholeStep, <1>1, PTL DEF Spec

\* However the runs of an execution overlap, whatever leases lapse, and on every
\* graph: when all of them have completed, what nobody did lies behind a join whose
\* inputs were done by different runs.  shared_v_join shows that this does happen.
THEOREM OnlySplitJoinsAreLeftOut == Spec => []LeftOutIsSplit
  BY WholeInvariance, LeftOut, PTL

\* "Skip (will be picked up on expiry)": in a graph without joins and cycles, when
\* every run of an execution that was begun has completed, every node has
\* succeeded, however the runs overlapped and whatever leases lapsed: the run that
\* did a node is the one that goes on behind it.  A join breaks this
\* (shared_v_join); Forest is what excludes it.
THEOREM ForestRunIsWhole == ASSUME Forest  PROVE Spec => []SharedRunIsWhole
<1>1. ASSUME IndInv, WholeInv, RefusedInv  PROVE SharedRunIsWhole
  <2>. DEFINE S == {n \in Node : ~Succeeded(n)}
  <2>. SUFFICES ASSUME AllCompleted, S # {}  PROVE FALSE
      BY DEF SharedRunIsWhole, AllCompleted
  <2>1. PICK n \in S : Pred(n) \cap S = {}
      BY DEF Forest
  <2>2. n \in Node /\ ~Succeeded(n) /\ \A m \in Pred(n) : Succeeded(m)
      BY <2>1 DEF Pred
  <2>3. LeftOutIsSplit
      BY <1>1, LeftOut
  <2>4. PICK x, y \in Key : /\ x[1] \in Pred(n) /\ y[1] \in Pred(n)
                            /\ status[x] = "success" /\ status[y] = "success"
                            /\ writer[x] # writer[y]
      BY <2>2, <2>3 DEF LeftOutIsSplit
  <2>5. x[1] = y[1]
    <3>1. <<x[1], n>> \in Edges /\ <<y[1], n>> \in Edges
        BY <2>4 DEF Pred
    <3>2. <<x[1], n>> = <<y[1], n>>
        BY <3>1 DEF Forest
    <3>. QED BY <3>2
  <2>. QED BY <1>1, <2>4, <2>5, OneWriter
<1>. QED BY WholeInvariance, <1>1, PTL
-----------------------------------------------------------------------------
(* The attempts at a node, and what a run is done with.                    *)

\* A run that has a node's row, or is about to retry it.
Claims(r, n) == at[r][n] = "execute" \/ (at[r][n] = "save" /\ attempt[r][n] # 1)

\* The row a run is at, or will insert, is in the table's range.
LEMMA AttemptKey ==
    ASSUME TypeOK, NEW r \in Run, NEW n \in Node
    PROVE  attempt[r][n] \in 1..MaxAttempts[n] /\ <<n, attempt[r][n]>> \in Key
BY SharedAssumption, Keys DEF TypeOK

\* Who claims a node inserted its first row.
LEMMA ClaimedIsOwn ==
    ASSUME IndInv, NEW r \in Run, NEW n \in Node, Claims(r, n)
    PROVE  writer[<<n, 1>>] = r /\ status[<<n, 1>>] # "none"
<1>1. writer[<<n, 1>>] = r
  <2>1. CASE at[r][n] = "execute"
    <3>1. <<n, attempt[r][n]>> \in Key
        BY AttemptKey DEF IndInv
    <3>2. /\ status[<<n, attempt[r][n]>>] = "running"
          /\ writer[<<n, attempt[r][n]>>] = r
        BY <2>1 DEF IndInv, OwnInv
    <3>3. writer[<<n, attempt[r][n]>>] = writer[<<n, 1>>]
        BY <3>1, <3>2, OneWriter
    <3>. QED BY <3>2, <3>3
  <2>2. CASE at[r][n] = "save" /\ attempt[r][n] # 1
      BY <2>2 DEF IndInv, OwnInv
  <2>. QED BY <2>1, <2>2 DEF Claims
<1>2. <<n, 1>> \in Key
    BY Keys
<1>. QED BY <1>1, <1>2 DEF IndInv, RowInv

LEMMA OneClaim ==
    ASSUME IndInv, NEW r \in Run, NEW q \in Run, NEW n \in Node,
           Claims(r, n), Claims(q, n)
    PROVE  r = q
<1>1. writer[<<n, 1>>] = r /\ writer[<<n, 1>>] = q
    BY ClaimedIsOwn
<1>. QED BY <1>1

\* AttemptInv, for one run and one node.
AttemptsOf(r, n) ==
    \A k \in 1..MaxAttempts[n] :
        /\ k < attempt[r][n] => status[<<n, k>>] = "failed"
        /\ k > attempt[r][n] => status[<<n, k>>] = "none"

LEMMA AttemptPointwise ==
    AttemptInv <=> \A r \in Run : \A n \in Node : Claims(r, n) => AttemptsOf(r, n)
BY DEF AttemptInv, Claims, AttemptsOf

\* Steps that touch no row and let nobody claim a node.
LEMMA AttemptKept ==
    ASSUME AttemptInv, UNCHANGED status,
           \A r \in Run : \A n \in Node :
             Claims(r, n)' => Claims(r, n) /\ attempt'[r][n] = attempt[r][n]
    PROVE  AttemptInv'
<1>1. \A r \in Run : \A n \in Node : Claims(r, n) => AttemptsOf(r, n)
    BY AttemptPointwise
<1>2. ASSUME NEW r \in Run, NEW n \in Node, Claims(r, n)'  PROVE AttemptsOf(r, n)'
    BY <1>1, <1>2 DEF AttemptsOf
<1>3. (AttemptInv <=> \A r \in Run : \A n \in Node : Claims(r, n) => AttemptsOf(r, n))'
    BY AttemptPointwise, PTL
<1>. QED BY <1>2, <1>3

\* Steps at the row of one run's attempt: only that run's claim to the node counts.
LEMMA AttemptMade ==
    ASSUME IndInv, AttemptInv, NEW r \in Run, NEW n \in Node, NEW s,
           status' = [status EXCEPT ![<<n, attempt[r][n]>>] = s],
           \A q \in Run : \A m \in Node : q # r \/ m # n =>
             (Claims(q, m)' <=> Claims(q, m)) /\ attempt'[q][m] = attempt[q][m],
           \A q \in Run : q # r => ~Claims(q, n),
           Claims(r, n)' => AttemptsOf(r, n)'
    PROVE  AttemptInv'
<1>1. \A q \in Run : \A m \in Node : Claims(q, m) => AttemptsOf(q, m)
    BY AttemptPointwise
<1>2. ASSUME NEW q \in Run, NEW m \in Node, Claims(q, m)'  PROVE AttemptsOf(q, m)'
  <2>1. CASE m = n
    <3>1. q = r
        BY <1>2, <2>1
    <3>. QED BY <1>2, <2>1, <3>1
  <2>2. CASE m # n
    <3>1. Claims(q, m) /\ attempt'[q][m] = attempt[q][m]
        BY <1>2, <2>2
    <3>2. \A k \in 1..MaxAttempts[m] : status'[<<m, k>>] = status[<<m, k>>]
        BY <2>2, Keys DEF IndInv, TypeOK
    <3>. QED BY <1>1, <3>1, <3>2 DEF AttemptsOf
  <2>. QED BY <2>1, <2>2
<1>3. (AttemptInv <=> \A q \in Run : \A m \in Node : Claims(q, m) => AttemptsOf(q, m))'
    BY DEF AttemptInv, Claims, AttemptsOf
<1>. QED BY <1>2, <1>3

LEMMA AttemptStep == ASSUME IndInv, AttemptInv, [Next]_vars PROVE AttemptInv'
<1>1. ASSUME NEW r \in Run, RunStep(r) \/ Crash(r)  PROVE AttemptInv'
  <2>1. UNCHANGED <<status, at, attempt>>
      BY <1>1 DEF RunStep, Begin, Complete, Settle, GiveUp, Crash, table
  <2>. QED BY <2>1, AttemptKept DEF Claims
<1>2. ASSUME NEW r \in Run, NEW n \in Node,
             \/ Start(r, n) \/ TakeLease(r, n) \/ RefuseLease(r, n) \/ ProbeHit(r, n)
             \/ ProbeMiss(r, n) \/ SaveConflict(r, n) \/ Release(r, n) \/ Compensate(r, n)
      PROVE  AttemptInv'
  <2>1. UNCHANGED <<status, attempt>>
      BY <1>2 DEF Start, TakeLease, RefuseLease, ProbeHit, ProbeMiss, SaveConflict,
                  Release, Compensate, table
  <2>5. at[r][n] = "probe" => attempt[r][n] = 1
      BY DEF IndInv, OwnInv
  <2>2. \/ UNCHANGED at
        \/ \E place \in Places \ {"execute"} :
             Move(r, n, place) /\ (place = "save" => attempt[r][n] = 1)
      BY <1>2, <2>5 DEF Start, TakeLease, RefuseLease, ProbeHit, ProbeMiss, SaveConflict,
                        Release, Compensate, Places
  <2>3. CASE UNCHANGED at
      BY <2>1, <2>3, AttemptKept DEF Claims
  <2>4. ASSUME NEW place \in Places \ {"execute"}, Move(r, n, place),
               place = "save" => attempt[r][n] = 1
        PROVE  AttemptInv'
    <3>1. /\ at'[r][n] = place
          /\ \A q \in Run : \A m \in Node : q # r \/ m # n => at'[q][m] = at[q][m]
        BY <2>4, Moves DEF IndInv
    <3>. QED BY <2>1, <2>4, <3>1, AttemptKept DEF Claims
  <2>. QED BY <2>2, <2>3, <2>4
<1>3. ASSUME NEW r \in Run, NEW n \in Node, Save(r, n)  PROVE AttemptInv'
  <2>1. /\ at[r][n] = "save" /\ status[<<n, attempt[r][n]>>] = "none"
        /\ status' = [status EXCEPT ![<<n, attempt[r][n]>>] = "running"]
        /\ Move(r, n, "execute") /\ UNCHANGED attempt
      BY <1>3 DEF Save
  <2>2. /\ at'[r][n] = "execute"
        /\ \A q \in Run : \A m \in Node : q # r \/ m # n => at'[q][m] = at[q][m]
      BY <2>1, Moves DEF Places, IndInv
  <2>3. \A q \in Run : q # r => ~Claims(q, n)
    <3>. SUFFICES ASSUME NEW q \in Run, q # r, Claims(q, n)  PROVE FALSE
        OBVIOUS
    <3>1. CASE attempt[r][n] = 1
        BY <2>1, <3>1, ClaimedIsOwn
    <3>2. CASE attempt[r][n] # 1
      <4>1. Claims(r, n)
          BY <2>1, <3>2 DEF Claims
      <4>. QED BY <4>1, OneClaim
    <3>. QED BY <3>1, <3>2
  <2>4. AttemptsOf(r, n)'
    <3>1. \A k \in 1..MaxAttempts[n] :
            k # attempt[r][n] => status'[<<n, k>>] = status[<<n, k>>]
        BY <2>1, Keys DEF IndInv, TypeOK
    <3>2. AttemptsOf(r, n)
      <4>1. CASE attempt[r][n] = 1
        <5>1. \A k \in 1..MaxAttempts[n] : status[<<n, k>>] = "none"
            BY <2>1, <4>1 DEF IndInv, RowInv
        <5>. QED BY <4>1, <5>1 DEF AttemptsOf
      <4>2. CASE attempt[r][n] # 1
          BY <2>1, <4>2, AttemptPointwise DEF Claims
      <4>. QED BY <4>1, <4>2
    <3>3. attempt[r][n] \in Nat
        BY DEF IndInv, TypeOK
    <3>. QED BY <2>1, <3>1, <3>2, <3>3 DEF AttemptsOf
  <2>5. \A q \in Run : \A m \in Node : q # r \/ m # n =>
          (Claims(q, m)' <=> Claims(q, m)) /\ attempt'[q][m] = attempt[q][m]
      BY <2>1, <2>2 DEF Claims
  <2>6. status' = [status EXCEPT ![<<n, attempt[r][n]>>] = "running"]
      BY <2>1
  <2>. QED BY ONLY IndInv, AttemptInv, r \in Run, n \in Node, <2>3, <2>4, <2>5, <2>6,
             AttemptMade
<1>4. ASSUME NEW r \in Run, NEW n \in Node, Succeed(r, n) \/ Fail(r, n)
      PROVE  AttemptInv'
  <2>1. /\ at[r][n] = "execute" /\ Claims(r, n)
        /\ \E s \in {"success", "failed"} :
             status' = [status EXCEPT ![<<n, attempt[r][n]>>] = s]
      BY <1>4 DEF Succeed, Fail, Claims
  <2>2. \A q \in Run : q # r => ~Claims(q, n)
      BY <2>1, OneClaim
  <2>3. AttemptsOf(r, n)
      BY <2>1, AttemptPointwise
  <2>4. ASSUME NEW place \in {"release", "save"}, Move(r, n, place)
        PROVE  /\ at'[r][n] = place
               /\ \A q \in Run : \A m \in Node : q # r \/ m # n => at'[q][m] = at[q][m]
      BY <2>4, Moves DEF Places, IndInv
  <2>5. CASE Move(r, n, "release") /\ UNCHANGED attempt
    <3>1. /\ ~Claims(r, n)'
          /\ \A q \in Run : \A m \in Node : q # r \/ m # n =>
               (Claims(q, m)' <=> Claims(q, m)) /\ attempt'[q][m] = attempt[q][m]
        BY <2>4, <2>5 DEF Claims
    <3>2. PICK s \in {"success", "failed"} :
            status' = [status EXCEPT ![<<n, attempt[r][n]>>] = s]
        BY <2>1
    <3>. QED BY ONLY IndInv, AttemptInv, r \in Run, n \in Node, <2>2, <3>1, <3>2,
               AttemptMade
  <2>6. CASE /\ Move(r, n, "save")
             /\ attempt' = [attempt EXCEPT ![r][n] = @ + 1]
             /\ status' = [status EXCEPT ![<<n, attempt[r][n]>>] = "failed"]
    <3>1. /\ attempt'[r][n] = attempt[r][n] + 1
          /\ \A q \in Run : \A m \in Node :
               q # r \/ m # n => attempt'[q][m] = attempt[q][m]
        BY <2>6 DEF IndInv, TypeOK
    <3>2. \A k \in 1..MaxAttempts[n] :
            status'[<<n, k>>] = IF k = attempt[r][n] THEN "failed" ELSE status[<<n, k>>]
        BY <2>6, Keys DEF IndInv, TypeOK
    <3>3. AttemptsOf(r, n)'
      <4>1. attempt[r][n] \in Nat
          BY DEF IndInv, TypeOK
      <4>2. AttemptsOf(r, n)' <=>
              \A k \in 1..MaxAttempts[n] :
                /\ k < attempt'[r][n] => status'[<<n, k>>] = "failed"
                /\ k > attempt'[r][n] => status'[<<n, k>>] = "none"
          BY DEF AttemptsOf
      <4>3. \A k \in 1..MaxAttempts[n] :
              /\ k < attempt[r][n] => status[<<n, k>>] = "failed"
              /\ k > attempt[r][n] => status[<<n, k>>] = "none"
          BY <2>3 DEF AttemptsOf
      <4>. QED BY ONLY <3>1, <3>2, <4>1, <4>2, <4>3
    <3>4. \A q \in Run : \A m \in Node : q # r \/ m # n =>
            (Claims(q, m)' <=> Claims(q, m)) /\ attempt'[q][m] = attempt[q][m]
        BY <2>4, <2>6, <3>1 DEF Claims
    <3>. QED BY <2>2, <2>6, <3>3, <3>4, AttemptMade
  <2>7. \/ Move(r, n, "release") /\ UNCHANGED attempt
        \/ /\ Move(r, n, "save")
           /\ attempt' = [attempt EXCEPT ![r][n] = @ + 1]
           /\ status' = [status EXCEPT ![<<n, attempt[r][n]>>] = "failed"]
      BY <1>4 DEF Succeed, Fail
  <2>. QED BY <2>5, <2>6, <2>7
<1>5. ASSUME NEW n \in Node, Expire(n)  PROVE AttemptInv'
    BY <1>5, AttemptKept DEF Expire, Claims, table
<1>6. CASE UNCHANGED vars
    BY <1>6, AttemptKept DEF vars, Claims, table
<1>. QED BY <1>1, <1>2, <1>3, <1>4, <1>5, <1>6 DEF Next, NodeStep

LEMMA SuccessIsLast == ASSUME IndInv, AttemptInv  PROVE SuccessIsFinal
<1>. SUFFICES ASSUME NEW r \in Run, NEW n \in Node, at[r][n] = "execute",
                     NEW x \in Rows(n), status[x] = "success"
              PROVE  FALSE
    BY DEF SuccessIsFinal, Succeeded
<1>1. PICK k \in 1..MaxAttempts[n] : x = <<n, k>>
  <2>1. x \in Key /\ x[1] = n
      BY RowsOf
  <2>2. PICK m \in Node : \E k \in 1..MaxAttempts[m] : x = <<m, k>>
      BY <2>1, Keys
  <2>. QED BY <2>1, <2>2
<1>2. status[<<n, attempt[r][n]>>] = "running"
    BY DEF IndInv, OwnInv
<1>3. AttemptsOf(r, n)
    BY AttemptPointwise DEF Claims
<1>4. attempt[r][n] \in Nat
    BY DEF IndInv, TypeOK
<1>. QED BY <1>1, <1>2, <1>3, <1>4 DEF AttemptsOf

\* A node recorded as a success is not executed again, by the run that did it or by
\* any other, however often runs overlap, lose leases and crash.
THEOREM SuccessNotRepeated == Spec => []SuccessIsFinal
<1>1. Init => AttemptInv
    BY DEF Init, AttemptInv
<1>. QED BY Invariance, AttemptStep, SuccessIsLast, <1>1, PTL DEF Spec
-----------------------------------------------------------------------------
(* Each run implements RunContract: first what a step leaves alone, then   *)
(* DoneInv, then what each step shows of the run.                          *)

\* A step at one node of one run, seen from the others.
LEMMA NodeFrame ==
    ASSUME TypeOK, NEW q \in Run, NEW m \in Node, NodeStep(q, m)
    PROVE  /\ UNCHANGED loaded
           /\ \A r \in Run \ {q} : /\ state'[r] = state[r] /\ failed'[r] = failed[r]
                                   /\ unlocked'[r] = unlocked[r]
           /\ \A r \in Run : \A n \in Node : r # q \/ n # m => at'[r][n] = at[r][n]
<1>. USE DEF TypeOK
<1>1. /\ UNCHANGED loaded
      /\ \A r \in Run \ {q} : /\ state'[r] = state[r] /\ failed'[r] = failed[r]
                              /\ unlocked'[r] = unlocked[r]
    BY DEF NodeStep, Start, TakeLease, RefuseLease, ProbeHit, ProbeMiss, Save,
           SaveConflict, Succeed, Fail, Release, Compensate, Propagate
<1>2. UNCHANGED at \/ \E place \in Places : Move(q, m, place)
    BY DEF NodeStep, Start, TakeLease, RefuseLease, ProbeHit, ProbeMiss, Save,
           SaveConflict, Succeed, Fail, Release, Compensate, Places
<1>. QED BY <1>1, <1>2, Moves

\* Where a step at a node takes it.
LEMMA NodeMoves ==
    ASSUME TypeOK, NEW r \in Run, NEW n \in Node, NodeStep(r, n)
    PROVE  \/ Compensate(r, n) /\ UNCHANGED at
           \/ Start(r, n) /\ at[r][n] = "idle" /\ at'[r][n] = "lease"
           \/ TakeLease(r, n) /\ at[r][n] = "lease" /\ at'[r][n] = "probe"
           \/ RefuseLease(r, n) /\ at[r][n] = "lease" /\ at'[r][n] = "refused"
           \/ ProbeHit(r, n) /\ at[r][n] = "probe" /\ at'[r][n] = "release"
           \/ ProbeMiss(r, n) /\ at[r][n] = "probe" /\ at'[r][n] = "save"
           \/ Save(r, n) /\ at[r][n] = "save" /\ at'[r][n] = "execute"
           \/ SaveConflict(r, n) /\ at[r][n] = "save" /\ at'[r][n] = "rejected"
           \/ Succeed(r, n) /\ at[r][n] = "execute" /\ at'[r][n] = "release"
           \/ Fail(r, n) /\ at[r][n] = "execute" /\ at'[r][n] \in {"save", "release"}
           \/ Release(r, n) /\ at[r][n] = "release" /\ at'[r][n] = "done"
<1>1. CASE Start(r, n) \/ TakeLease(r, n) \/ RefuseLease(r, n)
    BY <1>1, Moves DEF Start, TakeLease, RefuseLease, Ready, Places
<1>2. CASE ProbeHit(r, n) \/ ProbeMiss(r, n) \/ Save(r, n) \/ SaveConflict(r, n)
    BY <1>2, Moves DEF ProbeHit, ProbeMiss, Save, SaveConflict, Places
<1>3. CASE Succeed(r, n) \/ Fail(r, n) \/ Release(r, n)
    BY <1>3, Moves DEF Succeed, Fail, Release, Places
<1>4. CASE Compensate(r, n)
    BY <1>4 DEF Compensate
<1>. QED BY <1>1, <1>2, <1>3, <1>4 DEF NodeStep

\* A step that is neither a run's nor a node's.
Elsewhere == UNCHANGED <<state, failed, loaded, at, attempt, unlocked, stack, table,
                         undone>>

LEMMA StepCases ==
    ASSUME [Next]_vars
    PROVE  \/ \E r \in Run : RunStep(r) \/ Crash(r)
           \/ \E r \in Run : \E n \in Node : NodeStep(r, n)
           \/ Elsewhere
BY DEF Next, vars, Expire, Elsewhere

\* A run's own steps.
LEMMA RunFrame ==
    ASSUME TypeOK, NEW q \in Run, RunStep(q) \/ Crash(q)
    PROVE  /\ UNCHANGED <<failed, at, attempt, unlocked, table>>
           /\ \A r \in Run \ {q} : state'[r] = state[r] /\ loaded'[r] = loaded[r]
BY DEF RunStep, Begin, Complete, Settle, GiveUp, Crash, table, TypeOK

\* Who inserted a row inserted it for good.
LEMMA WritersStay ==
    ASSUME IndInv, [Next]_vars, NEW x \in Key, status[x] # "none"
    PROVE  writer[x] \in Run /\ writer'[x] = writer[x]
<1>1. writer[x] \in Run
    BY DEF IndInv, RowInv
<1>2. ASSUME NEW r \in Run, NEW n \in Node, NodeStep(r, n)  PROVE writer'[x] = writer[x]
  <2>1. CASE Save(r, n)
    <3>1. /\ status[<<n, attempt[r][n]>>] = "none"
          /\ writer' = [writer EXCEPT ![<<n, attempt[r][n]>>] = r]
        BY <2>1 DEF Save
    <3>2. x # <<n, attempt[r][n]>> /\ writer \in [Key -> Run \cup {None}]
        BY <3>1 DEF IndInv, TypeOK
    <3>. QED BY ONLY x \in Key, <3>1, <3>2
  <2>2. CASE ~Save(r, n)
      BY <1>2, <2>2 DEF NodeStep, Start, TakeLease, RefuseLease, ProbeHit, ProbeMiss,
                    SaveConflict, Succeed, Fail, Release, Compensate, table
  <2>. QED BY <2>1, <2>2
<1>3. ASSUME NEW r \in Run, RunStep(r) \/ Crash(r)  PROVE writer'[x] = writer[x]
    BY <1>3, RunFrame DEF IndInv, table
<1>4. ASSUME Elsewhere  PROVE writer'[x] = writer[x]
    BY <1>4 DEF Elsewhere, table
<1>. QED BY <1>1, <1>2, <1>3, <1>4, StepCases

\* What has succeeded keeps the run that did it.
LEMMA DoersStay ==
    ASSUME IndInv, [Next]_vars, NEW n \in Node, Succeeded(n) \/ writer[<<n, 1>>] \in Run
    PROVE  writer[<<n, 1>>] \in Run /\ writer'[<<n, 1>>] = writer[<<n, 1>>]
<1>1. <<n, 1>> \in Key
    BY Keys
<1>2. Succeeded(n) => status[<<n, 1>>] # "none"
  <2>. SUFFICES ASSUME NEW x \in Key, x[1] = n, status[x] = "success"
                PROVE  status[<<n, 1>>] # "none"
      BY DEF Succeeded, Rows
  <2>1. PICK k \in 1..MaxAttempts[n] : x = <<n, k>>
    <3>1. PICK m \in Node : \E k \in 1..MaxAttempts[m] : x = <<m, k>>
        BY Keys
    <3>. QED BY <3>1
  <2>. QED BY <2>1 DEF IndInv, RowInv
<1>3. status[<<n, 1>>] # "none"
    BY <1>1, <1>2 DEF IndInv, RowInv
<1>. QED BY <1>1, <1>3, WritersStay

\* A success is recorded by the run that inserted the node's first row.
LEMMA SuccessComes ==
    ASSUME IndInv, [Next]_vars, NEW n \in Node, ~Succeeded(n), Succeeded(n)'
    PROVE  \E q \in Run : at[q][n] = "execute" /\ writer[<<n, 1>>] = q
<1>1. PICK x \in Key : x[1] = n /\ status'[x] = "success" /\ status[x] # "success"
    BY DEF Succeeded, Rows
<1>2. ASSUME NEW q \in Run, NEW m \in Node, NodeStep(q, m)
      PROVE  Succeed(q, n)
  <2>1. CASE Save(q, m)
    <3>1. status' = [status EXCEPT ![<<m, attempt[q][m]>>] = "running"]
        BY <2>1 DEF Save
    <3>. QED BY <1>1, <3>1 DEF IndInv, TypeOK
  <2>2. CASE Fail(q, m)
    <3>1. status' = [status EXCEPT ![<<m, attempt[q][m]>>] = "failed"]
        BY <2>2 DEF Fail
    <3>. QED BY <1>1, <3>1 DEF IndInv, TypeOK
  <2>3. CASE Succeed(q, m)
    <3>1. status' = [status EXCEPT ![<<m, attempt[q][m]>>] = "success"]
        BY <2>3 DEF Succeed
    <3>2. x = <<m, attempt[q][m]>>
        BY <1>1, <3>1 DEF IndInv, TypeOK
    <3>3. x[1] = m
        BY <3>2
    <3>. QED BY <1>1, <2>3, <3>3
  <2>4. CASE ~Save(q, m) /\ ~Fail(q, m) /\ ~Succeed(q, m)
      BY <1>1, <1>2, <2>4 DEF NodeStep, Start, TakeLease, RefuseLease, ProbeHit, ProbeMiss,
                    SaveConflict, Release, Compensate, table
  <2>. QED BY <2>1, <2>2, <2>3, <2>4
<1>3. ASSUME NEW q \in Run, RunStep(q) \/ Crash(q)  PROVE FALSE
    BY <1>1, <1>3, RunFrame DEF IndInv, table
<1>4. ASSUME Elsewhere  PROVE FALSE
    BY <1>1, <1>4 DEF Elsewhere, table
<1>5. PICK q \in Run : Succeed(q, n)
    BY <1>2, <1>3, <1>4, StepCases
<1>6. at[q][n] = "execute"
    BY <1>5 DEF Succeed
<1>. QED BY <1>6, ClaimedIsOwn DEF Claims

\* Who is done with a node stays so, and comes there in one of three ways.
LEMMA DonePlaces ==
    ASSUME TypeOK, [Next]_vars, NEW r \in Run, NEW n \in Node
    PROVE  /\ at[r][n] \in {"release", "done"} => at'[r][n] \in {"release", "done"}
           /\ at'[r][n] \in {"release", "done"} =>
                at[r][n] \in {"release", "done"}
                \/ ProbeHit(r, n) \/ Succeed(r, n) \/ Fail(r, n)
<1>1. ASSUME NEW q \in Run, NEW m \in Node, NodeStep(q, m)
      PROVE  at'[r][n] = at[r][n] \/ (q = r /\ m = n)
    BY <1>1, NodeFrame
<1>2. CASE NodeStep(r, n)
    BY <1>2, NodeMoves
<1>3. ASSUME NEW q \in Run, RunStep(q) \/ Crash(q)  PROVE at'[r][n] = at[r][n]
    BY <1>3, RunFrame
<1>4. Elsewhere => at'[r][n] = at[r][n]
    BY DEF Elsewhere
<1>. QED BY <1>1, <1>2, <1>3, <1>4, StepCases

\* A run propagates what it is done with.
LEMMA UnlockedDone ==
    ASSUME IndInv, DoneInv, [Next]_vars, NEW r \in Run
    PROVE  \A n \in unlocked'[r] : at'[r][n] \in {"release", "done"}
<1>. SUFFICES ASSUME NEW n \in unlocked'[r]  PROVE at'[r][n] \in {"release", "done"}
    OBVIOUS
<1>0. TypeOK /\ unlocked[r] \subseteq Node
    BY DEF IndInv, TypeOK
<1>1. CASE n \in unlocked[r]
    BY <1>0, <1>1, DonePlaces DEF DoneInv
<1>2. CASE n \notin unlocked[r]
  <2>1. ASSUME NEW q \in Run, NEW m \in Node, NodeStep(q, m)
        PROVE  q = r /\ m = n /\ (ProbeHit(r, n) \/ Succeed(r, n))
    <3>1. q = r
        BY <1>0, <1>2, <2>1, NodeFrame
    <3>2. unlocked' = unlocked \/ ((ProbeHit(r, m) \/ Succeed(r, m)) /\ Propagate(r, m))
        BY <2>1, <3>1 DEF NodeStep, Start, TakeLease, RefuseLease, ProbeHit, ProbeMiss,
                      Save, SaveConflict, Succeed, Fail, Release, Compensate
    <3>3. Propagate(r, m) => unlocked'[r] \subseteq unlocked[r] \cup {m}
        BY <1>0 DEF Propagate, TypeOK
    <3>. QED BY <1>2, <3>1, <3>2, <3>3
  <2>2. ASSUME NEW q \in Run, RunStep(q) \/ Crash(q)  PROVE FALSE
      BY <1>0, <1>2, <2>2, RunFrame
  <2>3. ~Elsewhere
      BY <1>2 DEF Elsewhere
  <2>4. n \in Node /\ (ProbeHit(r, n) \/ Succeed(r, n))
      BY <2>1, <2>2, <2>3, StepCases
  <2>5. Move(r, n, "release") /\ "release" \in Places
      BY <2>4 DEF ProbeHit, Succeed, Places
  <2>. QED BY <1>0, <2>4, <2>5, Moves
<1>. QED BY <1>1, <1>2

\* What a run is done with has succeeded, or was the run's own to do.
LEMMA DoneIsKnown ==
    ASSUME IndInv, DoneInv, [Next]_vars, NEW r \in Run, NEW n \in Node,
           at'[r][n] \in {"release", "done"}
    PROVE  Succeeded(n)' \/ writer'[<<n, 1>>] = r
<1>0. TypeOK
    BY DEF IndInv
<1>1. CASE at[r][n] \in {"release", "done"}
  <2>1. CASE Succeeded(n)
      BY <2>1, RowsStay DEF IndInv
  <2>2. CASE writer[<<n, 1>>] = r
      BY <2>2, DoersStay
  <2>. QED BY <1>1, <2>1, <2>2 DEF DoneInv
<1>2. CASE ProbeHit(r, n)
    BY <1>2, RowsStay DEF ProbeHit, IndInv
<1>3. CASE Succeed(r, n) \/ Fail(r, n)
  <2>1. Claims(r, n)
      BY <1>3 DEF Succeed, Fail, Claims
  <2>. QED BY <2>1, ClaimedIsOwn, DoersStay
<1>. QED BY <1>0, <1>1, <1>2, <1>3, DonePlaces

\* A run that compensates has failed and is at rest, and stays so.
RestOf(r) ==
    state[r] \in {"compensating", "failed"} => failed[r] /\ \A n \in Node : AtRest(r, n)

LEMMA RestStep ==
    ASSUME TypeOK, [Next]_vars, NEW r \in Run, RestOf(r)  PROVE RestOf(r)'
<1>1. ASSUME NEW q \in Run, NEW m \in Node, NodeStep(q, m)  PROVE RestOf(r)'
  <2>1. CASE q # r
      BY <1>1, <2>1, NodeFrame DEF RestOf, AtRest
  <2>2. CASE q = r
    <3>1. state'[r] \in {"compensating", "failed"} => state'[r] = state[r]
        BY <1>1, <2>2 DEF NodeStep, Start, TakeLease, RefuseLease, ProbeHit, ProbeMiss,
                      Save, SaveConflict, Succeed, Fail, Release, Compensate, TypeOK
    <3>2. ASSUME state[r] \in {"compensating", "failed"}  PROVE Compensate(r, m)
      <4>1. AtRest(r, m) /\ ~Start(r, m)
          BY <3>2 DEF RestOf, Start
      <4>. QED BY <1>1, <2>2, <4>1, NodeMoves DEF AtRest
    <3>3. Compensate(r, m) => UNCHANGED <<failed, at>>
        BY DEF Compensate
    <3>. QED BY <3>1, <3>2, <3>3 DEF RestOf, AtRest
  <2>. QED BY <2>1, <2>2
<1>2. ASSUME NEW q \in Run, RunStep(q) \/ Crash(q)  PROVE RestOf(r)'
  <2>1. UNCHANGED <<failed, at>>
      BY <1>2, RunFrame
  <2>2. state'[r] \in {"compensating", "failed"} =>
          Settle(r) \/ state[r] \in {"compensating", "failed"}
      BY <1>2 DEF RunStep, Begin, Complete, Settle, GiveUp, Crash, TypeOK
  <2>3. Settle(r) => failed[r] /\ \A n \in Node : AtRest(r, n)
      BY DEF Settle
  <2>. QED BY <2>1, <2>2, <2>3 DEF RestOf, AtRest
<1>3. Elsewhere => RestOf(r)'
    BY DEF Elsewhere, RestOf, AtRest
<1>. QED BY <1>1, <1>2, <1>3, StepCases

LEMMA DoneStep == ASSUME IndInv, DoneInv, [Next]_vars  PROVE DoneInv'
<1>1. \A r \in Run : RestOf(r)'
    BY RestStep DEF IndInv, DoneInv, RestOf
<1>. QED BY <1>1, UnlockedDone, DoneIsKnown DEF DoneInv, RestOf
-----------------------------------------------------------------------------
(* What a step shows of a run.                                             *)

Fates(r) == [n \in Node |-> FateOf(r, n)]
RunView(r) == <<Phase(r), loaded[r], Fates(r), failed[r], {}>>
Allowed(r) ==
    [\/ Contract(r)!Next \/ Contract(r)!Die
     \/ \E n \in Node : Contract(r)!AnswerAndThrow(n)]_(RunView(r))

AtWork == {"lease", "probe", "save", "execute"}

FullInv == IndInv /\ WholeInv /\ AttemptInv /\ DoneInv

\* A node's fate does not change while it is at work, nor once it is known.
LEMMA FateKept ==
    ASSUME FullInv, [Next]_vars, NEW r \in Run, NEW n \in Node,
           \/ at'[r][n] = at[r][n]
           \/ at[r][n] = "release" /\ at'[r][n] = "done"
           \/ at[r][n] \in AtWork /\ at'[r][n] \in AtWork
    PROVE  FateOf(r, n)' = FateOf(r, n)
<1>. USE DEF FullInv
<1>1. CASE at[r][n] \notin {"release", "done"}
    BY <1>1 DEF FateOf, AtWork
<1>2. CASE at[r][n] \in {"release", "done"}
  <2>1. at'[r][n] \in {"release", "done"}
      BY <1>2 DEF AtWork
  <2>2. Succeeded(n)' <=> Succeeded(n)
    <3>1. Succeeded(n) => Succeeded(n)'
        BY RowsStay DEF IndInv
    <3>2. ASSUME ~Succeeded(n), Succeeded(n)'  PROVE FALSE
      <4>1. PICK q \in Run : at[q][n] = "execute" /\ writer[<<n, 1>>] = q
          BY <3>2, SuccessComes
      <4>2. q = r
          BY <1>2, <3>2, <4>1 DEF DoneInv
      <4>. QED BY <1>2, <4>1, <4>2
    <3>. QED BY <3>1, <3>2
  <2>3. writer'[<<n, 1>>] = writer[<<n, 1>>]
      BY <1>2, DoersStay DEF DoneInv
  <2>. QED BY <1>2, <2>1, <2>2, <2>3 DEF FateOf
<1>. QED BY <1>1, <1>2

LEMMA UnseenOfRun ==
    ASSUME FullInv, [Next]_vars, NEW r \in Run,
           Phase(r)' = Phase(r), loaded'[r] = loaded[r], failed'[r] = failed[r],
           \A n \in Node :
             \/ at'[r][n] = at[r][n]
             \/ at[r][n] = "release" /\ at'[r][n] = "done"
             \/ at[r][n] \in AtWork /\ at'[r][n] \in AtWork
    PROVE  Allowed(r)
<1>1. \A n \in Node : FateOf(r, n)' = FateOf(r, n)
    BY FateKept
<1>. QED BY <1>1 DEF Allowed, RunView, Fates

\* Nodes are at work only in runs that listen or threw.
LEMMA WorkPhase ==
    ASSUME FullInv, NEW r \in Run, NEW n \in Node, Alive(r), at[r][n] \in AtWork
    PROVE  state[r] \in {"running", "threw"}
<1>1. ~AtRest(r, n)
    BY DEF AtRest, AtWork
<1>2. state[r] \notin {"compensating", "failed"}
    BY <1>1 DEF FullInv, DoneInv
<1>3. state[r] # "completed"
    BY <1>1 DEF FullInv, WholeInv, WholeOf
<1>. QED BY <1>2, <1>3 DEF Alive, FullInv, IndInv, TypeOK, States

\* A node that leaves its work is answered.
LEMMA Answered ==
    ASSUME FullInv, [Next]_vars, NEW r \in Run, NEW n \in Node,
           Alive(r), at[r][n] \in AtWork, UNCHANGED <<state, loaded>>,
           \A m \in Node : m # n => at'[r][m] = at[r][m],
           NEW answer \in Contract(r)!Answers,
           FateOf(r, n)' = answer,
           failed'[r] = IF answer = "failed" THEN TRUE ELSE failed[r]
    PROVE  Allowed(r)
<1>1. Phase(r)' = Phase(r) /\ Phase(r) \in {"running", "threw"}
    BY WorkPhase DEF Phase
<1>2. FateOf(r, n) = "working"
    BY DEF FateOf, AtWork
<1>3. \A m \in Node : m # n => FateOf(r, m)' = FateOf(r, m)
    BY FateKept
<1>4. failed'[r] = (failed[r] \/ answer = "failed")
    BY DEF FullInv, IndInv, TypeOK
<1>5. Contract(r)!Answer(n)
    BY <1>1, <1>2, <1>3, <1>4 DEF Contract!Answer
<1>. QED BY <1>5 DEF Allowed, Contract!Next

\* run() begins, completes, settles, gives up or stops.
LEMMA RunStepAllowed ==
    ASSUME FullInv, [Next]_vars, NEW r \in Run, RunStep(r) \/ Crash(r)  PROVE Allowed(r)
<1>0. /\ TypeOK /\ WholeOf(r) /\ \A n \in Node : FateOf(r, n)' = FateOf(r, n)
      /\ UNCHANGED failed /\ Fates(r)' = Fates(r)
  <2>1. \A n \in Node : FateOf(r, n)' = FateOf(r, n)
      BY RunFrame, FateKept DEF FullInv, IndInv
  <2>. QED BY <2>1, RunFrame DEF Fates, FullInv, IndInv, WholeInv
<1>1. CASE Begin(r)
  <2>1. /\ state[r] = "queued" /\ state'[r] = "running"
        /\ loaded'[r] \in SUBSET Node
      BY <1>0, <1>1 DEF Begin, TypeOK
  <2>2. Contract(r)!Begin
      BY <1>0, <2>1 DEF Contract!Begin, Phase
  <2>. QED BY <2>2 DEF Allowed, Contract!Next
<1>2. CASE Complete(r)
  <2>1. /\ state[r] = "running" /\ state'[r] = "completed" /\ ~failed[r] /\ loaded' = loaded
        /\ \A n \in Node : AtRest(r, n) /\ ~Ready(r, n)
      BY <1>0, <1>2 DEF Complete, TypeOK
  <2>2. ASSUME NEW n \in Node
        PROVE  /\ FateOf(r, n) \notin {"working", "failed", "threw"}
               /\ FateOf(r, n) \in {"success", "skipped"} => n \in unlocked[r]
    <3>1. at[r][n] \in {"idle", "refused", "done"}
        BY <1>0, <2>1 DEF AtRest, WholeOf
    <3>2. at[r][n] = "done" => n \in unlocked[r] /\ Succeeded(n)
        BY <1>0, <2>1 DEF WholeOf, FullInv, IndInv, InputInv
    <3>. QED BY <3>1, <3>2 DEF FateOf
  <2>3. ASSUME NEW n \in Node, FateOf(r, n) = "waiting"
        PROVE  n \in loaded[r]
               \/ \E m \in Node : /\ <<m, n>> \in Edges
                                  /\ FateOf(r, m) \notin {"success", "skipped"}
    <3>1. at[r][n] = "idle"
        BY <2>3 DEF FateOf
    <3>2. n \in loaded[r] \/ \E m \in Pred(n) : m \notin unlocked[r]
        BY <2>1, <3>1 DEF Ready
    <3>. QED BY <2>2, <3>2 DEF Pred
  <2>4. Contract(r)!Complete
      BY <1>0, <2>1, <2>2, <2>3
         DEF Contract!Complete, Contract!Quiet, Contract!Done, Phase, Fates
  <2>. QED BY <2>4 DEF Allowed, Contract!Next
<1>3. CASE Settle(r)
  <2>1. state[r] = "running" /\ state'[r] = "compensating" /\ loaded' = loaded
      BY <1>0, <1>3 DEF Settle, TypeOK
  <2>. QED BY <1>0, <2>1 DEF Allowed, RunView, Phase
<1>4. CASE GiveUp(r)
  <2>1. state[r] = "compensating" /\ state'[r] = "failed" /\ loaded' = loaded
      BY <1>0, <1>4 DEF GiveUp, TypeOK
  <2>2. failed[r] /\ \A n \in Node : AtRest(r, n)
      BY <2>1 DEF FullInv, DoneInv
  <2>3. \A n \in Node : FateOf(r, n) # "working"
      BY <2>2 DEF FateOf, AtRest
  <2>4. Contract(r)!Fail
      BY <1>0, <2>1, <2>2, <2>3 DEF Contract!Fail, Contract!Quiet, Phase
  <2>. QED BY <2>4 DEF Allowed, Contract!Next
<1>5. CASE Crash(r)
  <2>1. state'[r] = "crashed" /\ loaded' = loaded
      BY <1>0, <1>5 DEF Crash, TypeOK
  <2>2. state[r] \in {"running", "compensating", "threw"}
    <3>1. state[r] \in {"completed", "failed"} => \A n \in Node : AtRest(r, n)
        BY <1>0 DEF WholeOf, FullInv, DoneInv
    <3>. QED BY <1>0, <1>5, <3>1 DEF Crash, Alive, Ended, TypeOK, States
  <2>3. Contract(r)!Die
      BY <1>0, <2>1, <2>2 DEF Contract!Die, Phase
  <2>. QED BY <2>3 DEF Allowed
<1>. QED BY <1>1, <1>2, <1>3, <1>4, <1>5 DEF RunStep

\* processNode starts only what the contract lets a run take up.
LEMMA StartAllowed ==
    ASSUME FullInv, [Next]_vars, NEW r \in Run, NEW n \in Node, Start(r, n)
    PROVE  Allowed(r)
<1>1. /\ state[r] = "running" /\ ~failed[r] /\ at[r][n] = "idle" /\ n \notin loaded[r]
      /\ Pred(n) \subseteq unlocked[r]
      /\ UNCHANGED <<state, loaded, failed>> /\ Move(r, n, "lease")
    BY DEF Start, Ready
<1>2. at'[r][n] = "lease" /\ \A m \in Node : m # n => at'[r][m] = at[r][m]
    BY <1>1, Moves DEF FullInv, IndInv, Places
<1>3. \A m \in Node : m # n => FateOf(r, m)' = FateOf(r, m)
    BY <1>2, FateKept
<1>4. FateOf(r, n) = "waiting" /\ FateOf(r, n)' = "working"
    BY <1>1, <1>2 DEF FateOf
<1>5. ASSUME NEW m \in Node, <<m, n>> \in Edges
      PROVE  FateOf(r, m) \in {"success", "skipped"}
  <2>1. m \in unlocked[r]
      BY <1>1, <1>5 DEF Pred
  <2>2. at[r][m] \in {"release", "done"} /\ Succeeded(m)
      BY <2>1 DEF FullInv, IndInv, InputInv, DoneInv
  <2>. QED BY <2>2 DEF FateOf
<1>6. Contract(r)!Take(n)
    BY <1>1, <1>3, <1>4, <1>5 DEF Contract!Take, Contract!Done, Phase
<1>. QED BY <1>6 DEF Allowed, Contract!Next

\* Lease, probe, row and release are the run's own affair.
LEMMA QuietNodeAllowed ==
    ASSUME FullInv, [Next]_vars, NEW r \in Run, NEW n \in Node,
           \/ TakeLease(r, n) \/ ProbeMiss(r, n) \/ Save(r, n) \/ Release(r, n)
           \/ Compensate(r, n)
    PROVE  Allowed(r)
<1>1. TypeOK /\ NodeStep(r, n) /\ UNCHANGED <<state, loaded, failed>>
    BY DEF FullInv, IndInv, NodeStep, TakeLease, ProbeMiss, Save, Release, Compensate
<1>2. \A m \in Node : m # n => at'[r][m] = at[r][m]
    BY <1>1, NodeFrame
<1>3. \/ at'[r][n] = at[r][n]
      \/ at[r][n] = "release" /\ at'[r][n] = "done"
      \/ at[r][n] \in AtWork /\ at'[r][n] \in AtWork
  <2>1. CASE Compensate(r, n)
      BY <2>1 DEF Compensate
  <2>2. CASE TakeLease(r, n)
      BY <1>1, <2>2, Moves DEF TakeLease, AtWork, Places
  <2>3. CASE ProbeMiss(r, n) \/ Save(r, n)
      BY <1>1, <2>3, Moves DEF ProbeMiss, Save, AtWork, Places
  <2>4. CASE Release(r, n)
      BY <1>1, <2>4, Moves DEF Release, Places
  <2>. QED BY <2>1, <2>2, <2>3, <2>4
<1>4. Phase(r)' = Phase(r)
    BY <1>1 DEF Phase
<1>. QED BY <1>1, <1>2, <1>3, <1>4, UnseenOfRun

\* A refusal, a probe that hits and a success are answers.
LEMMA GoodAnswerAllowed ==
    ASSUME FullInv, [Next]_vars, NEW r \in Run, NEW n \in Node,
           RefuseLease(r, n) \/ ProbeHit(r, n) \/ Succeed(r, n)
    PROVE  Allowed(r)
<1>1. /\ TypeOK /\ NodeStep(r, n) /\ UNCHANGED <<state, loaded, failed>>
      /\ Alive(r) /\ at[r][n] \in AtWork
    BY DEF FullInv, IndInv, NodeStep, RefuseLease, ProbeHit, Succeed, AtWork
<1>2. \A m \in Node : m # n => at'[r][m] = at[r][m]
    BY <1>1, NodeFrame
<1>3. CASE RefuseLease(r, n)
  <2>1. at'[r][n] = "refused"
      BY <1>1, <1>3, Moves DEF RefuseLease, Places
  <2>2. FateOf(r, n)' = "refused" /\ "refused" \in Contract(r)!Answers
      BY <2>1 DEF FateOf, Contract!Answers
  <2>. QED BY <1>1, <1>2, <2>2, Answered
<1>4. CASE ProbeHit(r, n) \/ Succeed(r, n)
  <2>1. at'[r][n] = "release"
      BY <1>1, <1>4, Moves DEF ProbeHit, Succeed, Places
  <2>2. Succeeded(n)'
    <3>1. CASE ProbeHit(r, n)
        BY <3>1, RowsStay DEF ProbeHit, FullInv, IndInv
    <3>2. CASE Succeed(r, n)
      <4>1. <<n, attempt[r][n]>> \in Key /\ <<n, attempt[r][n]>>[1] = n
          BY <1>1, AttemptKey
      <4>2. status' = [status EXCEPT ![<<n, attempt[r][n]>>] = "success"]
          BY <3>2 DEF Succeed
      <4>. QED BY <1>1, <4>1, <4>2 DEF Succeeded, Rows, TypeOK
    <3>. QED BY <1>4, <3>1, <3>2
  <2>3. /\ FateOf(r, n)' \in {"success", "skipped"}
        /\ {"success", "skipped"} \subseteq Contract(r)!Answers
      BY <2>1, <2>2 DEF FateOf, Contract!Answers
  <2>. QED BY <1>1, <1>2, <2>3, Answered
<1>. QED BY <1>3, <1>4

\* A failed attempt is the run's own affair, the last one fails the node and the run.
LEMMA FailAllowed ==
    ASSUME FullInv, [Next]_vars, NEW r \in Run, NEW n \in Node, Fail(r, n)
    PROVE  Allowed(r)
<1>1. /\ TypeOK /\ NodeStep(r, n) /\ UNCHANGED <<state, loaded>>
      /\ Alive(r) /\ at[r][n] = "execute" /\ at[r][n] \in AtWork
    BY DEF FullInv, IndInv, NodeStep, Fail, AtWork
<1>2. \A m \in Node : m # n => at'[r][m] = at[r][m]
    BY <1>1, NodeFrame
<1>3. CASE Move(r, n, "save") /\ UNCHANGED failed
  <2>1. at'[r][n] \in AtWork
      BY <1>1, <1>3, Moves DEF AtWork, Places
  <2>2. Phase(r)' = Phase(r)
      BY <1>1 DEF Phase
  <2>. QED BY <1>1, <1>2, <1>3, <2>1, <2>2, UnseenOfRun
<1>4. CASE Move(r, n, "release") /\ failed' = [failed EXCEPT ![r] = TRUE]
  <2>1. at'[r][n] = "release" /\ failed'[r]
      BY <1>1, <1>4, Moves DEF Places, TypeOK
  <2>2. ~Succeeded(n)'
    <3>1. ~Succeeded(n)
        BY <1>1, SuccessIsLast DEF FullInv, SuccessIsFinal
    <3>2. status' = [status EXCEPT ![<<n, attempt[r][n]>>] = "failed"]
        BY DEF Fail
    <3>3. \A x \in Key : status'[x] = "success" => status[x] = "success"
        BY <1>1, <3>2 DEF TypeOK
    <3>. QED BY <3>1, <3>3 DEF Succeeded, Rows
  <2>3. FateOf(r, n)' = "failed" /\ "failed" \in Contract(r)!Answers
      BY <2>1, <2>2 DEF FateOf, Contract!Answers
  <2>. QED BY <1>1, <1>2, <2>1, <2>3, Answered
<1>. QED BY <1>3, <1>4 DEF Fail

\* A checkpoint row that is there already: the node throws, and so does a run that
\* listens.
LEMMA ConflictAllowed ==
    ASSUME FullInv, [Next]_vars, NEW r \in Run, NEW n \in Node, SaveConflict(r, n)
    PROVE  Allowed(r)
<1>1. /\ TypeOK /\ NodeStep(r, n) /\ UNCHANGED <<loaded, failed>>
      /\ Alive(r) /\ at[r][n] \in AtWork
    BY DEF FullInv, IndInv, NodeStep, SaveConflict, AtWork
<1>2. \A m \in Node : m # n => at'[r][m] = at[r][m]
    BY <1>1, NodeFrame
<1>3. at'[r][n] = "rejected"
    BY <1>1, Moves DEF SaveConflict, Places
<1>4. FateOf(r, n) = "working" /\ FateOf(r, n)' = "threw"
    BY <1>1, <1>3 DEF FateOf, AtWork
<1>5. CASE UNCHANGED state
  <2>1. "threw" \in Contract(r)!Answers
      BY DEF Contract!Answers
  <2>. QED BY <1>1, <1>2, <1>4, <1>5, <2>1, Answered
<1>6. CASE state[r] = "running" /\ state' = [state EXCEPT ![r] = "threw"]
  <2>1. state'[r] = "threw"
      BY <1>1, <1>6 DEF TypeOK
  <2>2. \A m \in Node : m # n => FateOf(r, m)' = FateOf(r, m)
      BY <1>2, FateKept
  <2>3. Contract(r)!AnswerAndThrow(n)
      BY <1>1, <1>4, <1>6, <2>1, <2>2 DEF Contract!AnswerAndThrow, Phase
  <2>. QED BY <2>3 DEF Allowed
<1>. QED BY <1>5, <1>6 DEF SaveConflict

LEMMA StepAllowed == ASSUME FullInv, [Next]_vars, NEW r \in Run  PROVE Allowed(r)
<1>0. TypeOK
    BY DEF FullInv, IndInv
<1>1. ASSUME NEW q \in Run, RunStep(q) \/ Crash(q)  PROVE Allowed(r)
  <2>1. CASE q = r
      BY <1>1, <2>1, RunStepAllowed
  <2>2. CASE q # r
    <3>1. state'[r] = state[r] /\ loaded'[r] = loaded[r] /\ UNCHANGED <<failed, at>>
        BY <1>0, <1>1, <2>2, RunFrame
    <3>2. Phase(r)' = Phase(r)
        BY <3>1 DEF Phase
    <3>. QED BY <3>1, <3>2, UnseenOfRun
  <2>. QED BY <2>1, <2>2
<1>2. ASSUME NEW q \in Run, NEW n \in Node, NodeStep(q, n)  PROVE Allowed(r)
  <2>1. CASE q = r
      BY <1>2, <2>1, StartAllowed, QuietNodeAllowed, GoodAnswerAllowed, FailAllowed,
         ConflictAllowed DEF NodeStep
  <2>2. CASE q # r
    <3>1. /\ state'[r] = state[r] /\ loaded'[r] = loaded[r] /\ failed'[r] = failed[r]
          /\ \A m \in Node : at'[r][m] = at[r][m]
        BY <1>0, <1>2, <2>2, NodeFrame
    <3>2. Phase(r)' = Phase(r)
        BY <3>1 DEF Phase
    <3>. QED BY <3>1, <3>2, UnseenOfRun
  <2>. QED BY <2>1, <2>2
<1>3. ASSUME Elsewhere  PROVE Allowed(r)
  <2>1. UNCHANGED <<state, loaded, failed, at>> /\ Phase(r)' = Phase(r)
      BY <1>3 DEF Elsewhere, Phase
  <2>. QED BY <2>1, UnseenOfRun
<1>. QED BY <1>1, <1>2, <1>3, StepCases

\* However many runs of an execution overlap, whatever leases lapse and processes
\* die: to whoever looks at one of them, it takes up nodes only with their inputs
\* there, answers each once, completes with nothing unexplained left out and fails
\* at rest, as a run that is alone does (ImplementsContract).
THEOREM EachRunKeepsContract == Spec => EachKeepsContract
<1>. SUFFICES ASSUME NEW r \in Run  PROVE Spec => Contract(r)!MortalSpec
    BY DEF EachKeepsContract
<1>1. Init => Contract(r)!Init
  <2>. SUFFICES ASSUME Init  PROVE Contract(r)!Init
      OBVIOUS
  <2>1. Phase(r) = "loading" /\ loaded[r] = {} /\ failed[r] = FALSE
      BY DEF Init, Phase
  <2>2. \A n \in Node : FateOf(r, n) = "waiting"
      BY DEF Init, FateOf
  <2>. QED BY <2>1, <2>2 DEF Contract!Init
<1>2. Init => WholeInv /\ AttemptInv /\ DoneInv
    BY SharedAssumption DEF Init, WholeInv, WholeOf, AttemptInv, DoneInv, Key
<1>3. Spec => []FullInv
    BY Invariance, WholeStep, AttemptStep, DoneStep, <1>2, PTL DEF Spec, FullInv
<1>4. FullInv /\ [Next]_vars => Allowed(r)
    BY StepAllowed
<1>. QED BY <1>1, <1>3, <1>4, PTL
        DEF Spec, Allowed, RunView, Fates, Contract!MortalSpec, Contract!view
=============================================================================
