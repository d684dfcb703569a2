----------------------------- MODULE DnsGateProofs -----------------------------
(***************************************************************************)
(* The DNS gate keeps its invariant and implements the grant ledger, for   *)
(* every number of queries, names, addresses and grants.                   *)
(***************************************************************************)
EXTENDS DnsGate, FiniteSetTheorems, TLAPS

USE AsksTyped, LimitsTyped, DialTyped, NoQueryFresh

LEMMA SmallerSet ==
  ASSUME NEW S, NEW T \in SUBSET Keys, S \subseteq T, Cardinality(T) <= MaxGrants
  PROVE  Cardinality(S) <= MaxGrants
<1>1. IsFiniteSet(T)
  BY KeysFinite, FS_Subset, Zenon
<1>2. IsFiniteSet(S) /\ Cardinality(S) <= Cardinality(T)
  BY <1>1, FS_Subset, Zenon
<1>3. Cardinality(S) \in Nat /\ Cardinality(T) \in Nat
  BY <1>1, <1>2, FS_CardinalityType, Zenon
<1>. QED BY <1>2, <1>3

LEMMA OneMore ==
  ASSUME NEW S, NEW T \in SUBSET Keys, NEW k \in Keys, S \subseteq T \cup {k},
         Cardinality(T) < MaxGrants
  PROVE  Cardinality(S) <= MaxGrants
<1>1. IsFiniteSet(T) /\ Cardinality(T) \in Nat
  BY KeysFinite, FS_Subset, FS_CardinalityType, Zenon
<1>2. IsFiniteSet(T \cup {k})
  BY <1>1, FS_AddElement, Zenon
<1>3. Cardinality(T \cup {k}) \in {Cardinality(T), Cardinality(T) + 1}
  BY <1>1, FS_AddElement, Zenon
<1>4. Cardinality(T \cup {k}) <= MaxGrants
  BY <1>1, <1>3
<1>. QED BY <1>4, SmallerSet, Zenon

LEMMA Updated ==
  ASSUME NEW S, NEW f \in [Queries -> S], NEW q \in Queries, NEW s \in S
  PROVE  [f EXCEPT ![q] = s] \in [Queries -> S]
  OBVIOUS

LEMMA SecsNat == ASSUME NEW t \in Nat PROVE Secs(t) \in Nat
  BY DEF Secs

\* A snapshot is never mistaken for no snapshot.
LEMMA ImageTyped ==
  ASSUME TypeOK
  PROVE  Image(grants, now) \in [Keys -> Int] /\ Image(grants, now) # NoImage
<1>1. \A k \in Keys : grants[k] \in Nat
  BY DEF TypeOK, Expiries
<1>2. \A k \in Keys : Image(grants, now)[k] \in Nat
  BY <1>1, SecsNat, Zenon DEF Image
<1>3. Image(grants, now) \in [Keys -> Int]
  BY <1>2 DEF Image
<1>4. PICK k \in Keys : TRUE
  BY KeysFinite, Zenon
<1>5. Image(grants, now)[k] # NoImage[k]
  BY <1>2, <1>4 DEF NoImage
<1>. QED BY <1>3, <1>5, Zenon

LEMMA InitGate == Init => GateInv
<1>. SUFFICES ASSUME Init PROVE GateInv
  OBVIOUS
<1>1. TypeOK
  <2>1. 0 \in Expiries
    BY DEF Expiries
  <2>2. grants \in [Keys -> Expiries] /\ staged \in [Queries -> [Keys -> Expiries]]
    BY <2>1, Zenon DEF Init, NoGrants
  <2>3. tmp \in [Queries -> [Keys -> Int]] /\ file \in [Keys -> Int]
    BY DEF Init, NoImage
  <2>4. todo \in [Queries -> Seq(Addrs)] /\ result \in [Queries -> {"none"}]
    BY DEF Init
  <2>5. sink \in {"up", "failed"}
    BY Zenon DEF Init
  <2>6. now \in 0..MaxTime /\ ttl \in [Queries -> 0..MaxTTL] /\ commits \in Nat
    BY DEF Init
  <2>7. /\ nth \in [Queries -> Nat] /\ tmpAt \in [Queries -> Nat] /\ fileAt \in Nat
        /\ dialing \in [Queries -> BOOLEAN]
    BY Zenon DEF Init
  <2>8. /\ pc \in [Queries -> {"new"}] /\ journal \subseteq Queries
        /\ lock \in Queries \cup {NoQuery} /\ gate = "serving"
    BY Zenon DEF Init
  <2>. QED BY <2>2, <2>3, <2>4, <2>5, <2>6, <2>7, <2>8, Zenon DEF TypeOK
<1>2. Claimed(grants) = {}
  BY DEF Init, Claimed, Held, NoGrants
<1>3. Cardinality(Claimed(grants)) <= MaxGrants
  BY <1>2, FS_EmptySet
<1>4. \A k \in Keys : grants[k] <= now + MaxTTL
  BY DEF Init, NoGrants
<1>5. \A q \in Queries : TaskInv(q)
  BY DEF Init, TaskInv, NoGrants
<1>. QED BY <1>1, <1>3, <1>4, <1>5, Zenon DEF GateInv

\* Steps that leave the table alone keep what is said of the table.
LEMMA TableKept ==
  ASSUME GateInv, UNCHANGED table, now' \in Nat, now' >= now
  PROVE  /\ Cardinality(Claimed(grants))' <= MaxGrants
         /\ \A k \in Keys : grants'[k] <= now' + MaxTTL
<1>1. Claimed(grants)' = Claimed(grants)
  BY DEF Claimed, Held, table
<1>2. Cardinality(Claimed(grants))' <= MaxGrants
  BY <1>1, Zenon DEF GateInv
<1>3. \A k \in Keys : grants[k] \in Nat /\ grants[k] <= now + MaxTTL
  BY DEF GateInv, TypeOK, Expiries
<1>. QED BY <1>2, <1>3 DEF GateInv, TypeOK, table

LEMMA NextGate == GateInv /\ [Next]_vars => GateInv'
<1>. SUFFICES ASSUME GateInv, [Next]_vars PROVE GateInv'
  OBVIOUS
<1>. USE DEF GateInv, table, export, committed, task
<1>1. ASSUME NEW q \in Queries, Admit(q) PROVE GateInv'
  <2>1. PICK l \in {"done", "refusing", "forward"}, r \in {"none", "dropped", "refused", "servfail"} :
          pc' = [pc EXCEPT ![q] = l] /\ result' = [result EXCEPT ![q] = r]
    <3>1. CASE result' = result
      <4>1. PICK l \in {"done", "refusing", "forward"} : pc' = [pc EXCEPT ![q] = l]
        BY <1>1, Zenon DEF Admit, Finish, RecordThen, Goto
      <4>2. /\ result[q] \in {"none", "dropped", "refused", "servfail"}
            /\ result' = [result EXCEPT ![q] = result[q]]
        <5>1. pc[q] = "new"
          BY <1>1, Zenon DEF Admit
        <5>2. /\ result \in [Queries -> {"none", "dropped", "refused", "servfail",
                                      "answered", "unexported"}]
              /\ result[q] \notin {"answered", "unexported"}
          BY <5>1, Zenon DEF TypeOK, TaskInv
        <5>. QED BY <3>1, <5>2, Zenon
      <4>. QED BY <4>1, <4>2, Zenon
    <3>2. CASE result' # result
      BY <1>1, <3>2, Zenon DEF Admit, Finish, RecordThen, Goto
    <3>. QED BY <3>1, <3>2, Zenon
  <2>2. pc[q] = "new" /\ UNCHANGED <<now, table, journal, sink, todo, dialing, ttl, export, gate, committed>>
    BY <1>1, Zenon DEF Admit
  <2>4. TypeOK'
    BY <2>1, <2>2, Zenon DEF TypeOK, Running, Waiting
  <2>5. \A p \in Queries : TaskInv(p)'
    BY <2>1, <2>2 DEF TypeOK, TaskInv
  <2>6. now' \in Nat /\ now' >= now
    BY <2>2 DEF TypeOK
  <2>. QED BY <2>2, <2>4, <2>5, <2>6, TableKept, Zenon
<1>2. ASSUME NEW q \in Queries, Refused(q) PROVE GateInv'
  <2>1. TypeOK'
    BY <1>2, Zenon DEF TypeOK, Refused, Finish, Goto, Running, Waiting
  <2>2. \A p \in Queries : TaskInv(p)'
    BY <1>2 DEF TypeOK, TaskInv, Refused, Finish, Goto
  <2>3. UNCHANGED table /\ now' \in Nat /\ now' >= now
    BY <1>2 DEF Refused, TypeOK
  <2>. QED BY <2>1, <2>2, <2>3, TableKept, Zenon
<1>3. ASSUME NEW q \in Queries, Reply(q) PROVE GateInv'
  <2>1. PICK l \in {"done", "refusing", "register"}, r \in {"none", "dropped", "refused", "servfail"} :
          pc' = [pc EXCEPT ![q] = l] /\ result' = [result EXCEPT ![q] = r]
    <3>1. CASE result' = result
      <4>1. PICK l \in {"done", "refusing", "register"} : pc' = [pc EXCEPT ![q] = l]
        BY <1>3, Zenon DEF Reply, Finish, RecordThen, Goto
      <4>2. /\ result[q] \in {"none", "dropped", "refused", "servfail"}
            /\ result' = [result EXCEPT ![q] = result[q]]
        <5>1. pc[q] = "forward"
          BY <1>3, Zenon DEF Reply
        <5>2. /\ result \in [Queries -> {"none", "dropped", "refused", "servfail",
                                      "answered", "unexported"}]
              /\ result[q] \notin {"answered", "unexported"}
          BY <5>1, Zenon DEF TypeOK, TaskInv
        <5>. QED BY <3>1, <5>2, Zenon
      <4>. QED BY <4>1, <4>2, Zenon
    <3>2. CASE result' # result
      BY <1>3, <3>2, Zenon DEF Reply, Finish, RecordThen, Goto
    <3>. QED BY <3>1, <3>2, Zenon
  <2>2. pc[q] = "forward" /\ UNCHANGED <<now, table, journal, sink, dialing, export, gate, committed>>
    BY <1>3, Zenon DEF Reply
  <2>3. todo' \in [Queries -> Seq(Addrs)] /\ ttl' \in [Queries -> 0..MaxTTL]
    <3>1. PICK m \in Replies :
            \/ UNCHANGED <<todo, ttl>>
            \/ /\ ttl' = [ttl EXCEPT ![q] = m.ttl]
               /\ todo' = [todo EXCEPT ![q] = IF m.ttl > 0 THEN m.addrs ELSE <<>>]
      BY <1>3, Zenon DEF Reply
    <3>2. m.ttl \in 0..MaxTTL /\ m.addrs \in Seq(Addrs)
      BY <3>1, RepliesTyped, Zenon
    <3>3. PICK s \in Seq(Addrs) : s = IF m.ttl > 0 THEN m.addrs ELSE <<>>
      <4>1. <<>> \in Seq(Addrs)
        OBVIOUS
      <4>. QED BY <3>2, <4>1, Zenon
    <3>4. \/ UNCHANGED <<todo, ttl>>
          \/ ttl' = [ttl EXCEPT ![q] = m.ttl] /\ todo' = [todo EXCEPT ![q] = s]
      BY <3>1, <3>3, Zenon
    <3>5. todo \in [Queries -> Seq(Addrs)] /\ ttl \in [Queries -> 0..MaxTTL]
      BY Zenon DEF TypeOK
    <3>6. CASE UNCHANGED <<todo, ttl>>
      BY <3>5, <3>6, Zenon
    <3>7. CASE ttl' = [ttl EXCEPT ![q] = m.ttl] /\ todo' = [todo EXCEPT ![q] = s]
      <4>1. [todo EXCEPT ![q] = s] \in [Queries -> Seq(Addrs)]
        BY <3>3, <3>5, Updated, Zenon
      <4>2. [ttl EXCEPT ![q] = m.ttl] \in [Queries -> 0..MaxTTL]
        BY <3>2, <3>5, Updated, Zenon
      <4>. QED BY <3>7, <4>1, <4>2, Zenon
    <3>. QED BY <3>4, <3>6, <3>7, Zenon
  <2>4. TypeOK'
    BY <2>1, <2>2, <2>3, ZenonT(30) DEF TypeOK, Running, Waiting
  <2>5. \A p \in Queries : TaskInv(p)'
    BY <2>1, <2>2 DEF TypeOK, TaskInv
  <2>6. now' \in Nat /\ now' >= now
    BY <2>2 DEF TypeOK
  <2>. QED BY <2>2, <2>4, <2>5, <2>6, TableKept, Zenon
<1>4. ASSUME NEW q \in Queries, Emit(q) PROVE GateInv'
  <2>1. TypeOK'
    BY <1>4, Zenon DEF TypeOK, Emit, Goto, Running, Waiting
  <2>2. \A p \in Queries : TaskInv(p)'
    BY <1>4 DEF TypeOK, TaskInv, Emit, Goto
  <2>3. UNCHANGED table /\ now' \in Nat /\ now' >= now
    BY <1>4 DEF Emit, TypeOK
  <2>. QED BY <2>1, <2>2, <2>3, TableKept, Zenon
<1>5. ASSUME NEW q \in Queries, Recorded(q) PROVE GateInv'
  <2>1. TypeOK'
    BY <1>5, Zenon DEF TypeOK, Recorded, Goto, Running, Waiting
  <2>2. \A p \in Queries : TaskInv(p)'
    BY <1>5 DEF TypeOK, TaskInv, Recorded, Goto
  <2>3. UNCHANGED table /\ now' \in Nat /\ now' >= now
    BY <1>5 DEF Recorded, TypeOK
  <2>. QED BY <2>1, <2>2, <2>3, TableKept, Zenon
<1>6. ASSUME NEW q \in Queries, Export(q) PROVE GateInv'
  <2>1. TypeOK'
    BY <1>6, ImageTyped, Zenon DEF TypeOK, Export, Goto, Running, Waiting
  <2>2. \A p \in Queries : TaskInv(p)'
    <3>1. /\ pc[q] = "export" /\ pc' = [pc EXCEPT ![q] = "write"]
          /\ lock = NoQuery /\ lock' = q
          /\ tmp' = [tmp EXCEPT ![q] = Image(grants, now)]
          /\ UNCHANGED <<now, staged, journal, result, nth>>
      BY <1>6, Zenon DEF Export, Goto
    <3>2. Image(grants, now) # NoImage
      BY ImageTyped, Zenon
    <3>3. TaskInv(q)'
      <4>1. tmp'[q] = Image(grants, now) /\ pc'[q] = "write"
        BY <3>1, Zenon DEF TypeOK
      <4>2. \A k \in Keys : ~(staged[q][k] > 0)
        BY <3>1, Zenon DEF TaskInv
      <4>. QED BY <3>1, <3>2, <4>1, <4>2, Zenon DEF TaskInv
    <3>4. ASSUME NEW p \in Queries, p # q PROVE TaskInv(p)'
      BY <3>1, <3>4 DEF TypeOK, TaskInv
    <3>. QED BY <3>3, <3>4, Zenon
  <2>3. UNCHANGED table /\ now' \in Nat /\ now' >= now
    BY <1>6 DEF Export, TypeOK
  <2>. QED BY <2>1, <2>2, <2>3, TableKept, Zenon
<1>7. ASSUME NEW q \in Queries, Rename(q) PROVE GateInv'
  <2>1. TypeOK'
    BY <1>7 DEF TypeOK, Rename, Finish, Goto, Running, Waiting, NoImage
  <2>2. \A p \in Queries : TaskInv(p)'
    <3>1. /\ pc[q] = "write" /\ pc' = [pc EXCEPT ![q] = "done"]
          /\ result' = [result EXCEPT ![q] = "answered"]
          /\ lock' = NoQuery /\ tmp' = [tmp EXCEPT ![q] = NoImage]
          /\ UNCHANGED <<now, staged, journal, nth>>
      BY <1>7, Zenon DEF Rename, Finish, Goto
    <3>2. lock = q /\ nth[q] > 0 /\ \A k \in Keys : ~(staged[q][k] > 0)
      BY <3>1, Zenon DEF TaskInv
    <3>3. TaskInv(q)'
      <4>1. pc'[q] = "done" /\ result'[q] = "answered" /\ tmp'[q] = NoImage
        BY <3>1, Zenon DEF TypeOK
      <4>. QED BY <3>1, <3>2, <4>1, NoQueryFresh, Zenon DEF TaskInv
    <3>4. ASSUME NEW p \in Queries, p # q PROVE TaskInv(p)'
      <4>1. pc'[p] = pc[p] /\ result'[p] = result[p] /\ tmp'[p] = tmp[p]
        BY <3>1, <3>4, Zenon DEF TypeOK
      <4>. QED BY <3>1, <3>2, <3>4, <4>1, NoQueryFresh DEF TaskInv
    <3>. QED BY <3>3, <3>4, Zenon
  <2>3. UNCHANGED table /\ now' \in Nat /\ now' >= now
    BY <1>7 DEF Rename, TypeOK
  <2>. QED BY <2>1, <2>2, <2>3, TableKept, Zenon
<1>8. ASSUME NEW q \in Queries, ExportFails(q) PROVE GateInv'
  <2>1. TypeOK'
    BY <1>8 DEF TypeOK, ExportFails, Finish, Goto, Running, Waiting, NoImage
  <2>2. \A p \in Queries : TaskInv(p)'
    <3>1. /\ pc[q] = "write" /\ pc' = [pc EXCEPT ![q] = "done"]
          /\ result' = [result EXCEPT ![q] = "unexported"]
          /\ lock' = NoQuery /\ tmp' = [tmp EXCEPT ![q] = NoImage]
          /\ UNCHANGED <<now, staged, journal, nth>>
      BY <1>8, Zenon DEF ExportFails, Finish, Goto
    <3>2. lock = q /\ nth[q] > 0 /\ \A k \in Keys : ~(staged[q][k] > 0)
      BY <3>1, Zenon DEF TaskInv
    <3>3. TaskInv(q)'
      <4>1. pc'[q] = "done" /\ result'[q] = "unexported" /\ tmp'[q] = NoImage
        BY <3>1, Zenon DEF TypeOK
      <4>. QED BY <3>1, <3>2, <4>1, NoQueryFresh, Zenon DEF TaskInv
    <3>4. ASSUME NEW p \in Queries, p # q PROVE TaskInv(p)'
      <4>1. pc'[p] = pc[p] /\ result'[p] = result[p] /\ tmp'[p] = tmp[p]
        BY <3>1, <3>4, Zenon DEF TypeOK
      <4>. QED BY <3>1, <3>2, <3>4, <4>1, NoQueryFresh DEF TaskInv
    <3>. QED BY <3>3, <3>4, Zenon
  <2>3. UNCHANGED table /\ now' \in Nat /\ now' >= now
    BY <1>8 DEF ExportFails, TypeOK
  <2>. QED BY <2>1, <2>2, <2>3, TableKept, Zenon
<1>9. ASSUME NEW q \in Queries, Abort(q) PROVE GateInv'
  <2>1. TypeOK'
    BY <1>9, Zenon DEF TypeOK, Abort, Goto, Running, Waiting
  <2>2. \A p \in Queries : TaskInv(p)'
    BY <1>9 DEF TypeOK, TaskInv, Abort, Goto, Waiting
  <2>3. UNCHANGED table /\ now' \in Nat /\ now' >= now
    BY <1>9 DEF Abort, TypeOK
  <2>. QED BY <2>1, <2>2, <2>3, TableKept, Zenon
<1>10. ASSUME NEW q \in Queries, Unrecorded(q) PROVE GateInv'
  <2>1. /\ pc[q] = "recording" /\ pc' = [pc EXCEPT ![q] = "done"]
        /\ result' = [result EXCEPT ![q] = "servfail"]
        /\ staged' = [staged EXCEPT ![q] = NoGrants]
        /\ journal' \subseteq Queries /\ journal \subseteq journal'
        /\ UNCHANGED <<now, grants, sink, todo, dialing, ttl, export, gate, committed>>
    BY <1>10, Zenon DEF Unrecorded, Finish, Goto, TypeOK
  <2>2. NoGrants \in [Keys -> Expiries] /\ \A k \in Keys : NoGrants[k] = 0
    BY DEF NoGrants, Expiries
  <2>3. TypeOK'
    BY <2>1, <2>2, Zenon DEF TypeOK, Running, Waiting
  <2>4. \A p \in Queries : TaskInv(p)'
    BY <2>1, <2>2 DEF TypeOK, TaskInv
  <2>5. Claimed(grants)' \subseteq Claimed(grants)
    BY <2>1, <2>2 DEF TypeOK, Claimed, Held
  <2>6. Cardinality(Claimed(grants)') <= MaxGrants
    BY <2>5, SmallerSet DEF Claimed, Held
  <2>. QED BY <2>1, <2>3, <2>4, <2>6, Zenon
<1>11. ASSUME NEW q \in Queries, Commit(q) PROVE GateInv'
  <2>1. /\ pc[q] = "commit" /\ pc' = [pc EXCEPT ![q] = "export"]
        /\ grants' = [k \in Keys |-> IF staged[q][k] > 0 THEN staged[q][k]
                                                          ELSE grants[k]]
        /\ staged' = [staged EXCEPT ![q] = NoGrants]
        /\ commits' = commits + 1 /\ nth' = [nth EXCEPT ![q] = commits + 1]
        /\ UNCHANGED <<now, journal, sink, todo, dialing, ttl, result, export, gate>>
    BY <1>11, Zenon DEF Commit, Goto
  <2>2. NoGrants \in [Keys -> Expiries] /\ \A k \in Keys : NoGrants[k] = 0
    BY DEF NoGrants, Expiries
  <2>3. TypeOK'
    BY <2>1, <2>2 DEF TypeOK, Running, Waiting
  <2>4. \A p \in Queries : TaskInv(p)'
    <3>1. TaskInv(q)'
      BY <2>1, <2>2 DEF TypeOK, TaskInv
    <3>2. ASSUME NEW p \in Queries, p # q PROVE TaskInv(p)'
      BY <2>1, <3>2 DEF TypeOK, TaskInv
    <3>. QED BY <3>1, <3>2, Zenon
  <2>5. Claimed(grants)' \subseteq Claimed(grants)
    <3>1. Held(grants') \subseteq Held(grants) \cup Held(staged[q])
      BY <2>1, Zenon DEF Held
    <3>2. \A p \in Queries : Held(staged'[p]) \subseteq Held(staged[p])
      BY <2>1, <2>2 DEF TypeOK, Held
    <3>. QED BY <3>1, <3>2 DEF Claimed, Held
  <2>6. Cardinality(Claimed(grants)') <= MaxGrants
    BY <2>5, SmallerSet DEF Claimed, Held
  <2>7. \A k \in Keys : grants'[k] <= now' + MaxTTL
    BY <2>1, Zenon DEF TaskInv
  <2>. QED BY <2>3, <2>4, <2>6, <2>7, Zenon
<1>12. ASSUME NEW q \in Queries, Register(q) PROVE GateInv'
  <2>1. /\ pc[q] = "register" /\ todo[q] # <<>>
        /\ UNCHANGED <<now, journal, sink, pc, ttl, result, export, gate, committed>>
    BY <1>12, Zenon DEF Register
  <2>2. PICK both \in BOOLEAN :
          /\ dialing' = [dialing EXCEPT ![q] = both]
          /\ todo' = [todo EXCEPT ![q] = IF both THEN todo[q] ELSE Tail(todo[q])]
    BY <1>12, Zenon DEF Register
  <2>3. /\ Head(todo[q]) \in Addrs /\ todo[q] \in Seq(Addrs)
        /\ Tail(todo[q]) \in Seq(Addrs)
    BY <2>1 DEF TypeOK
  <2>4. PICK k \in Keys : /\ k.name = Asks[q]
                          /\ RegisterStaged(q, k) \/ UNCHANGED table
    <3>. DEFINE a == Head(todo[q])
                e == [addr |-> IF dialing[q] THEN Dial[a] ELSE a, name |-> Asks[q]]
    <3>1. e \in Keys /\ e.name = Asks[q]
      BY <2>3, Zenon DEF Keys
    <3>2. RegisterStaged(q, e) \/ UNCHANGED table
      BY <1>12, Zenon DEF Register
    <3>. QED BY <3>1, <3>2, Zenon
  <2>5. todo' \in [Queries -> Seq(Addrs)] /\ dialing' \in [Queries -> BOOLEAN]
    <3>1. (IF both THEN todo[q] ELSE Tail(todo[q])) \in Seq(Addrs)
      BY <2>3, Zenon
    <3>2. todo \in [Queries -> Seq(Addrs)] /\ dialing \in [Queries -> BOOLEAN]
      BY Zenon DEF TypeOK
    <3>. QED BY <2>2, <3>1, <3>2, Updated, Zenon
  <2>6. CASE UNCHANGED table
    <3>1. TypeOK'
      BY <2>1, <2>5, <2>6, Zenon DEF TypeOK
    <3>2. \A p \in Queries : TaskInv(p)'
      BY <2>1, <2>6, Zenon DEF TaskInv
    <3>3. now' \in Nat /\ now' >= now
      BY <2>1 DEF TypeOK
    <3>. QED BY <2>6, <3>1, <3>2, <3>3, TableKept, Zenon
  <2>7. CASE RegisterStaged(q, k)
    <3>. DEFINE g == Swept(grants, now)
    <3>1. /\ grants' = g
          /\ \/ staged' = staged
             \/ /\ staged' = [staged EXCEPT ![q][k] = now + ttl[q]]
                /\ \/ staged[q][k] > 0 \/ g[k] > 0
                   \/ Cardinality(Claimed(g)) < MaxGrants
      BY <2>7, Zenon DEF RegisterStaged
    <3>2. g \in [Keys -> Expiries] /\ \A j \in Keys : g[j] \in {0, grants[j]}
      <4>1. 0 \in Expiries
        BY DEF Expiries
      <4>. QED BY <4>1, Zenon DEF Swept, TypeOK
    <3>. HIDE DEF g
    <3>3. PICK v \in Expiries : v = now + ttl[q] /\ v <= now + MaxTTL
      <4>1. now \in 0..MaxTime /\ ttl[q] \in 0..MaxTTL
        BY Zenon DEF TypeOK
      <4>. QED BY <4>1 DEF Expiries
    <3>4. /\ staged' \in [Queries -> [Keys -> Expiries]]
          /\ \A p \in Queries, j \in Keys :
               \/ staged'[p][j] = staged[p][j]
               \/ p = q /\ j = k /\ staged'[p][j] = v
      <4>1. staged \in [Queries -> [Keys -> Expiries]]
        BY Zenon DEF TypeOK
      <4>2. staged' = staged \/ staged' = [staged EXCEPT ![q][k] = v]
        BY <3>1, <3>3, Zenon
      <4>3. CASE staged' = staged
        BY <4>1, <4>3, Zenon
      <4>4. CASE staged' = [staged EXCEPT ![q][k] = v]
        <5>1. staged[q] \in [Keys -> Expiries]
          BY <4>1, Zenon
        <5>2. [staged[q] EXCEPT ![k] = v] \in [Keys -> Expiries]
          BY <5>1, <3>3, Zenon
        <5>. QED BY <4>1, <4>4, <5>1, <5>2, Zenon
      <4>. QED BY <4>2, <4>3, <4>4, Zenon
    <3>5. TypeOK'
      BY <2>1, <2>5, <3>1, <3>2, <3>4, Zenon DEF TypeOK
    <3>6. \A p \in Queries : TaskInv(p)'
      <4>1. ASSUME NEW p \in Queries, NEW j \in Keys, staged'[p][j] > 0
            PROVE  \/ staged[p][j] > 0 /\ staged'[p][j] = staged[p][j]
                   \/ p = q /\ j = k /\ staged'[p][j] = v
        BY <3>4, <4>1, Zenon
      <4>2. ASSUME NEW p \in Queries, NEW j \in Keys, staged'[p][j] > 0
            PROVE  /\ j.name = Asks[p] /\ staged'[p][j] <= now' + MaxTTL
                   /\ pc'[p] \in {"register", "recording", "commit", "aborted"}
        BY <2>1, <2>4, <3>3, <4>1, <4>2 DEF TaskInv
      <4>. QED BY <2>1, <4>2, Zenon DEF TaskInv
    <3>7. Claimed(g) \subseteq Claimed(grants) /\ Claimed(grants) \subseteq Keys
      BY <3>2 DEF Claimed, Held
    <3>8. Cardinality(Claimed(g)) <= MaxGrants
      BY <3>7, SmallerSet, Zenon
    <3>9. Claimed(grants)' \subseteq Claimed(g) \cup {k}
      <4>1. \A p \in Queries : Held(staged'[p]) \subseteq Held(staged[p]) \cup {k}
        BY <3>4, Zenon DEF Held
      <4>. QED BY <3>1, <4>1 DEF Claimed
    <3>10. Cardinality(Claimed(grants)') <= MaxGrants
      <4>1. CASE Cardinality(Claimed(g)) < MaxGrants
        BY <2>4, <3>7, <3>9, <4>1, OneMore, Zenon
      <4>2. CASE k \in Claimed(g)
        BY <3>7, <3>8, <3>9, <4>2, SmallerSet, Zenon
      <4>3. CASE staged' = staged
        <5>1. Claimed(grants)' = Claimed(g)
          BY <3>1, <4>3 DEF Claimed, Held
        <5>. QED BY <3>8, <5>1, Zenon
      <4>4. \/ staged' = staged \/ k \in Claimed(g)
            \/ Cardinality(Claimed(g)) < MaxGrants
        BY <2>4, <3>1 DEF Claimed, Held
      <4>. QED BY <4>1, <4>2, <4>3, <4>4, Zenon
    <3>11. \A j \in Keys : grants'[j] <= now' + MaxTTL
      <4>1. now \in Nat /\ now' = now /\ 0 <= now + MaxTTL
        BY <2>1 DEF TypeOK
      <4>. QED BY <3>1, <3>2, <4>1, Zenon
    <3>. QED BY <3>5, <3>6, <3>10, <3>11, Zenon
  <2>. QED BY <2>4, <2>6, <2>7, Zenon
<1>13. ASSUME Clock PROVE GateInv'
  <2>1. TypeOK'
    BY <1>13 DEF TypeOK, Clock
  <2>2. \A p \in Queries : TaskInv(p)'
    <3>1. now' = now + 1 /\ now \in Nat
      BY <1>13 DEF Clock, TypeOK
    <3>2. \A p \in Queries, k \in Keys : staged[p][k] \in Nat
      BY DEF TypeOK, Expiries
    <3>. QED BY <1>13, <3>1, <3>2 DEF TaskInv, Clock
  <2>3. UNCHANGED table /\ now' \in Nat /\ now' >= now
    BY <1>13 DEF Clock, TypeOK
  <2>. QED BY <2>1, <2>2, <2>3, TableKept, Zenon
<1>14. ASSUME SinkFails \/ Shutdown \/ AuditWatch \/ Returned \/ UNCHANGED vars
       PROVE GateInv'
  <2>1. TypeOK'
    BY <1>14, Zenon DEF TypeOK, SinkFails, Shutdown, AuditWatch, Returned, vars
  <2>2. \A p \in Queries : TaskInv(p)'
    BY <1>14 DEF TaskInv, SinkFails, Shutdown, AuditWatch, Returned, vars
  <2>3. UNCHANGED table /\ now' \in Nat /\ now' >= now
    BY <1>14 DEF TypeOK, SinkFails, Shutdown, AuditWatch, Returned, vars
  <2>. QED BY <2>1, <2>2, <2>3, TableKept, Zenon
<1>. QED
  BY <1>1, <1>2, <1>3, <1>4, <1>5, <1>6, <1>7, <1>8, <1>9, <1>10, <1>11, <1>12,
     <1>13, <1>14, Zenon DEF Next, Step
\* The invariant of the gate holds in every reachable state: in particular
\* the live and the staged grants together stay within max_grants.
THEOREM GateCorrect == Spec => []GateInv
<1>1. Init => GateInv
  BY InitGate, Zenon
<1>2. GateInv /\ [Next]_vars => GateInv'
  BY NextGate, Zenon
<1>. QED BY <1>1, <1>2, PTL DEF Spec

-------------------------------------------------------------------------------
(* The snapshot file never falls behind an answer *)

ExportInv ==
  /\ fileAt <= commits
  /\ \A q \in Queries :
       /\ nth[q] <= commits
       /\ lock = q => nth[q] <= tmpAt[q] /\ fileAt <= tmpAt[q] /\ tmpAt[q] <= commits
       /\ result[q] = "answered" => nth[q] <= fileAt

LEMMA NextExport == GateInv /\ ExportInv /\ [Next]_vars => ExportInv'
<1>. SUFFICES ASSUME GateInv, ExportInv, [Next]_vars PROVE ExportInv'
  OBVIOUS
<1>. USE DEF ExportInv
<1>. DEFINE Typed == /\ commits \in Nat /\ nth \in [Queries -> Nat]
                     /\ tmpAt \in [Queries -> Nat] /\ fileAt \in Nat
                     /\ \A q \in Queries : result[q] = "answered" => pc[q] = "done"
<1>1. Typed /\ result \in [Queries -> {"none", "dropped", "refused", "servfail",
                                       "answered", "unexported"}]
  BY Zenon DEF GateInv, TypeOK, TaskInv
<1>2. ASSUME NEW q \in Queries, Commit(q) PROVE ExportInv'
  <2>1. /\ pc[q] = "commit" /\ commits' = commits + 1
        /\ nth' = [nth EXCEPT ![q] = commits + 1]
        /\ UNCHANGED <<result, lock, tmpAt, fileAt>>
    BY <1>2, Zenon DEF Commit, export
  <2>2. lock # q /\ result[q] # "answered"
    BY <2>1, Zenon DEF GateInv, TaskInv
  <2>. QED BY <1>1, <2>1, <2>2
<1>3. ASSUME NEW q \in Queries, Export(q) PROVE ExportInv'
  <2>1. /\ lock' = q /\ tmpAt' = [tmpAt EXCEPT ![q] = commits]
        /\ UNCHANGED <<result, nth, commits, fileAt>>
    BY <1>3, Zenon DEF Export, committed
  <2>. QED BY <1>1, <2>1
<1>4. ASSUME NEW q \in Queries, Rename(q) PROVE ExportInv'
  <2>1. /\ pc[q] = "write" /\ fileAt' = tmpAt[q] /\ lock' = NoQuery
        /\ result' = [result EXCEPT ![q] = "answered"]
        /\ UNCHANGED <<nth, commits, tmpAt>>
    BY <1>4, Zenon DEF Rename, Finish, committed
  <2>2. lock = q
    BY <2>1, Zenon DEF GateInv, TaskInv
  <2>. QED BY <1>1, <2>1, <2>2
<1>5. ASSUME NEW q \in Queries, ExportFails(q) PROVE ExportInv'
  <2>1. /\ lock' = NoQuery /\ result' = [result EXCEPT ![q] = "unexported"]
        /\ UNCHANGED <<nth, commits, tmpAt, fileAt>>
    BY <1>5, Zenon DEF ExportFails, Finish, committed
  <2>. QED BY <1>1, <2>1, Zenon
<1>6. ASSUME UNCHANGED <<nth, commits, tmpAt, fileAt, lock>>,
             \A q \in Queries : result'[q] = "answered" => result[q] = "answered"
      PROVE  ExportInv'
  BY <1>6, Zenon
<1>7. ASSUME NEW q \in Queries,
             Admit(q) \/ Refused(q) \/ Reply(q) \/ Register(q) \/ Emit(q)
             \/ Recorded(q) \/ Unrecorded(q) \/ Abort(q)
      PROVE  ExportInv'
  <2>1. UNCHANGED <<nth, commits, tmpAt, fileAt, lock>>
    BY <1>7, Zenon DEF Admit, Refused, Reply, Register, Emit, Recorded, Unrecorded,
       Abort, export, committed
  <2>2. pc[q] # "done"
    BY <1>7, Zenon DEF Admit, Refused, Reply, Register, Emit, Recorded, Unrecorded,
       Abort, Waiting
  <2>3. \/ UNCHANGED result
        \/ \E r \in {"none", "dropped", "refused", "servfail", result[q]} :
             result' = [result EXCEPT ![q] = r]
    BY <1>7, Zenon DEF Admit, Refused, Reply, Register, Emit, Recorded, Unrecorded,
       Abort, Finish, RecordThen
  <2>. QED BY <1>1, <1>6, <2>1, <2>2, <2>3, Zenon
<1>8. ASSUME Clock \/ SinkFails \/ Shutdown \/ AuditWatch \/ Returned \/ UNCHANGED vars
      PROVE  ExportInv'
  BY <1>6, <1>8, Zenon DEF Clock, SinkFails, Shutdown, AuditWatch, Returned, vars, export,
     committed, task
<1>. QED BY <1>2, <1>3, <1>4, <1>5, <1>7, <1>8, Zenon DEF Next, Step

\* An answered client's grants are in the snapshot file, and stay there until
\* a newer snapshot replaces it.
THEOREM AnswersExported == Spec => []AnsweredExported
<1>1. Init => ExportInv
  BY DEF Init, ExportInv
<1>2. GateInv /\ ExportInv /\ [Next]_vars => ExportInv'
  BY NextExport, Zenon
<1>3. ExportInv /\ GateInv => AnsweredExported
  BY Zenon DEF ExportInv, AnsweredExported, GateInv, TypeOK
<1>. QED BY <1>1, <1>2, <1>3, GateCorrect, PTL DEF Spec

-------------------------------------------------------------------------------
(* What is live was judged *)

Judged(k) == AllowsName(k.name) /\ ~DeniedAddr(k.addr) /\ Grantable(k.addr)

\* The verdict travels with the task: the name from the admission on, the
\* addresses from the answer on, both with every grant that is staged.
JudgedInv ==
  /\ \A k \in Keys : grants[k] > 0 => Judged(k)
  /\ \A q \in Queries :
       /\ \A k \in Keys : staged[q][k] > 0 => Judged(k)
       /\ pc[q] \in {"forward", "register"} => AllowsName(Asks[q])
       /\ pc[q] = "register" => \A i \in DOMAIN todo[q] : ~DeniedAddr(todo[q][i])

\* What is said of one form of an address holds of the form that is dialed.
LEMMA DialedJudged ==
  ASSUME NEW a \in Addrs, ~DeniedAddr(a), Grantable(a)
  PROVE  Dial[a] \in Addrs /\ ~DeniedAddr(Dial[a]) /\ Grantable(Dial[a])
<1>1. Dial[a] \in Addrs /\ Dial[Dial[a]] = Dial[a]
  BY DialTyped, DialCanonical, Zenon
<1>. QED BY <1>1, Zenon DEF DeniedAddr, Grantable

\* A step that leaves the table alone and lets no task into the two places
\* where a verdict is used.
LEMMA JudgedKept ==
  ASSUME JudgedInv, UNCHANGED <<grants, staged, todo>>,
         \A q \in Queries : pc'[q] \in {"forward", "register"} => pc'[q] = pc[q]
  PROVE  JudgedInv'
  BY Zenon DEF JudgedInv

LEMMA NextJudged == GateInv /\ JudgedInv /\ [Next]_vars => JudgedInv'
<1>. SUFFICES ASSUME GateInv, JudgedInv, [Next]_vars PROVE JudgedInv'
  OBVIOUS
<1>0. /\ pc \in [Queries -> Running \cup {"new", "done", "aborted"}]
      /\ todo \in [Queries -> Seq(Addrs)]
      /\ grants \in [Keys -> Expiries] /\ staged \in [Queries -> [Keys -> Expiries]]
  BY Zenon DEF GateInv, TypeOK
<1>1. ASSUME NEW q \in Queries, Admit(q) PROVE JudgedInv'
  <2>1. /\ UNCHANGED <<grants, staged, todo>>
        /\ \E l \in {"done", "refusing", "forward"} :
             pc' = [pc EXCEPT ![q] = l] /\ (l = "forward" => AllowsName(Asks[q]))
    BY <1>1, Zenon DEF Admit, Finish, RecordThen, Goto, table
  <2>. QED BY <1>0, <2>1, Zenon DEF JudgedInv
<1>2. ASSUME NEW q \in Queries, Reply(q) PROVE JudgedInv'
  <2>1. UNCHANGED <<grants, staged>> /\ pc[q] = "forward" /\ AllowsName(Asks[q])
    BY <1>2, Zenon DEF Reply, table, JudgedInv
  <2>2. CASE todo' = todo /\ \E l \in {"done", "refusing"} : pc' = [pc EXCEPT ![q] = l]
    BY <1>0, <2>1, <2>2, Zenon DEF JudgedInv
  <2>3. CASE /\ pc' = [pc EXCEPT ![q] = "register"]
             /\ \E r \in Replies : /\ ~Forbidden(r)
                                   /\ todo' = [todo EXCEPT ![q] = IF r.ttl > 0 THEN r.addrs ELSE <<>>]
    <3>1. PICK r \in Replies : /\ ~Forbidden(r)
                               /\ todo' = [todo EXCEPT ![q] = IF r.ttl > 0 THEN r.addrs ELSE <<>>]
      BY <2>3, Zenon
    <3>2. \A i \in DOMAIN r.addrs : ~DeniedAddr(r.addrs[i])
      BY <3>1, Zenon DEF Forbidden
    <3>3. todo'[q] \in {r.addrs, <<>>}
      BY <1>0, <3>1, Zenon
    <3>4. \A i \in DOMAIN todo'[q] : ~DeniedAddr(todo'[q][i])
      BY <3>2, <3>3
    <3>5. ASSUME NEW p \in Queries, p # q PROVE pc'[p] = pc[p] /\ todo'[p] = todo[p]
      BY <1>0, <2>3, <3>1, <3>5, Zenon
    <3>. QED BY <2>1, <3>4, <3>5, Zenon DEF JudgedInv
  <2>. QED BY <1>2, <2>2, <2>3, Zenon DEF Reply, RecordThen, Finish, Goto
<1>3. ASSUME NEW q \in Queries, Register(q) PROVE JudgedInv'
  <2>. DEFINE a == Head(todo[q])
              k == [addr |-> IF dialing[q] THEN Dial[a] ELSE a, name |-> Asks[q]]
              v == now + ttl[q]
  <2>1. /\ pc[q] = "register" /\ pc' = pc /\ todo[q] # <<>> /\ todo[q] \in Seq(Addrs)
        /\ todo' = [todo EXCEPT ![q] = todo'[q]] /\ todo'[q] \in {todo[q], Tail(todo[q])}
    <3>1. /\ pc[q] = "register" /\ pc' = pc /\ todo[q] # <<>>
          /\ \E s \in {todo[q], Tail(todo[q])} : todo' = [todo EXCEPT ![q] = s]
      BY <1>3, Zenon DEF Register
    <3>. QED BY <1>0, <3>1, Zenon
  <2>2. \/ UNCHANGED <<grants, staged>>
        \/ /\ Grantable(a) /\ grants' = Swept(grants, now)
           /\ staged' = staged \/ staged' = [staged EXCEPT ![q][k] = v]
    BY <1>3, Zenon DEF Register, RegisterStaged, table
  <2>3. a \in Addrs /\ ~DeniedAddr(a) /\ AllowsName(Asks[q])
    <3>1. a = todo[q][1] /\ 1 \in DOMAIN todo[q] /\ a \in Addrs
      BY <2>1
    <3>2. ~DeniedAddr(todo[q][1]) /\ AllowsName(Asks[q])
      BY <2>1, <3>1, Zenon DEF JudgedInv
    <3>. QED BY <3>1, <3>2, Zenon
  <2>4. \A i \in DOMAIN todo'[q] : ~DeniedAddr(todo'[q][i])
    <3>1. \A i \in DOMAIN todo[q] : ~DeniedAddr(todo[q][i])
      BY <2>1, Zenon DEF JudgedInv
    <3>2. ASSUME NEW i \in DOMAIN Tail(todo[q])
          PROVE  i + 1 \in DOMAIN todo[q] /\ Tail(todo[q])[i] = todo[q][i + 1]
      BY <2>1
    <3>. QED BY <2>1, <3>1, <3>2, Zenon
  <2>5. \A j \in Keys : grants'[j] > 0 => Judged(j)
    <3>1. \A j \in Keys : grants[j] > 0 => Judged(j)
      BY Zenon DEF JudgedInv
    <3>2. \A j \in Keys : Swept(grants, now)[j] \in {grants[j], 0}
      BY Zenon DEF Swept
    <3>3. \A j \in Keys : grants'[j] \in {grants[j], 0}
      BY <2>2, <3>2, Zenon
    <3>. QED BY <3>1, <3>3
  <2>6. ASSUME Grantable(a), NEW j \in Keys, j = k PROVE Judged(j)
    BY <2>3, <2>6, DialedJudged, Zenon DEF Judged
  <2>7. \A p \in Queries, j \in Keys : staged'[p][j] > 0 => staged[p][j] > 0 \/ (j = k /\ Grantable(a))
    <3>1. CASE staged' = staged
      BY <3>1, Zenon
    <3>2. CASE Grantable(a) /\ staged' = [staged EXCEPT ![q][k] = v]
      <4>. HIDE DEF a, k, v
      <4>1. \A p \in Queries, j \in Keys : j # k => staged'[p][j] = staged[p][j]
        BY <1>0, <3>2, Zenon
      <4>. QED BY <3>2, <4>1, Zenon
    <3>. QED BY <2>2, <3>1, <3>2, Zenon
  <2>8. \A p \in Queries, j \in Keys : staged'[p][j] > 0 => Judged(j)
    BY <2>6, <2>7, Zenon DEF JudgedInv
  <2>9. ASSUME NEW p \in Queries, p # q PROVE todo'[p] = todo[p]
    BY <1>0, <2>1, <2>9, Zenon
  <2>. QED BY <2>1, <2>3, <2>4, <2>5, <2>8, <2>9, Zenon DEF JudgedInv
<1>4. ASSUME NEW q \in Queries, Commit(q) PROVE JudgedInv'
  <2>1. /\ pc' = [pc EXCEPT ![q] = "export"] /\ todo' = todo
        /\ grants' = [k \in Keys |-> IF staged[q][k] > 0 THEN staged[q][k] ELSE grants[k]]
        /\ staged' = [staged EXCEPT ![q] = NoGrants]
    BY <1>4, Zenon DEF Commit, Goto
  <2>2. \A k \in Keys : grants'[k] > 0 => Judged(k)
    BY <2>1, Zenon DEF JudgedInv
  <2>3. \A p \in Queries, k \in Keys : staged'[p][k] > 0 => staged[p][k] > 0
    BY <1>0, <2>1 DEF NoGrants
  <2>. QED BY <1>0, <2>1, <2>2, <2>3, Zenon DEF JudgedInv
<1>5. ASSUME NEW q \in Queries, Unrecorded(q) PROVE JudgedInv'
  <2>1. /\ pc' = [pc EXCEPT ![q] = "done"] /\ UNCHANGED <<grants, todo>>
        /\ staged' = [staged EXCEPT ![q] = NoGrants]
    BY <1>5, Zenon DEF Unrecorded, Finish, Goto
  <2>2. \A p \in Queries, k \in Keys : staged'[p][k] > 0 => staged[p][k] > 0
    BY <1>0, <2>1 DEF NoGrants
  <2>. QED BY <1>0, <2>1, <2>2, Zenon DEF JudgedInv
<1>6. ASSUME NEW q \in Queries,
             Refused(q) \/ Emit(q) \/ Recorded(q) \/ Export(q) \/ Rename(q)
             \/ ExportFails(q) \/ Abort(q)
      PROVE  JudgedInv'
  <2>1. UNCHANGED <<grants, staged, todo>>
    BY <1>6, Zenon DEF Refused, Emit, Recorded, Export, Rename, ExportFails, Abort, table
  <2>2. \E l \in {"done", "recording", "commit", "write", "aborted"} :
          pc' = [pc EXCEPT ![q] = l]
    BY <1>6, Zenon DEF Refused, Emit, Recorded, Export, Rename, ExportFails, Abort, Finish,
       Goto
  <2>3. \A p \in Queries : pc'[p] \in {"forward", "register"} => pc'[p] = pc[p]
    BY <1>0, <2>2, Zenon
  <2>. QED BY <2>1, <2>3, JudgedKept, Zenon
<1>7. ASSUME Clock \/ SinkFails \/ Shutdown \/ AuditWatch \/ Returned \/ UNCHANGED vars
      PROVE  JudgedInv'
  <2>1. UNCHANGED <<grants, staged, todo, pc>>
    BY <1>7, Zenon DEF Clock, SinkFails, Shutdown, AuditWatch, Returned, vars, table, task
  <2>. QED BY <2>1, JudgedKept, Zenon
<1>. QED BY <1>1, <1>2, <1>3, <1>4, <1>5, <1>6, <1>7, Zenon DEF Next, Step

\* Every live grant is under an allowed name, and its address is denied in no
\* spelling and protected in none without an opt-in, for every policy, every
\* answer of the resolver and every interleaving of the tasks.
THEOREM LiveGrantsJudged == Spec => []GrantsJudged
<1>1. Init => JudgedInv
  BY DEF Init, JudgedInv, NoGrants
<1>2. GateInv /\ JudgedInv /\ [Next]_vars => JudgedInv'
  BY NextJudged, Zenon
<1>3. JudgedInv => GrantsJudged
  BY Zenon DEF JudgedInv, GrantsJudged, Held, Judged
<1>. QED BY <1>1, <1>2, <1>3, GateCorrect, PTL DEF Spec

-------------------------------------------------------------------------------
(* The gate implements the ledger *)

LEMMA InitLedger == Init => Ledger!Init
  BY DEF Init, Ledger!Init, NoGrants, Ledger!NoGrants, NoImage, Ledger!NoImage,
     Keys, Ledger!Keys

\* What a step leaves of the ledger when it leaves these variables.
LEMMA LedgerKept ==
  ASSUME UNCHANGED <<now, grants, journal, nth, lock, tmp, file>>
  PROVE  UNCHANGED Ledger!ledger
  BY Zenon DEF Ledger!ledger, NoImage

LEMMA StepLedger == GateInv /\ GateInv' /\ [Next]_vars => [Ledger!Next]_(Ledger!ledger)
<1>. SUFFICES ASSUME GateInv, GateInv', [Next]_vars
              PROVE  Ledger!Next \/ UNCHANGED Ledger!ledger
  BY Zenon
<1>. DEFINE pub == {q \in Queries : nth[q] > 0}
            draft == IF lock = NoQuery THEN NoImage ELSE tmp[lock]
<1>1. ASSUME NEW q \in Queries,
             Admit(q) \/ Refused(q) \/ Reply(q) \/ Emit(q) \/ Abort(q)
      PROVE  UNCHANGED Ledger!ledger
  <2>1. UNCHANGED <<now, grants, journal, nth, lock, tmp, file>>
    BY <1>1, Zenon DEF Admit, Refused, Reply, Emit, Abort, table, export, committed
  <2>. QED BY <2>1, LedgerKept, Zenon
<1>2. ASSUME SinkFails \/ Shutdown \/ AuditWatch \/ Returned \/ UNCHANGED vars
      PROVE  UNCHANGED Ledger!ledger
  <2>1. UNCHANGED <<now, grants, journal, nth, lock, tmp, file>>
    BY <1>2, Zenon DEF SinkFails, Shutdown, AuditWatch, Returned, vars, table, export,
       committed
  <2>. QED BY <2>1, LedgerKept, Zenon
<1>3. ASSUME Clock PROVE Ledger!Tick
  <2>1. /\ now < MaxTime /\ now' = now + 1
        /\ UNCHANGED <<grants, journal, nth, lock, tmp, file>>
    BY <1>3, Zenon DEF Clock, table, export, committed
  <2>. QED BY <2>1, Zenon DEF Ledger!Tick, NoImage
<1>4. ASSUME NEW q \in Queries, Register(q)
      PROVE  Ledger!Sweep \/ UNCHANGED Ledger!ledger
  <2>1. UNCHANGED <<now, journal, nth, lock, tmp, file>>
    BY <1>4, Zenon DEF Register, export, committed
  <2>2. grants' = grants \/ grants' = Swept(grants, now)
    BY <1>4, Zenon DEF Register, RegisterStaged, table
  <2>3. CASE grants' = grants
    BY <2>1, <2>3, LedgerKept, Zenon
  <2>4. CASE grants' = Swept(grants, now)
    BY <2>1, <2>4, Zenon DEF Ledger!Sweep, Swept, Ledger!Swept, Keys, Ledger!Keys, NoImage
  <2>. QED BY <2>2, <2>3, <2>4, Zenon
<1>5. ASSUME NEW q \in Queries, Recorded(q) \/ Unrecorded(q)
      PROVE  Ledger!Record \/ UNCHANGED Ledger!ledger
  <2>1. UNCHANGED <<now, grants, nth, lock, tmp, file>>
    BY <1>5, Zenon DEF Recorded, Unrecorded, table, export, committed
  <2>2. journal' = journal \/ (q \notin journal /\ journal' = journal \cup {q})
    BY <1>5, Zenon DEF Recorded, Unrecorded
  <2>3. CASE journal' = journal
    BY <2>1, <2>3, LedgerKept, Zenon
  <2>4. CASE q \notin journal /\ journal' = journal \cup {q}
    BY <2>1, <2>4, Zenon DEF Ledger!Record, NoImage
  <2>. QED BY <2>2, <2>3, <2>4, Zenon
<1>6. ASSUME NEW q \in Queries, Commit(q) PROVE Ledger!Publish
  <2>1. /\ pc[q] = "commit" /\ nth' = [nth EXCEPT ![q] = commits + 1]
        /\ grants' = [k \in Keys |-> IF staged[q][k] > 0 THEN staged[q][k]
                                                          ELSE grants[k]]
        /\ UNCHANGED <<now, journal, lock, tmp, file>>
    BY <1>6, Zenon DEF Commit, export
  <2>2. q \in journal /\ ~(nth[q] > 0)
    BY <2>1, Zenon DEF GateInv, TaskInv
  <2>3. pub' = pub \cup {q}
    <3>1. nth \in [Queries -> Nat] /\ commits \in Nat
      BY Zenon DEF GateInv, TypeOK
    <3>2. \A p \in Queries : nth'[p] > 0 <=> nth[p] > 0 \/ p = q
      BY <2>1, <3>1
    <3>. QED BY <3>2, Zenon
  <2>4. \A k \in Keys : grants'[k] # grants[k] => k.name = Asks[q] /\ grants'[k] > 0
    <3>1. \A k \in Keys : staged[q][k] > 0 => k.name = Asks[q]
      BY Zenon DEF GateInv, TaskInv
    <3>. QED BY <2>1, <3>1, Zenon
  <2>5. grants' \in [Keys -> 0..(now + MaxTTL)]
    <3>1. /\ grants \in [Keys -> Expiries] /\ staged[q] \in [Keys -> Expiries]
          /\ now \in 0..MaxTime
      BY Zenon DEF GateInv, TypeOK
    <3>2. \A k \in Keys : /\ grants[k] <= now + MaxTTL
                          /\ staged[q][k] > 0 => staged[q][k] <= now + MaxTTL
      BY Zenon DEF GateInv, TaskInv
    <3>3. \A k \in Keys : grants'[k] \in 0..(now + MaxTTL)
      BY <2>1, <3>1, <3>2, LimitsTyped DEF Expiries
    <3>. QED BY <2>1, <3>3, Zenon
  <2>6. Cardinality(Held(grants')) <= MaxGrants
    <3>1. Held(grants') \subseteq Claimed(grants)' /\ Claimed(grants)' \subseteq Keys
      BY Zenon DEF Claimed, Held
    <3>2. Cardinality(Claimed(grants)') <= MaxGrants
      BY Zenon DEF GateInv
    <3>. QED BY <3>1, <3>2, SmallerSet, Zenon
  <2>7. Ledger!Cardinality(Ledger!Held(grants')) <= MaxGrants
    <3>1. Ledger!Held(grants') = Held(grants')
      BY Zenon DEF Held, Ledger!Held, Keys, Ledger!Keys
    <3>2. \A S : Ledger!Cardinality(S) = Cardinality(S)
      BY Zenon DEF Cardinality, Ledger!Cardinality
    <3>. QED BY <2>6, <3>1, <3>2, Zenon
  <2>8. UNCHANGED <<now, journal, draft, file>>
    BY <2>1, Zenon DEF NoImage
  <2>9. q \in journal \ pub /\ Keys = Ledger!Keys
    BY <2>2, Zenon DEF Keys, Ledger!Keys
  <2>. QED BY <2>3, <2>4, <2>5, <2>7, <2>8, <2>9, Zenon DEF Ledger!Publish
<1>7. ASSUME NEW q \in Queries, Export(q) PROVE Ledger!Snapshot
  <2>1. /\ lock = NoQuery /\ lock' = q
        /\ tmp' = [tmp EXCEPT ![q] = Image(grants, now)]
        /\ UNCHANGED <<now, grants, journal, nth, file>>
    BY <1>7, Zenon DEF Export, table, committed
  <2>2. draft = NoImage /\ draft' = Image(grants, now)
    BY <2>1, NoQueryFresh, Zenon DEF GateInv, TypeOK
  <2>3. /\ NoImage = Ledger!NoImage
        /\ Image(grants, now) = Ledger!Image(grants, now)
    BY Zenon DEF NoImage, Ledger!NoImage, Image, Ledger!Image, Secs, Ledger!Secs, Keys, Ledger!Keys
  <2>. QED BY <2>1, <2>2, <2>3, Zenon DEF Ledger!Snapshot
<1>8. ASSUME NEW q \in Queries, Rename(q) \/ ExportFails(q)
      PROVE  Ledger!Replace \/ Ledger!Discard
  <2>1. /\ pc[q] = "write" /\ lock' = NoQuery /\ file' \in {file, tmp[q]}
        /\ UNCHANGED <<now, grants, journal, nth>>
    BY <1>8, Zenon DEF Rename, ExportFails, table, committed
  <2>2. lock = q /\ tmp[q] # NoImage
    BY <2>1, Zenon DEF GateInv, TaskInv
  <2>3. draft = tmp[q] /\ draft # NoImage /\ draft' = NoImage
    BY <2>1, <2>2, NoQueryFresh, Zenon
  <2>4. NoImage = Ledger!NoImage
    BY Zenon DEF NoImage, Ledger!NoImage, Keys, Ledger!Keys
  <2>. QED BY <2>1, <2>2, <2>3, <2>4, Zenon DEF Ledger!Replace, Ledger!Discard
<1>. QED
  BY <1>1, <1>2, <1>3, <1>4, <1>5, <1>6, <1>7, <1>8, Zenon DEF Next, Step, Ledger!Next

\* The DNS gate implements the ledger its consumers rely on.
THEOREM GateImplementsLedger == Spec => ImplementsLedger
<1>1. Init => Ledger!Init
  BY InitLedger, Zenon
<1>2. GateInv /\ GateInv' /\ [Next]_vars => [Ledger!Next]_(Ledger!ledger)
  BY StepLedger, Zenon
<1>. QED BY <1>1, <1>2, GateCorrect, PTL DEF Spec, ImplementsLedger, Ledger!Spec
================================================================================
