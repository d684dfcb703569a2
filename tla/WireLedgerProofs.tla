-------------------------- MODULE WireLedgerProofs --------------------------
(***************************************************************************)
(* wire_bytes is exact: in every reachable table of WireState it is what   *)
(* the collections retain.  A table is off by d when wire_bytes exceeds by *)
(* d what the collections retain; its books are right when it is off by    *)
(* nothing.                                                                *)
(***************************************************************************)
EXTENDS WireStateProofs

Weight(e) == IF e = NoEntry THEN 0 ELSE RequestBytes(e)
Rows(w) == Cardinality(Live(w)) + Cardinality(Kept(w))
Lists(w) == CapsBytes(w.pending) + CapsBytes(w.client_caps) + CapsBytes(w.server_caps)
            + Cardinality(w.subscribed) + Cardinality(w.elicitations)
            + SlotBytes(w.log_level, NoLevel)
Held(w) == Rows(w) + Cardinality(w.retired) + Lists(w)

(* A live id is not retired, and a setLevel names its level.               *)
Named(e) == e.method = "setLevel" => e.level \in Levels
Apart(w) == \A k \in Keys : w.requests[k] # NoEntry => k \notin w.retired /\ Named(w.requests[k])

Off(w, d) == /\ w \in Tables /\ IsFiniteSet(Kept(w)) /\ Apart(w)
             /\ w.bytes = Held(w) + d

LEMMA DisjointCard ==
  ASSUME NEW S, NEW T, IsFiniteSet(S), IsFiniteSet(T), S \cap T = {}
  PROVE  /\ IsFiniteSet(S \cup T)
         /\ Cardinality(S) \in Nat /\ Cardinality(T) \in Nat
         /\ Cardinality(S \cup T) = Cardinality(S) + Cardinality(T)
<1>1. /\ IsFiniteSet(S \cup T)
      /\ Cardinality(S \cup T) = Cardinality(S) + Cardinality(T) - Cardinality(S \cap T)
  BY FS_Union, Zenon
<1>2. Cardinality(S) \in Nat /\ Cardinality(T) \in Nat /\ Cardinality(S \cap T) = 0
  BY FS_CardinalityType, FS_EmptySet, Zenon
<1>. QED BY <1>1, <1>2

LEMMA TagCard ==
  ASSUME NEW t, NEW S, IsFiniteSet(S)
  PROVE  IsFiniteSet({t} \X S) /\ Cardinality({t} \X S) = Cardinality(S)
<1>1. IsFiniteSet({t}) /\ Cardinality({t}) = 1 /\ Cardinality(S) \in Nat
  BY FS_Singleton, FS_CardinalityType, Zenon
<1>2. IsFiniteSet({t} \X S) /\ Cardinality({t} \X S) = Cardinality({t}) * Cardinality(S)
  BY <1>1, FS_Product, Zenon
<1>. QED BY <1>1, <1>2

LEMMA SlotCard ==
  ASSUME NEW v, NEW none
  PROVE  IsFiniteSet({v} \ {none}) /\ Cardinality({v} \ {none}) = SlotBytes(v, none)
<1>1. CASE v = none
  <2>1. {v} \ {none} = {}
    BY <1>1, Zenon
  <2>2. IsFiniteSet({v} \ {none}) /\ Cardinality({v} \ {none}) = 0
    BY <2>1, FS_EmptySet, Zenon
  <2>. QED BY <1>1, <2>2, Zenon DEF SlotBytes
<1>2. CASE v # none
  <2>1. {v} \ {none} = {v}
    BY <1>2, Zenon
  <2>2. IsFiniteSet({v} \ {none}) /\ Cardinality({v} \ {none}) = 1
    BY <2>1, FS_Singleton, Zenon
  <2>. QED BY <1>2, <2>2, Zenon DEF SlotBytes
<1>. QED BY <1>1, <1>2, Zenon

(* request_bytes counts the strings of an entry and its key.               *)
LEMMA StringsCard ==
  ASSUME NEW e \in Entries
  PROVE  IsFiniteSet(Strings(e)) /\ Cardinality(Strings(e)) + 1 = RequestBytes(e)
<1>. DEFINE A == {<<"method", e.method>>}
            U == {e.uri} \ {NoUri}
            L == {e.level} \ {NoLevel}
            B == {"uri"} \X U
            C == {"level"} \X L
            D == {"requested"} \X e.requested
            F == {"acked"} \X e.acked
<1>1. e.requested \in SUBSET Uris /\ e.acked \in SUBSET Uris
  BY Zenon DEF Entries
<1>2. IsFiniteSet(e.requested) /\ IsFiniteSet(e.acked)
  BY <1>1, IdsFinite, SubsetCard, Zenon
<1>3. /\ IsFiniteSet(A) /\ Cardinality(A) = 1
      /\ IsFiniteSet(B) /\ Cardinality(B) = SlotBytes(e.uri, NoUri)
      /\ IsFiniteSet(C) /\ Cardinality(C) = SlotBytes(e.level, NoLevel)
      /\ IsFiniteSet(D) /\ Cardinality(D) = Cardinality(e.requested)
      /\ IsFiniteSet(F) /\ Cardinality(F) = Cardinality(e.acked)
  <2>1. IsFiniteSet(A) /\ Cardinality(A) = 1
    BY FS_Singleton, Zenon
  <2>2. IsFiniteSet(B) /\ Cardinality(B) = SlotBytes(e.uri, NoUri)
    <3>1. IsFiniteSet(U) /\ Cardinality(U) = SlotBytes(e.uri, NoUri)
      BY SlotCard, Zenon
    <3>. HIDE DEF U
    <3>. QED BY <3>1, TagCard, Zenon
  <2>3. IsFiniteSet(C) /\ Cardinality(C) = SlotBytes(e.level, NoLevel)
    <3>1. IsFiniteSet(L) /\ Cardinality(L) = SlotBytes(e.level, NoLevel)
      BY SlotCard, Zenon
    <3>. HIDE DEF L
    <3>. QED BY <3>1, TagCard, Zenon
  <2>4. IsFiniteSet(D) /\ Cardinality(D) = Cardinality(e.requested)
    BY <1>2, TagCard, Zenon
  <2>5. IsFiniteSet(F) /\ Cardinality(F) = Cardinality(e.acked)
    BY <1>2, TagCard, Zenon
  <2>. HIDE DEF A, B, C, D, F
  <2>. QED BY <2>1, <2>2, <2>3, <2>4, <2>5, Zenon
<1>4. /\ \A x \in A : x[1] = "method"
      /\ \A x \in B : x[1] = "uri"
      /\ \A x \in C : x[1] = "level"
      /\ \A x \in D : x[1] = "requested"
      /\ \A x \in F : x[1] = "acked"
  OBVIOUS
<1>5. Strings(e) = (((A \cup B) \cup C) \cup D) \cup F
  BY Zenon DEF Strings
<1>. HIDE DEF A, B, C, D, F
<1>6. /\ A \cap B = {} /\ (A \cup B) \cap C = {} /\ ((A \cup B) \cup C) \cap D = {}
      /\ (((A \cup B) \cup C) \cup D) \cap F = {}
  BY <1>4
<1>7. IsFiniteSet(A \cup B) /\ Cardinality(A \cup B) = Cardinality(A) + Cardinality(B)
  BY <1>3, <1>6, DisjointCard, Zenon
<1>8. /\ IsFiniteSet((A \cup B) \cup C)
      /\ Cardinality((A \cup B) \cup C) = Cardinality(A \cup B) + Cardinality(C)
  BY <1>3, <1>6, <1>7, DisjointCard, Zenon
<1>9. /\ IsFiniteSet(((A \cup B) \cup C) \cup D)
      /\ Cardinality(((A \cup B) \cup C) \cup D) = Cardinality((A \cup B) \cup C) + Cardinality(D)
  BY <1>3, <1>6, <1>8, DisjointCard, Zenon
<1>10. /\ IsFiniteSet(Strings(e))
       /\ Cardinality(Strings(e)) = Cardinality(((A \cup B) \cup C) \cup D) + Cardinality(F)
  <2>. DEFINE G == ((A \cup B) \cup C) \cup D
  <2>. HIDE DEF G
  <2>1. IsFiniteSet(G) /\ G \cap F = {} /\ Strings(e) = G \cup F
    BY <1>5, <1>6, <1>9, Zenon DEF G
  <2>2. IsFiniteSet(G \cup F) /\ Cardinality(G \cup F) = Cardinality(G) + Cardinality(F)
    BY <1>3, <2>1, DisjointCard, Zenon
  <2>. QED BY <2>1, <2>2, Zenon DEF G
<1>11. Cardinality(D) \in Nat /\ Cardinality(F) \in Nat
  BY <1>3, FS_CardinalityType, Zenon
<1>12. SlotBytes(e.uri, NoUri) \in Nat /\ SlotBytes(e.level, NoLevel) \in Nat
  BY DEF SlotBytes
<1>13. Cardinality(Strings(e)) = 1 + SlotBytes(e.uri, NoUri) + SlotBytes(e.level, NoLevel)
                                 + Cardinality(e.requested) + Cardinality(e.acked)
  BY <1>3, <1>7, <1>8, <1>9, <1>10, <1>11, <1>12
<1>14. Cardinality(e.requested) \in Nat /\ Cardinality(e.acked) \in Nat
  BY <1>3, <1>11, Zenon
<1>. QED BY <1>10, <1>12, <1>13, <1>14 DEF RequestBytes, KeyBytes

(* The table without the entry of one key, and what that entry adds.       *)
Rest(w, k) == UNION {{j} \X Strings(w.requests[j]) : j \in Live(w) \ {k}}

LEMMA RowsSplit ==
  ASSUME NEW w \in Tables, NEW k \in Keys, IsFiniteSet(Rest(w, k))
  PROVE  /\ IsFiniteSet(Kept(w))
         /\ Cardinality(Rest(w, k)) \in Nat /\ Cardinality(Live(w) \ {k}) \in Nat
         /\ Weight(w.requests[k]) \in Nat
         /\ Rows(w) = Cardinality(Live(w) \ {k}) + Cardinality(Rest(w, k)) + Weight(w.requests[k])
<1>1. /\ IsFiniteSet(Live(w)) /\ Cardinality(Live(w)) \in Nat
      /\ Cardinality(Rest(w, k)) \in Nat
  BY LiveFinite, FS_CardinalityType, Zenon
<1>2. /\ Cardinality(Live(w) \ {k}) = IF k \in Live(w) THEN Cardinality(Live(w)) - 1
                                      ELSE Cardinality(Live(w))
      /\ Cardinality(Live(w) \ {k}) \in Nat
  BY <1>1, FS_RemoveElement, FS_CardinalityType, Zenon
<1>3. CASE k \in Live(w)
  <2>. DEFINE e == w.requests[k]
              own == {k} \X Strings(e)
  <2>1. e \in Entries /\ e # NoEntry
    BY <1>3, Zenon DEF Live, Tables
  <2>2. /\ IsFiniteSet(Strings(e)) /\ Cardinality(Strings(e)) + 1 = RequestBytes(e)
        /\ IsFiniteSet(own) /\ Cardinality(own) = Cardinality(Strings(e))
    BY <2>1, StringsCard, TagCard, Zenon
  <2>3. Kept(w) = Rest(w, k) \cup own
    BY <1>3, Zenon DEF Kept, Rest
  <2>4. Rest(w, k) \cap own = {}
    BY DEF Rest
  <2>5. /\ IsFiniteSet(Kept(w)) /\ Cardinality(Strings(e)) \in Nat
        /\ Cardinality(Kept(w)) = Cardinality(Rest(w, k)) + Cardinality(Strings(e))
    <3>. HIDE DEF own
    <3>1. /\ IsFiniteSet(Rest(w, k) \cup own) /\ Cardinality(own) \in Nat
          /\ Cardinality(Rest(w, k) \cup own) = Cardinality(Rest(w, k)) + Cardinality(own)
      BY <2>2, <2>4, DisjointCard, Zenon
    <3>. QED BY <2>2, <2>3, <3>1, Zenon
  <2>6. Weight(e) = RequestBytes(e)
    BY <2>1, Zenon DEF Weight
  <2>. HIDE DEF e, own
  <2>7. /\ Weight(e) \in Nat
        /\ Rows(w) = Cardinality(Live(w) \ {k}) + Cardinality(Rest(w, k)) + Weight(e)
    BY <1>1, <1>2, <1>3, <2>2, <2>5, <2>6 DEF Rows
  <2>. QED BY <1>1, <1>2, <2>5, <2>7, Zenon DEF e
<1>4. CASE k \notin Live(w)
  <2>1. Live(w) \ {k} = Live(w)
    BY <1>4, Zenon
  <2>2. Rest(w, k) = Kept(w)
    BY <2>1, Zenon DEF Rest, Kept
  <2>3. Weight(w.requests[k]) = 0
    BY <1>4, Zenon DEF Live, Weight
  <2>4. Rows(w) = Cardinality(Live(w) \ {k}) + Cardinality(Rest(w, k))
    BY <2>1, <2>2, Zenon DEF Rows
  <2>5. Rows(w) = Cardinality(Live(w) \ {k}) + Cardinality(Rest(w, k)) + Weight(w.requests[k])
    BY <1>1, <1>2, <2>3, <2>4
  <2>6. Weight(w.requests[k]) \in Nat
    BY <2>3
  <2>7. IsFiniteSet(Kept(w))
    BY <2>2, Zenon
  <2>. QED BY <1>1, <1>2, <2>5, <2>6, <2>7, Zenon
<1>. QED BY <1>3, <1>4, Zenon

(* One entry changes: the rows lose its weight and gain the new one's.     *)
LEMMA EntryPut ==
  ASSUME NEW w \in Tables, NEW v \in Tables, NEW k \in Keys, IsFiniteSet(Kept(w)),
         \A j \in Keys \ {k} : v.requests[j] = w.requests[j]
  PROVE  /\ IsFiniteSet(Kept(v))
         /\ Weight(w.requests[k]) \in Nat /\ Weight(v.requests[k]) \in Nat
         /\ \E n \in Nat : /\ Rows(w) = n + Weight(w.requests[k])
                           /\ Rows(v) = n + Weight(v.requests[k])
<1>1. Live(v) \ {k} = Live(w) \ {k}
  BY Zenon DEF Live
<1>2. Rest(v, k) = Rest(w, k)
  <2>1. \A j \in Live(w) \ {k} : v.requests[j] = w.requests[j]
    BY Zenon DEF Live
  <2>. QED BY <1>1, <2>1, Zenon DEF Rest
<1>3. IsFiniteSet(Rest(w, k))
  <2>1. Rest(w, k) \in SUBSET Kept(w)
    BY Zenon DEF Rest, Kept
  <2>. QED BY <2>1, FS_Subset, Zenon
<1>4. /\ Cardinality(Rest(w, k)) \in Nat /\ Cardinality(Live(w) \ {k}) \in Nat
      /\ Weight(w.requests[k]) \in Nat
      /\ Rows(w) = Cardinality(Live(w) \ {k}) + Cardinality(Rest(w, k)) + Weight(w.requests[k])
  BY <1>3, RowsSplit, Zenon
<1>5. /\ IsFiniteSet(Kept(v)) /\ Weight(v.requests[k]) \in Nat
      /\ Rows(v) = Cardinality(Live(w) \ {k}) + Cardinality(Rest(w, k)) + Weight(v.requests[k])
  BY <1>1, <1>2, <1>3, RowsSplit, Zenon
<1>. DEFINE n == Cardinality(Live(w) \ {k}) + Cardinality(Rest(w, k))
<1>6. n \in Nat
  BY <1>4
<1>7. Rows(w) = n + Weight(w.requests[k]) /\ Rows(v) = n + Weight(v.requests[k])
  BY <1>4, <1>5, Zenon
<1>. QED BY <1>4, <1>5, <1>6, <1>7, Zenon

SameStrings(w, v) ==
  /\ v.pending = w.pending /\ v.client_caps = w.client_caps /\ v.server_caps = w.server_caps
  /\ v.subscribed = w.subscribed /\ v.elicitations = w.elicitations
  /\ v.log_level = w.log_level
Same(w, v) == SameRequests(w, v) /\ SameStrings(w, v)

LEMMA HeldNat ==
  ASSUME NEW w \in Tables, IsFiniteSet(Kept(w))
  PROVE  /\ Rows(w) \in Nat /\ Cardinality(w.retired) \in Nat /\ Lists(w) \in Nat
         /\ Held(w) \in Nat
<1>1. Cardinality(Live(w)) \in Nat /\ Cardinality(Kept(w)) \in Nat
  BY LiveFinite, FS_CardinalityType, Zenon
<1>2. w.retired \in SUBSET Keys
  BY Zenon DEF Tables
<1>3. Cardinality(w.retired) \in Nat
  BY <1>2, KeysFinite, SubsetCard, Zenon
<1>4. Cardinality(w.subscribed) \in Nat /\ Cardinality(w.elicitations) \in Nat
  BY ListsCard, Zenon
<1>5. /\ w.pending \in CapsOf(ClientCaps) /\ w.client_caps \in CapsOf(ClientCaps)
      /\ w.server_caps \in SUBSET ServerCaps
  BY Zenon DEF Tables, CapsOf
<1>6. /\ CapsBytes(w.pending) \in Nat /\ CapsBytes(w.client_caps) \in Nat
      /\ CapsBytes(w.server_caps) \in Nat
  BY <1>5, CapsCard, Zenon
<1>7. SlotBytes(w.log_level, NoLevel) \in Nat
  BY DEF SlotBytes
<1>8. Lists(w) \in Nat
  BY <1>4, <1>6, <1>7 DEF Lists
<1>9. Rows(w) \in Nat
  BY <1>1 DEF Rows
<1>10. Held(w) \in Nat
  BY <1>3, <1>8, <1>9 DEF Held
<1>. QED BY <1>3, <1>8, <1>9, <1>10, Zenon

LEMMA SameHeld ==
  ASSUME NEW w, NEW v, Same(w, v)
  PROVE  Held(v) = Held(w) /\ Kept(v) = Kept(w) /\ (Apart(w) => Apart(v))
<1>1. v.requests = w.requests /\ v.retired = w.retired
  BY Zenon DEF Same, SameRequests
<1>2. Live(v) = Live(w)
  BY <1>1, Zenon DEF Live
<1>3. Kept(v) = Kept(w)
  BY <1>1, <1>2, Zenon DEF Kept
<1>4. Lists(v) = Lists(w)
  BY Zenon DEF Same, SameStrings, Lists
<1>. QED BY <1>1, <1>2, <1>3, <1>4, Zenon DEF Held, Rows, Apart

(* refund and charge move the balance by what they say, and nothing else.  *)
LEMMA Refunded ==
  ASSUME NEW w, NEW n \in Nat, NEW d \in Int, Off(w, d), n <= w.bytes
  PROVE  Off(Refund(w, n), d - n) /\ Same(w, Refund(w, n))
<1>. DEFINE v == Refund(w, n)
<1>1. w \in Tables /\ w.bytes \in Nat /\ IsFiniteSet(Kept(w)) /\ Apart(w) /\ w.bytes = Held(w) + d
  BY Zenon DEF Off, Tables
<1>2. /\ v \in Tables /\ SameRequests(w, v) /\ SameSession(w, v) /\ SameLists(w, v)
      /\ v.client_caps = w.client_caps /\ v.server_caps = w.server_caps
      /\ v.log_level = w.log_level
  BY <1>1, RefundKept, Zenon
<1>3. v.bytes = IF w.bytes >= n THEN w.bytes - n ELSE 0
  BY <1>1, Zenon DEF Refund, Tables
<1>4. v.bytes = w.bytes - n
  BY <1>1, <1>3
<1>. HIDE DEF v
<1>5. Same(w, v)
  BY <1>2, Zenon DEF Same, SameStrings, SameSession, SameLists
<1>6. Held(v) = Held(w) /\ Kept(v) = Kept(w) /\ Apart(v)
  BY <1>1, <1>5, SameHeld, Zenon
<1>7. Held(w) \in Nat
  BY <1>1, HeldNat, Zenon
<1>8. w.bytes - n = Held(w) + (d - n)
  BY <1>1, <1>7
<1>9. v.bytes = Held(v) + (d - n)
  BY <1>4, <1>6, <1>8, Zenon
<1>10. Off(v, d - n)
  BY <1>1, <1>2, <1>6, <1>9, Zenon DEF Off
<1>. QED BY <1>5, <1>10, Zenon DEF v

LEMMA Settled ==
  ASSUME NEW w, NEW n \in Nat, Off(w, n)
  PROVE  Off(Refund(w, n), 0) /\ Same(w, Refund(w, n))
<1>1. w \in Tables /\ IsFiniteSet(Kept(w)) /\ w.bytes = Held(w) + n
  BY Zenon DEF Off
<1>2. Held(w) \in Nat
  BY <1>1, HeldNat, Zenon
<1>3. n <= w.bytes /\ n \in Int /\ n - n = 0
  BY <1>1, <1>2
<1>4. Off(Refund(w, n), n - n) /\ Same(w, Refund(w, n))
  BY <1>3, Refunded, Zenon
<1>. QED BY <1>3, <1>4, Zenon

LEMMA Charged ==
  ASSUME NEW w, NEW n \in Nat, Off(w, 0 - n)
  PROVE  Off(Charge(w, n), 0) /\ Same(w, Charge(w, n))
<1>. DEFINE b == w.bytes + n
            v == [w EXCEPT !.bytes = b]
<1>1. /\ w \in Tables /\ w.bytes \in Nat /\ IsFiniteSet(Kept(w)) /\ Apart(w)
      /\ w.bytes = Held(w) + (0 - n)
  BY Zenon DEF Off, Tables
<1>2. b \in Nat
  BY <1>1
<1>3. Charge(w, n) = v
  BY Zenon DEF Charge
<1>. HIDE DEF b
<1>4. v \in Tables /\ v.bytes = b
  BY <1>1, <1>2, Zenon DEF Tables
<1>5. Same(w, v)
  BY <1>1, Zenon DEF Tables, Same, SameRequests, SameStrings
<1>. HIDE DEF v
<1>6. Held(v) = Held(w) /\ Kept(v) = Kept(w) /\ Apart(v)
  BY <1>1, <1>5, SameHeld, Zenon
<1>7. Held(w) \in Nat
  BY <1>1, HeldNat, Zenon
<1>8. b = Held(w) + 0
  BY <1>1, <1>7 DEF b
<1>9. Off(v, 0)
  BY <1>1, <1>4, <1>6, <1>8, Zenon DEF Off
<1>. QED BY <1>3, <1>5, <1>9, Zenon

(* A list changes, or an entry; the ledger is off by what it weighed.      *)
LEMMA ListsOff ==
  ASSUME NEW w, NEW v \in Tables, NEW d \in Int, NEW a \in Nat, NEW b \in Nat, Off(w, d),
         SameRequests(w, v), v.bytes = w.bytes, Lists(v) + a = Lists(w) + b
  PROVE  Off(v, d + a - b)
<1>1. w \in Tables /\ IsFiniteSet(Kept(w)) /\ Apart(w) /\ w.bytes = Held(w) + d
  BY Zenon DEF Off
<1>2. v.requests = w.requests /\ v.retired = w.retired
  BY Zenon DEF SameRequests
<1>3. Live(v) = Live(w)
  BY <1>2, Zenon DEF Live
<1>4. Kept(v) = Kept(w)
  BY <1>2, <1>3, Zenon DEF Kept
<1>5. Rows(v) = Rows(w) /\ Apart(v) /\ IsFiniteSet(Kept(v))
  BY <1>1, <1>2, <1>3, <1>4, Zenon DEF Rows, Apart
<1>6. Held(v) = Rows(w) + Cardinality(w.retired) + Lists(v)
  BY <1>2, <1>5, Zenon DEF Held
<1>7. Held(w) = Rows(w) + Cardinality(w.retired) + Lists(w)
  BY Zenon DEF Held
<1>8. /\ Rows(w) \in Nat /\ Cardinality(w.retired) \in Nat /\ Lists(w) \in Nat
      /\ Lists(v) \in Nat
  BY <1>1, <1>5, HeldNat, Zenon
<1>9. Held(w) + d = Held(v) + (d + a - b)
  BY <1>6, <1>7, <1>8
<1>10. v.bytes = Held(v) + (d + a - b)
  BY <1>1, <1>9, Zenon
<1>. QED BY <1>5, <1>10, Zenon DEF Off

LEMMA EntryOff ==
  ASSUME NEW w, NEW v \in Tables, NEW k \in Keys, NEW d \in Int, NEW c \in Nat, Off(w, d),
         \A j \in Keys \ {k} : v.requests[j] = w.requests[j],
         Cardinality(v.retired) = Cardinality(w.retired) + c, Apart(v),
         SameStrings(w, v), v.bytes = w.bytes
  PROVE  /\ Weight(w.requests[k]) \in Nat /\ Weight(v.requests[k]) \in Nat
         /\ Off(v, d + Weight(w.requests[k]) - Weight(v.requests[k]) - c)
<1>. DEFINE a == Weight(w.requests[k])
            b == Weight(v.requests[k])
<1>1. w \in Tables /\ IsFiniteSet(Kept(w)) /\ w.bytes = Held(w) + d
  BY Zenon DEF Off
<1>2. /\ IsFiniteSet(Kept(v)) /\ a \in Nat /\ b \in Nat
      /\ \E n \in Nat : Rows(w) = n + a /\ Rows(v) = n + b
  BY <1>1, EntryPut, Zenon
<1>. HIDE DEF a, b
<1>3. PICK n \in Nat : Rows(w) = n + a /\ Rows(v) = n + b
  BY <1>2, Zenon
<1>4. Lists(v) = Lists(w)
  BY Zenon DEF SameStrings, Lists
<1>5. Lists(w) \in Nat /\ Cardinality(w.retired) \in Nat
  BY <1>1, HeldNat, Zenon
<1>6. Held(w) = (n + a) + Cardinality(w.retired) + Lists(w)
  BY <1>3, Zenon DEF Held
<1>7. Held(v) = (n + b) + (Cardinality(w.retired) + c) + Lists(w)
  BY <1>3, <1>4, Zenon DEF Held
<1>8. Held(w) + d = Held(v) + (d + a - b - c)
  BY <1>2, <1>5, <1>6, <1>7
<1>9. v.bytes = Held(v) + (d + a - b - c)
  BY <1>1, <1>8, Zenon
<1>10. Off(v, d + a - b - c)
  BY <1>2, <1>9, Zenon DEF Off
<1>. QED BY <1>2, <1>10, Zenon DEF a, b

(* The table v is w with the entry e under k.                              *)
Puts(w, v, k, e) ==
  /\ v \in Tables /\ v.requests = [w.requests EXCEPT ![k] = e] /\ v.retired = w.retired
  /\ SameStrings(w, v) /\ v.bytes = w.bytes

LEMMA PutEntry ==
  ASSUME NEW w, NEW v, NEW k \in Keys, NEW e \in Entries \cup {NoEntry}, Off(w, 0),
         Puts(w, v, k, e), e # NoEntry => k \notin w.retired /\ Named(e)
  PROVE  /\ Weight(w.requests[k]) \in Nat /\ Weight(e) \in Nat
         /\ Off(v, Weight(w.requests[k]) - Weight(e)) /\ v.requests[k] = e
<1>1. /\ w \in Tables /\ Apart(w) /\ w.requests \in [Keys -> Entries \cup {NoEntry}]
  BY Zenon DEF Off, Tables
<1>2. /\ v \in Tables /\ v.requests = [w.requests EXCEPT ![k] = e] /\ v.retired = w.retired
      /\ SameStrings(w, v) /\ v.bytes = w.bytes
  BY Zenon DEF Puts
<1>3. v.requests[k] = e /\ \A j \in Keys \ {k} : v.requests[j] = w.requests[j]
  BY <1>1, <1>2, Zenon
<1>4. Apart(v)
  BY <1>1, <1>2, <1>3, Zenon DEF Apart
<1>5. Cardinality(v.retired) = Cardinality(w.retired) + 0
  <2>1. IsFiniteSet(Kept(w))
    BY Zenon DEF Off
  <2>2. Cardinality(w.retired) \in Nat
    BY <1>1, <2>1, HeldNat, Zenon
  <2>. QED BY <1>2, <2>2
<1>6. /\ Weight(w.requests[k]) \in Nat /\ Weight(v.requests[k]) \in Nat
      /\ Off(v, 0 + Weight(w.requests[k]) - Weight(v.requests[k]) - 0)
  <2>1. 0 \in Nat /\ 0 \in Int
    OBVIOUS
  <2>. QED BY <1>2, <1>3, <1>4, <1>5, <2>1, EntryOff, Zenon
<1>7. 0 + Weight(w.requests[k]) - Weight(v.requests[k]) - 0
        = Weight(w.requests[k]) - Weight(v.requests[k])
  BY <1>6
<1>. QED BY <1>3, <1>6, <1>7, Zenon

LEMMA WeightOf ==
  ASSUME NEW e \in Entries
  PROVE  e # NoEntry /\ Weight(e) = RequestBytes(e) /\ Weight(NoEntry) = 0
<1>1. e # NoEntry
  BY EntriesApart, Zenon
<1>. QED BY <1>1, Zenon DEF Weight

LEMMA RemoveBooks ==
  ASSUME NEW w, NEW k \in Keys, Off(w, 0)
  PROVE  Off(RemoveRequest(w, k), 0)
<1>1. w \in Tables /\ w.requests[k] \in Entries \cup {NoEntry}
  BY Zenon DEF Off, Tables
<1>2. CASE w.requests[k] = NoEntry
  BY <1>2, Zenon DEF RemoveRequest
<1>3. CASE w.requests[k] # NoEntry
  <2>. DEFINE e == w.requests[k]
              v == [w EXCEPT !.requests[k] = NoEntry]
  <2>1. Puts(w, v, k, NoEntry)
    BY <1>1, Zenon DEF Puts, Tables, SameStrings
  <2>2. e \in Entries /\ Weight(e) = RequestBytes(e) /\ Weight(NoEntry) = 0
    BY <1>1, <1>3, WeightOf, Zenon
  <2>3. RemoveRequest(w, k) = Refund(v, RequestBytes(e))
    BY <1>3, Zenon DEF RemoveRequest
  <2>. HIDE DEF v
  <2>4. Weight(e) \in Nat /\ Off(v, Weight(e) - Weight(NoEntry))
    BY <2>1, PutEntry, Zenon
  <2>. HIDE DEF e
  <2>5. Weight(e) - Weight(NoEntry) = RequestBytes(e) /\ RequestBytes(e) \in Nat
    BY <2>2, <2>4
  <2>6. Off(v, RequestBytes(e))
    BY <2>4, <2>5, Zenon
  <2>. QED BY <2>3, <2>5, <2>6, Settled, Zenon
<1>. QED BY <1>2, <1>3, Zenon

LEMMA RetireBooks ==
  ASSUME NEW w, NEW k \in Live(w), Off(w, 0)
  PROVE  /\ Off(Retire(w, k), 0) /\ Retire(w, k).retired = w.retired \cup {k}
         /\ \A j \in Keys : j # k => Retire(w, k).requests[j] = w.requests[j]
<1>. DEFINE e == w.requests[k]
            v == [w EXCEPT !.requests[k] = NoEntry, !.retired = @ \cup {k}]
<1>1. /\ w \in Tables /\ k \in Keys /\ e \in Entries /\ Apart(w) /\ IsFiniteSet(Kept(w))
      /\ w.retired \in SUBSET Keys /\ w.requests \in [Keys -> Entries \cup {NoEntry}]
      /\ e # NoEntry
  BY Zenon DEF Off, Tables, Live
<1>2. v \in Tables
  BY <1>1, Zenon DEF Tables
<1>3. /\ v.requests = [w.requests EXCEPT ![k] = NoEntry] /\ v.retired = w.retired \cup {k}
      /\ SameStrings(w, v) /\ v.bytes = w.bytes
  BY <1>1, Zenon DEF Tables, SameStrings
<1>4. Retire(w, k) = Refund(v, RequestBytes(e) - KeyBytes)
  BY Zenon DEF Retire
<1>. HIDE DEF v
<1>5. v.requests[k] = NoEntry /\ \A j \in Keys \ {k} : v.requests[j] = w.requests[j]
  BY <1>1, <1>3, Zenon
<1>6. Apart(v)
  BY <1>1, <1>3, <1>5, Zenon DEF Apart
<1>7. Cardinality(v.retired) = Cardinality(w.retired) + 1
  <2>1. IsFiniteSet(w.retired) /\ k \notin w.retired
    BY <1>1, KeysFinite, SubsetCard, Zenon DEF Apart
  <2>. QED BY <1>3, <2>1, FS_AddElement, Zenon
<1>8. Weight(e) = RequestBytes(e) /\ Weight(NoEntry) = 0
  BY <1>1, WeightOf, Zenon
<1>9. Weight(e) \in Nat /\ Off(v, 0 + Weight(e) - Weight(v.requests[k]) - 1)
  <2>1. 1 \in Nat /\ 0 \in Int
    OBVIOUS
  <2>. QED BY <1>1, <1>2, <1>3, <1>5, <1>6, <1>7, <2>1, EntryOff, Zenon
<1>10. RequestBytes(e) - KeyBytes \in Nat
  BY <1>1, EntryBytes, Zenon
<1>. HIDE DEF e
<1>11. 0 + Weight(e) - Weight(v.requests[k]) - 1 = RequestBytes(e) - KeyBytes
  BY <1>5, <1>8, <1>9 DEF KeyBytes
<1>12. Off(v, RequestBytes(e) - KeyBytes)
  BY <1>9, <1>11, Zenon
<1>13. Off(Retire(w, k), 0) /\ Same(v, Retire(w, k))
  BY <1>4, <1>10, <1>12, Settled, Zenon
<1>. QED BY <1>3, <1>5, <1>13, Zenon DEF Same, SameRequests

LEMMA RegisterBooks ==
  ASSUME NEW w, NEW k \in Keys, NEW e \in Entries, Off(w, 0), Named(e),
         NEW v \in Registered(w, k, e)
  PROVE  Off(v, 0)
<1>1. PICK r \in Reclaimed(w) : /\ k \notin Live(w) /\ k \notin w.retired
                                /\ v = Charge([r EXCEPT !.requests[k] = e], RequestBytes(e))
  BY Zenon DEF Registered
<1>2. w.requests[k] = NoEntry
  BY <1>1, Zenon DEF Live
<1>3. Off(r, 0) /\ r.requests[k] = NoEntry /\ k \notin r.retired
  <2>1. CASE r = w
    BY <1>1, <1>2, <2>1, Zenon
  <2>2. CASE \E j \in Live(w) : r = Retire(w, j)
    <3>1. PICK j \in Live(w) : r = Retire(w, j)
      BY <2>2, Zenon
    <3>2. j # k
      BY <1>1, Zenon
    <3>3. /\ Off(Retire(w, j), 0) /\ Retire(w, j).retired = w.retired \cup {j}
          /\ \A i \in Keys : i # j => Retire(w, j).requests[i] = w.requests[i]
      BY RetireBooks, Zenon
    <3>4. r.requests[k] = w.requests[k] /\ r.retired = w.retired \cup {j}
      BY <3>1, <3>2, <3>3, Zenon
    <3>. QED BY <1>1, <1>2, <3>1, <3>2, <3>3, <3>4, Zenon
  <2>3. r = w \/ \E j \in Live(w) : r = Retire(w, j)
    BY Zenon DEF Reclaimed, Reclaimable
  <2>. QED BY <2>1, <2>2, <2>3, Zenon
<1>. DEFINE u == [r EXCEPT !.requests[k] = e]
<1>4. Puts(r, u, k, e)
  BY <1>3, Zenon DEF Puts, Off, Tables, SameStrings
<1>. HIDE DEF u
<1>5. e # NoEntry /\ Weight(e) = RequestBytes(e) /\ Weight(NoEntry) = 0
  BY WeightOf, Zenon
<1>6. Weight(e) \in Nat /\ Off(u, Weight(NoEntry) - Weight(e))
  BY <1>3, <1>4, PutEntry, Zenon
<1>7. RequestBytes(e) \in Nat /\ Off(u, 0 - RequestBytes(e))
  BY <1>5, <1>6, Zenon
<1>8. v = Charge(u, RequestBytes(e))
  BY <1>1, Zenon DEF u
<1>. QED BY <1>7, <1>8, Charged, Zenon

(* An edit that keeps the strings of an entry keeps the books.             *)
LEMMA EditBooks ==
  ASSUME NEW w, NEW k \in Live(w), NEW e \in Entries, NEW v, Off(w, 0), Puts(w, v, k, e),
         RequestBytes(e) = RequestBytes(w.requests[k]), Named(e)
  PROVE  Off(v, 0)
<1>1. k \in Keys /\ w.requests[k] \in Entries /\ k \notin w.retired
  BY Zenon DEF Off, Tables, Live, Apart
<1>2. /\ Weight(e) = RequestBytes(e) /\ Weight(w.requests[k]) = RequestBytes(e)
  BY <1>1, WeightOf, Zenon
<1>3. Weight(e) \in Nat /\ Off(v, Weight(w.requests[k]) - Weight(e))
  BY <1>1, PutEntry, Zenon
<1>4. Weight(w.requests[k]) - Weight(e) = 0
  BY <1>2, <1>3
<1>. QED BY <1>3, <1>4, Zenon

LEMMA LiveBooks ==
  ASSUME NEW w, NEW k \in Live(w), Off(w, 0)
  PROVE  /\ k \in Keys /\ w.requests[k] \in Entries /\ w \in Tables
         /\ Named(w.requests[k]) /\ w.requests \in [Keys -> Entries \cup {NoEntry}]
  BY Zenon DEF Off, Tables, Live, Apart

LEMMA CancelledBooks ==
  ASSUME NEW w, NEW k \in Live(w), Off(w, 0)
  PROVE  Off(Cancelled(w, k), 0)
<1>1. /\ k \in Keys /\ w.requests[k] \in Entries /\ w \in Tables
      /\ Named(w.requests[k]) /\ w.requests \in [Keys -> Entries \cup {NoEntry}]
  BY LiveBooks, Zenon
<1>2. CASE w.requests[k].responded
  BY <1>1, <1>2, RemoveBooks, Zenon DEF Cancelled
<1>3. CASE ~w.requests[k].responded
  <2>. DEFINE s == IF w.requests[k].sub = "none" THEN w.requests[k].sub ELSE "ended"
              e == [w.requests[k] EXCEPT !.cancelled = TRUE, !.sub = s]
              v == [w EXCEPT !.requests[k] = e]
  <2>1. e = EndedEntry(w.requests[k])
    BY Zenon DEF EndedEntry
  <2>2. s \in {"none", "ended"}
    BY <1>1, Zenon
  <2>. HIDE DEF s
  <2>3. e \in Entries
    BY <1>1, <2>2, Zenon DEF Entries
  <2>4. /\ e.method = w.requests[k].method
        /\ e.uri = w.requests[k].uri /\ e.level = w.requests[k].level
        /\ e.requested = w.requests[k].requested /\ e.acked = w.requests[k].acked
    BY <1>1, Zenon DEF Entries
  <2>. HIDE DEF e
  <2>5. Cancelled(w, k) = v
    BY <1>3, <2>1, Zenon DEF Cancelled
  <2>6. Puts(w, v, k, e)
    BY <1>1, <2>3, Zenon DEF Puts, Tables, SameStrings
  <2>. HIDE DEF v
  <2>7. RequestBytes(e) = RequestBytes(w.requests[k]) /\ Named(e)
    BY <1>1, <2>4, Zenon DEF RequestBytes, Named
  <2>. QED BY <2>3, <2>5, <2>6, <2>7, EditBooks, Zenon
<1>. QED BY <1>2, <1>3, Zenon

LEMMA MarkBooks ==
  ASSUME NEW w, NEW k \in Live(w), Off(w, 0)
  PROVE  Off(MarkResponded(w, k), 0)
<1>1. /\ k \in Keys /\ w.requests[k] \in Entries /\ w \in Tables
      /\ Named(w.requests[k]) /\ w.requests \in [Keys -> Entries \cup {NoEntry}]
  BY LiveBooks, Zenon
<1>2. CASE w.requests[k].sub = "ended" \/ w.requests[k].cancelled
  BY <1>1, <1>2, RemoveBooks, Zenon DEF MarkResponded
<1>3. CASE ~(w.requests[k].sub = "ended" \/ w.requests[k].cancelled)
  <2>. DEFINE e == [w.requests[k] EXCEPT !.responded = TRUE]
              v == [w EXCEPT !.requests = [w.requests EXCEPT ![k] = e]]
  <2>1. MarkResponded(w, k) = v
    BY <1>1, <1>3 DEF MarkResponded, Tables, Entries
  <2>2. e \in Entries
    BY <1>1, Zenon DEF Entries
  <2>3. /\ e.method = w.requests[k].method
        /\ e.uri = w.requests[k].uri /\ e.level = w.requests[k].level
        /\ e.requested = w.requests[k].requested /\ e.acked = w.requests[k].acked
    BY <1>1, Zenon DEF Entries
  <2>. HIDE DEF e
  <2>4. Puts(w, v, k, e)
    BY <1>1, <2>2, Zenon DEF Puts, Tables, SameStrings
  <2>. HIDE DEF v
  <2>5. RequestBytes(e) = RequestBytes(w.requests[k]) /\ Named(e)
    BY <1>1, <2>3, Zenon DEF RequestBytes, Named
  <2>. QED BY <2>1, <2>2, <2>4, <2>5, EditBooks, Zenon
<1>. QED BY <1>2, <1>3, Zenon

LEMMA EndBooks ==
  ASSUME NEW w, NEW k \in Live(w), Off(w, 0)
  PROVE  Off(EndSubscription(w, k), 0)
<1>1. /\ k \in Keys /\ w.requests[k] \in Entries /\ w \in Tables
      /\ Named(w.requests[k]) /\ w.requests \in [Keys -> Entries \cup {NoEntry}]
  BY LiveBooks, Zenon
<1>2. CASE w.requests[k].responded
  BY <1>1, <1>2, RemoveBooks, Zenon DEF EndSubscription
<1>3. CASE ~w.requests[k].responded
  <2>. DEFINE e == [w.requests[k] EXCEPT !.sub = "ended"]
              v == [w EXCEPT !.requests = [w.requests EXCEPT ![k] = e]]
  <2>1. EndSubscription(w, k) = v
    BY <1>1, <1>3 DEF EndSubscription, Tables, Entries
  <2>2. e \in Entries
    BY <1>1, Zenon DEF Entries
  <2>3. /\ e.method = w.requests[k].method
        /\ e.uri = w.requests[k].uri /\ e.level = w.requests[k].level
        /\ e.requested = w.requests[k].requested /\ e.acked = w.requests[k].acked
    BY <1>1, Zenon DEF Entries
  <2>. HIDE DEF e
  <2>4. Puts(w, v, k, e)
    BY <1>1, <2>2, Zenon DEF Puts, Tables, SameStrings
  <2>. HIDE DEF v
  <2>5. RequestBytes(e) = RequestBytes(w.requests[k]) /\ Named(e)
    BY <1>1, <2>3, Zenon DEF RequestBytes, Named
  <2>. QED BY <2>1, <2>2, <2>4, <2>5, EditBooks, Zenon
<1>. QED BY <1>2, <1>3, Zenon

LEMMA PutTyped ==
  ASSUME NEW f \in [Keys -> Entries \cup {NoEntry}], NEW e \in Entries, NEW k
  PROVE  [f EXCEPT ![k] = e] \in [Keys -> Entries \cup {NoEntry}]
  BY Zenon

(* The acknowledgement charges the growth of the URI set, or refunds it.   *)
LEMMA AckedBooks ==
  ASSUME NEW w, NEW k \in Live(w), Off(w, 0), NEW uris \in SUBSET Uris
  PROVE  Off(Acked(w, k, uris), 0)
<1>. DEFINE old == Cardinality(w.requests[k].acked)
            new == Cardinality(uris)
            a == [w EXCEPT !.requests[k].sub = "active"]
            r == [a EXCEPT !.requests[k].acked = uris]
            ea == [w.requests[k] EXCEPT !.sub = "active"]
            er == [ea EXCEPT !.acked = uris]
<1>1. /\ k \in Keys /\ w.requests[k] \in Entries /\ w \in Tables
      /\ w.requests \in [Keys -> Entries \cup {NoEntry}] /\ k \notin w.retired
      /\ Named(w.requests[k])
  <2>1. w.requests[k] # NoEntry /\ Apart(w)
    BY Zenon DEF Live, Off
  <2>. QED BY <2>1, LiveBooks, Zenon DEF Apart
<1>2. old \in Nat /\ new \in Nat
  <2>1. w.requests[k].acked \in SUBSET Uris
    BY <1>1, Zenon DEF Entries
  <2>. QED BY <2>1, IdsFinite, SubsetCard, Zenon
<1>3. Acked(w, k, uris) = IF new <= old THEN Refund(r, old - new)
                          ELSE IF Fits(w, new - old) THEN Charge(r, new - old) ELSE a
  BY Zenon DEF Acked
<1>4. /\ ea \in Entries /\ ea.method = w.requests[k].method
      /\ ea.uri = w.requests[k].uri /\ ea.level = w.requests[k].level
      /\ ea.requested = w.requests[k].requested /\ ea.acked = w.requests[k].acked
  BY <1>1, Zenon DEF Entries
<1>5. Puts(w, a, k, ea)
  BY <1>1, <1>4, Zenon DEF Puts, Tables, SameStrings
<1>6. a \in Tables /\ a.requests = [w.requests EXCEPT ![k] = ea]
  BY <1>5, Zenon DEF Puts
<1>. HIDE DEF a, ea
<1>7. /\ er \in Entries /\ er.method = ea.method /\ er.uri = ea.uri /\ er.level = ea.level
      /\ er.requested = ea.requested /\ er.acked = uris
  BY <1>4, Zenon DEF Entries
<1>8. Puts(w, r, k, er)
  <2>1. a.requests \in [Keys -> Entries \cup {NoEntry}] /\ a.requests[k] = ea
    BY <1>1, <1>4, <1>6
  <2>2. r = [a EXCEPT !.requests[k] = er]
    BY <2>1, Zenon
  <2>3. r.requests = [a.requests EXCEPT ![k] = er]
    BY <1>6, <2>2, Zenon DEF Tables
  <2>4. r.requests = [w.requests EXCEPT ![k] = er]
    BY <1>1, <1>6, <2>3
  <2>5. /\ r.retired = a.retired /\ r.pending = a.pending /\ r.client_caps = a.client_caps
        /\ r.server_caps = a.server_caps /\ r.subscribed = a.subscribed
        /\ r.elicitations = a.elicitations /\ r.log_level = a.log_level /\ r.bytes = a.bytes
    BY <1>6, Zenon DEF Tables
  <2>. HIDE DEF er
  <2>6. r \in Tables
    <3>. HIDE DEF r
    <3>1. r.requests \in [Keys -> Entries \cup {NoEntry}]
      <4>1. [w.requests EXCEPT ![k] = er] \in [Keys -> Entries \cup {NoEntry}]
        BY <1>1, <1>7, PutTyped, Zenon
      <4>. QED BY <2>4, <4>1, Zenon
    <3>. QED BY <1>6, <2>2, <2>3, <3>1, Zenon DEF Tables
  <2>. HIDE DEF r
  <2>. QED BY <1>5, <2>4, <2>5, <2>6, Zenon DEF Puts, SameStrings
<1>. HIDE DEF r, er
<1>9. Named(ea) /\ Named(er) /\ RequestBytes(ea) = RequestBytes(w.requests[k])
  BY <1>1, <1>4, <1>7, Zenon DEF RequestBytes, Named
<1>10. /\ Weight(w.requests[k]) = RequestBytes(w.requests[k]) /\ Weight(er) = RequestBytes(er)
       /\ RequestBytes(w.requests[k]) \in Nat /\ RequestBytes(er) \in Nat
  BY <1>1, <1>7, WeightOf, EntryBytes, Zenon
<1>11. Off(r, RequestBytes(w.requests[k]) - RequestBytes(er))
  <2>1. er \in Entries \cup {NoEntry} /\ (er # NoEntry => k \notin w.retired /\ Named(er))
    BY <1>1, <1>7, <1>9, Zenon
  <2>2. Off(r, Weight(w.requests[k]) - Weight(er))
    BY <1>1, <1>8, <2>1, PutEntry, Zenon
  <2>. QED BY <1>10, <2>2, Zenon
<1>12. RequestBytes(w.requests[k]) - RequestBytes(er) = old - new
  <2>. DEFINE s == SlotBytes(w.requests[k].uri, NoUri)
              l == SlotBytes(w.requests[k].level, NoLevel)
              q == Cardinality(w.requests[k].requested)
  <2>1. w.requests[k].requested \in SUBSET Uris
    BY <1>1, Zenon DEF Entries
  <2>2. q \in Nat /\ s \in Nat /\ l \in Nat
    <3>1. q \in Nat
      BY <2>1, IdsFinite, SubsetCard, Zenon
    <3>2. s \in Nat /\ l \in Nat
      BY DEF SlotBytes
    <3>. QED BY <3>1, <3>2, Zenon
  <2>3. RequestBytes(w.requests[k]) = KeyBytes + 1 + s + l + q + old
    BY Zenon DEF RequestBytes
  <2>4. RequestBytes(er) = KeyBytes + 1 + s + l + q + new
    BY <1>4, <1>7, Zenon DEF RequestBytes
  <2>. HIDE DEF s, l, q, old, new
  <2>. QED BY <1>2, <2>2, <2>3, <2>4 DEF KeyBytes
<1>. HIDE DEF old, new
<1>13. Off(r, old - new)
  BY <1>11, <1>12, Zenon
<1>14. CASE new <= old
  <2>1. old - new \in Nat
    BY <1>2, <1>14
  <2>2. Acked(w, k, uris) = Refund(r, old - new)
    BY <1>3, <1>14, Zenon
  <2>. QED BY <1>13, <2>1, <2>2, Settled, Zenon
<1>15. CASE ~(new <= old) /\ Fits(w, new - old)
  <2>1. new - old \in Nat /\ 0 - (new - old) = old - new
    BY <1>2, <1>15
  <2>2. Acked(w, k, uris) = Charge(r, new - old)
    BY <1>3, <1>15, Zenon
  <2>3. Off(r, 0 - (new - old))
    BY <1>13, <2>1, Zenon
  <2>. QED BY <2>1, <2>2, <2>3, Charged, Zenon
<1>16. CASE ~(new <= old) /\ ~Fits(w, new - old)
  <2>1. Acked(w, k, uris) = a
    BY <1>3, <1>16, Zenon
  <2>. QED BY <1>4, <1>5, <1>9, <2>1, EditBooks, Zenon
<1>. QED BY <1>14, <1>15, <1>16, Zenon

(* One list changes.                                                       *)
Parts(w) ==
  /\ CapsBytes(w.pending) \in Nat /\ CapsBytes(w.client_caps) \in Nat
  /\ CapsBytes(w.server_caps) \in Nat /\ Cardinality(w.subscribed) \in Nat
  /\ Cardinality(w.elicitations) \in Nat /\ SlotBytes(w.log_level, NoLevel) \in Nat

LEMMA ListParts ==
  ASSUME NEW w \in Tables
  PROVE  Parts(w)
<1>1. Cardinality(w.subscribed) \in Nat /\ Cardinality(w.elicitations) \in Nat
  BY ListsCard, Zenon
<1>2. /\ w.pending \in CapsOf(ClientCaps) /\ w.client_caps \in CapsOf(ClientCaps)
      /\ w.server_caps \in SUBSET ServerCaps
  BY Zenon DEF Tables, CapsOf
<1>3. /\ CapsBytes(w.pending) \in Nat /\ CapsBytes(w.client_caps) \in Nat
      /\ CapsBytes(w.server_caps) \in Nat
  BY <1>2, CapsCard, Zenon
<1>4. SlotBytes(w.log_level, NoLevel) \in Nat
  BY DEF SlotBytes
<1>. QED BY <1>1, <1>3, <1>4, Zenon DEF Parts

LEMMA PendingOff ==
  ASSUME NEW w, NEW d \in Int, Off(w, d), NEW x \in CapsOf(ClientCaps)
  PROVE  LET v == [w EXCEPT !.pending = x]
         IN /\ CapsBytes(w.pending) \in Nat /\ CapsBytes(x) \in Nat
            /\ Off(v, d + CapsBytes(w.pending) - CapsBytes(x))
<1>. DEFINE v == [w EXCEPT !.pending = x]
<1>1. w \in Tables
  BY Zenon DEF Off
<1>2. v \in Tables /\ SameRequests(w, v) /\ v.bytes = w.bytes
  BY <1>1, Zenon DEF Tables, SameRequests
<1>3. /\ v.pending = x /\ v.client_caps = w.client_caps /\ v.server_caps = w.server_caps
      /\ v.subscribed = w.subscribed /\ v.elicitations = w.elicitations /\ v.log_level = w.log_level
  BY <1>1, Zenon DEF Tables
<1>. HIDE DEF v
<1>4. Parts(w) /\ Parts(v)
  BY <1>1, <1>2, ListParts, Zenon
<1>5. CapsBytes(w.pending) \in Nat /\ CapsBytes(x) \in Nat
  BY <1>3, <1>4, Zenon DEF Parts
<1>6. Lists(v) + CapsBytes(w.pending) = Lists(w) + CapsBytes(x)
  BY <1>3, <1>4 DEF Parts, Lists
<1>7. Off(v, d + CapsBytes(w.pending) - CapsBytes(x))
  BY <1>2, <1>5, <1>6, ListsOff, Zenon
<1>. QED BY <1>5, <1>7, Zenon DEF v

LEMMA ServerOff ==
  ASSUME NEW w, NEW d \in Int, Off(w, d), NEW x \in SUBSET ServerCaps
  PROVE  LET v == [w EXCEPT !.server_caps = x]
         IN /\ CapsBytes(w.server_caps) \in Nat /\ CapsBytes(x) \in Nat
            /\ Off(v, d + CapsBytes(w.server_caps) - CapsBytes(x))
<1>. DEFINE v == [w EXCEPT !.server_caps = x]
<1>1. w \in Tables
  BY Zenon DEF Off
<1>2. v \in Tables /\ SameRequests(w, v) /\ v.bytes = w.bytes
  BY <1>1, Zenon DEF Tables, SameRequests
<1>3. /\ v.pending = w.pending /\ v.client_caps = w.client_caps /\ v.server_caps = x
      /\ v.subscribed = w.subscribed /\ v.elicitations = w.elicitations /\ v.log_level = w.log_level
  BY <1>1, Zenon DEF Tables
<1>. HIDE DEF v
<1>4. Parts(w) /\ Parts(v)
  BY <1>1, <1>2, ListParts, Zenon
<1>5. CapsBytes(w.server_caps) \in Nat /\ CapsBytes(x) \in Nat
  BY <1>3, <1>4, Zenon DEF Parts
<1>6. Lists(v) + CapsBytes(w.server_caps) = Lists(w) + CapsBytes(x)
  BY <1>3, <1>4 DEF Parts, Lists
<1>7. Off(v, d + CapsBytes(w.server_caps) - CapsBytes(x))
  BY <1>2, <1>5, <1>6, ListsOff, Zenon
<1>. QED BY <1>5, <1>7, Zenon DEF v

LEMMA SubscribedOff ==
  ASSUME NEW w, NEW d \in Int, Off(w, d), NEW x \in SUBSET Uris
  PROVE  LET v == [w EXCEPT !.subscribed = x]
         IN /\ Cardinality(w.subscribed) \in Nat /\ Cardinality(x) \in Nat
            /\ Off(v, d + Cardinality(w.subscribed) - Cardinality(x))
<1>. DEFINE v == [w EXCEPT !.subscribed = x]
<1>1. w \in Tables
  BY Zenon DEF Off
<1>2. v \in Tables /\ SameRequests(w, v) /\ v.bytes = w.bytes
  BY <1>1, Zenon DEF Tables, SameRequests
<1>3. /\ v.pending = w.pending /\ v.client_caps = w.client_caps /\ v.server_caps = w.server_caps
      /\ v.subscribed = x /\ v.elicitations = w.elicitations /\ v.log_level = w.log_level
  BY <1>1, Zenon DEF Tables
<1>. HIDE DEF v
<1>4. Parts(w) /\ Parts(v)
  BY <1>1, <1>2, ListParts, Zenon
<1>5. Cardinality(w.subscribed) \in Nat /\ Cardinality(x) \in Nat
  BY <1>3, <1>4, Zenon DEF Parts
<1>6. Lists(v) + Cardinality(w.subscribed) = Lists(w) + Cardinality(x)
  BY <1>3, <1>4 DEF Parts, Lists
<1>7. Off(v, d + Cardinality(w.subscribed) - Cardinality(x))
  BY <1>2, <1>5, <1>6, ListsOff, Zenon
<1>. QED BY <1>5, <1>7, Zenon DEF v

LEMMA ElicitationsOff ==
  ASSUME NEW w, NEW d \in Int, Off(w, d), NEW x \in SUBSET Elicitations
  PROVE  LET v == [w EXCEPT !.elicitations = x]
         IN /\ Cardinality(w.elicitations) \in Nat /\ Cardinality(x) \in Nat
            /\ Off(v, d + Cardinality(w.elicitations) - Cardinality(x))
<1>. DEFINE v == [w EXCEPT !.elicitations = x]
<1>1. w \in Tables
  BY Zenon DEF Off
<1>2. v \in Tables /\ SameRequests(w, v) /\ v.bytes = w.bytes
  BY <1>1, Zenon DEF Tables, SameRequests
<1>3. /\ v.pending = w.pending /\ v.client_caps = w.client_caps /\ v.server_caps = w.server_caps
      /\ v.subscribed = w.subscribed /\ v.elicitations = x /\ v.log_level = w.log_level
  BY <1>1, Zenon DEF Tables
<1>. HIDE DEF v
<1>4. Parts(w) /\ Parts(v)
  BY <1>1, <1>2, ListParts, Zenon
<1>5. Cardinality(w.elicitations) \in Nat /\ Cardinality(x) \in Nat
  BY <1>3, <1>4, Zenon DEF Parts
<1>6. Lists(v) + Cardinality(w.elicitations) = Lists(w) + Cardinality(x)
  BY <1>3, <1>4 DEF Parts, Lists
<1>7. Off(v, d + Cardinality(w.elicitations) - Cardinality(x))
  BY <1>2, <1>5, <1>6, ListsOff, Zenon
<1>. QED BY <1>5, <1>7, Zenon DEF v

LEMMA LevelOff ==
  ASSUME NEW w, NEW d \in Int, Off(w, d), NEW x \in Levels \cup {NoLevel}
  PROVE  LET v == [w EXCEPT !.log_level = x]
         IN /\ SlotBytes(w.log_level, NoLevel) \in Nat /\ SlotBytes(x, NoLevel) \in Nat
            /\ Off(v, d + SlotBytes(w.log_level, NoLevel) - SlotBytes(x, NoLevel))
<1>. DEFINE v == [w EXCEPT !.log_level = x]
<1>1. w \in Tables
  BY Zenon DEF Off
<1>2. v \in Tables /\ SameRequests(w, v) /\ v.bytes = w.bytes
  BY <1>1, Zenon DEF Tables, SameRequests
<1>3. /\ v.pending = w.pending /\ v.client_caps = w.client_caps /\ v.server_caps = w.server_caps
      /\ v.subscribed = w.subscribed /\ v.elicitations = w.elicitations /\ v.log_level = x
  BY <1>1, Zenon DEF Tables
<1>. HIDE DEF v
<1>4. Parts(w) /\ Parts(v)
  BY <1>1, <1>2, ListParts, Zenon
<1>5. SlotBytes(w.log_level, NoLevel) \in Nat /\ SlotBytes(x, NoLevel) \in Nat
  BY <1>3, <1>4, Zenon DEF Parts
<1>6. Lists(v) + SlotBytes(w.log_level, NoLevel) = Lists(w) + SlotBytes(x, NoLevel)
  BY <1>3, <1>4 DEF Parts, Lists
<1>7. Off(v, d + SlotBytes(w.log_level, NoLevel) - SlotBytes(x, NoLevel))
  BY <1>2, <1>5, <1>6, ListsOff, Zenon
<1>. QED BY <1>5, <1>7, Zenon DEF v

LEMMA TrackBooks ==
  ASSUME NEW w, Off(w, 0), NEW el \in Elicitations
  PROVE  Off(TrackElicitation(w, el), 0)
<1>1. CASE ~CanTrack(w, el)
  BY <1>1, Zenon DEF TrackElicitation
<1>2. CASE CanTrack(w, el)
  <2>. DEFINE x == w.elicitations \cup {el}
              u == [w EXCEPT !.elicitations = x]
              o == Cardinality(w.elicitations)
  <2>1. w \in Tables /\ w.elicitations \in SUBSET Elicitations
    BY Zenon DEF Off, Tables
  <2>2. x \in SUBSET Elicitations /\ el \notin w.elicitations
    BY <1>2, <2>1, Zenon DEF CanTrack
  <2>3. IsFiniteSet(w.elicitations)
    BY <2>1, ListsCard, Zenon
  <2>4. Cardinality(x) = o + 1
    BY <2>2, <2>3, FS_AddElement, Zenon
  <2>5. TrackElicitation(w, el) = Charge(u, 1)
    BY <1>2, Zenon DEF TrackElicitation
  <2>6. 0 \in Int /\ 1 \in Nat
    OBVIOUS
  <2>. HIDE DEF x
  <2>7. o \in Nat /\ Off(u, 0 + o - Cardinality(x))
    BY <2>2, <2>6, ElicitationsOff, Zenon
  <2>. HIDE DEF u, o
  <2>8. 0 + o - Cardinality(x) = 0 - 1
    BY <2>4, <2>7
  <2>9. Off(u, 0 - 1)
    BY <2>7, <2>8, Zenon
  <2>. QED BY <2>5, <2>6, <2>9, Charged, Zenon
<1>. QED BY <1>1, <1>2, Zenon

LEMMA DropBooks ==
  ASSUME NEW w, Off(w, 0), NEW el
  PROVE  Off(DropElicitation(w, el), 0)
<1>1. CASE el \notin w.elicitations
  BY <1>1, Zenon DEF DropElicitation
<1>2. CASE el \in w.elicitations
  <2>. DEFINE x == w.elicitations \ {el}
              u == [w EXCEPT !.elicitations = x]
              o == Cardinality(w.elicitations)
  <2>1. w \in Tables /\ w.elicitations \in SUBSET Elicitations
    BY Zenon DEF Off, Tables
  <2>2. x \in SUBSET Elicitations
    BY <2>1, Zenon
  <2>3. IsFiniteSet(w.elicitations)
    BY <2>1, ListsCard, Zenon
  <2>4. Cardinality(x) = o - 1
    BY <1>2, <2>3, FS_RemoveElement, Zenon
  <2>5. DropElicitation(w, el) = Refund(u, 1)
    BY <1>2, Zenon DEF DropElicitation
  <2>6. 0 \in Int /\ 1 \in Nat
    OBVIOUS
  <2>. HIDE DEF x
  <2>7. o \in Nat /\ Off(u, 0 + o - Cardinality(x))
    BY <2>2, <2>6, ElicitationsOff, Zenon
  <2>. HIDE DEF u, o
  <2>8. 0 + o - Cardinality(x) = 1
    BY <2>4, <2>7
  <2>9. Off(u, 1)
    BY <2>7, <2>8, Zenon
  <2>. QED BY <2>5, <2>6, <2>9, Settled, Zenon
<1>. QED BY <1>1, <1>2, Zenon

LEMMA SubscribeBooks ==
  ASSUME NEW w, Off(w, 0), NEW uri \in Uris
  PROVE  Off(Subscribe(w, uri), 0)
<1>. DEFINE p == /\ uri \notin w.subscribed
                 /\ Cardinality(w.subscribed) < MaxSubscribed
                 /\ Fits(w, 1)
<1>1. CASE ~p
  BY <1>1, Zenon DEF Subscribe
<1>2. CASE p
  <2>. DEFINE x == w.subscribed \cup {uri}
              u == [w EXCEPT !.subscribed = x]
              o == Cardinality(w.subscribed)
  <2>1. w \in Tables /\ w.subscribed \in SUBSET Uris
    BY Zenon DEF Off, Tables
  <2>2. x \in SUBSET Uris /\ uri \notin w.subscribed
    BY <1>2, <2>1, Zenon
  <2>3. IsFiniteSet(w.subscribed)
    BY <2>1, ListsCard, Zenon
  <2>4. Cardinality(x) = o + 1
    BY <2>2, <2>3, FS_AddElement, Zenon
  <2>5. Subscribe(w, uri) = Charge(u, 1)
    BY <1>2, Zenon DEF Subscribe
  <2>6. 0 \in Int /\ 1 \in Nat
    OBVIOUS
  <2>. HIDE DEF x
  <2>7. o \in Nat /\ Off(u, 0 + o - Cardinality(x))
    BY <2>2, <2>6, SubscribedOff, Zenon
  <2>. HIDE DEF u, o
  <2>8. 0 + o - Cardinality(x) = 0 - 1
    BY <2>4, <2>7
  <2>9. Off(u, 0 - 1)
    BY <2>7, <2>8, Zenon
  <2>. QED BY <2>5, <2>6, <2>9, Charged, Zenon
<1>. QED BY <1>1, <1>2, Zenon

LEMMA UnsubscribeBooks ==
  ASSUME NEW w, Off(w, 0), NEW uri
  PROVE  Off(Unsubscribe(w, uri), 0)
<1>1. CASE uri \notin w.subscribed
  BY <1>1, Zenon DEF Unsubscribe
<1>2. CASE uri \in w.subscribed
  <2>. DEFINE x == w.subscribed \ {uri}
              u == [w EXCEPT !.subscribed = x]
              o == Cardinality(w.subscribed)
  <2>1. w \in Tables /\ w.subscribed \in SUBSET Uris
    BY Zenon DEF Off, Tables
  <2>2. x \in SUBSET Uris
    BY <2>1, Zenon
  <2>3. IsFiniteSet(w.subscribed)
    BY <2>1, ListsCard, Zenon
  <2>4. Cardinality(x) = o - 1
    BY <1>2, <2>3, FS_RemoveElement, Zenon
  <2>5. Unsubscribe(w, uri) = Refund(u, 1)
    BY <1>2, Zenon DEF Unsubscribe
  <2>6. 0 \in Int /\ 1 \in Nat
    OBVIOUS
  <2>. HIDE DEF x
  <2>7. o \in Nat /\ Off(u, 0 + o - Cardinality(x))
    BY <2>2, <2>6, SubscribedOff, Zenon
  <2>. HIDE DEF u, o
  <2>8. 0 + o - Cardinality(x) = 1
    BY <2>4, <2>7
  <2>9. Off(u, 1)
    BY <2>7, <2>8, Zenon
  <2>. QED BY <2>5, <2>6, <2>9, Settled, Zenon
<1>. QED BY <1>1, <1>2, Zenon

(* A list is refunded before it is replaced: what is retained weighs at     *)
(* least as much as the list.                                              *)
LEMMA RefundsList ==
  ASSUME NEW w, Off(w, 0), NEW n \in Nat, n <= Lists(w)
  PROVE  Off(Refund(w, n), 0 - n) /\ Same(w, Refund(w, n))
<1>1. w \in Tables /\ IsFiniteSet(Kept(w)) /\ w.bytes = Held(w) + 0
  BY Zenon DEF Off
<1>2. /\ Rows(w) \in Nat /\ Cardinality(w.retired) \in Nat /\ Lists(w) \in Nat
  BY <1>1, HeldNat, Zenon
<1>3. w.bytes = Rows(w) + Cardinality(w.retired) + Lists(w)
  BY <1>1, <1>2 DEF Held
<1>4. n <= w.bytes /\ 0 \in Int
  BY <1>2, <1>3
<1>. QED BY <1>4, Refunded, Zenon

LEMMA ListsWeigh ==
  ASSUME NEW w \in Tables
  PROVE  /\ CapsBytes(w.pending) <= Lists(w)
         /\ CapsBytes(w.client_caps) + CapsBytes(w.server_caps) <= Lists(w)
         /\ SlotBytes(w.log_level, NoLevel) <= Lists(w)
<1>1. Parts(w)
  BY ListParts, Zenon
<1>. QED BY <1>1 DEF Parts, Lists

LEMMA SetLogLevelBooks ==
  ASSUME NEW w, Off(w, 0), NEW level \in Levels
  PROVE  Off(SetLogLevel(w, level), 0)
<1>. DEFINE n == SlotBytes(w.log_level, NoLevel)
            r == Refund(w, n)
            f == [r EXCEPT !.log_level = NoLevel]
            u == [f EXCEPT !.log_level = level]
<1>1. SetLogLevel(w, level) = IF Fits(f, 1) THEN Charge(u, 1) ELSE f
  BY Zenon DEF SetLogLevel
<1>2. w \in Tables /\ n \in Nat
  BY DEF Off, SlotBytes
<1>3. Off(r, 0 - n) /\ r.log_level = w.log_level
  BY <1>2, ListsWeigh, RefundsList, Zenon DEF Same, SameStrings
<1>4. /\ SlotBytes(NoLevel, NoLevel) = 0 /\ SlotBytes(level, NoLevel) = 1
      /\ SlotBytes(r.log_level, NoLevel) = n
  BY <1>3, NonesApart, Zenon DEF SlotBytes
<1>. HIDE DEF n, r
<1>5. 0 - n \in Int /\ 0 \in Int /\ 1 \in Nat
  BY <1>2
<1>6. Off(f, (0 - n) + n - 0)
  BY <1>3, <1>4, <1>5, LevelOff, Zenon
<1>7. (0 - n) + n - 0 = 0 /\ 0 + 0 - 1 = 0 - 1
  BY <1>2
<1>8. Off(f, 0) /\ f.log_level = NoLevel
  <2>1. r \in Tables
    BY <1>3, Zenon DEF Off
  <2>2. f.log_level = NoLevel
    BY <2>1, Zenon DEF Tables
  <2>. HIDE DEF f
  <2>. QED BY <1>6, <1>7, <2>2, Zenon
<1>. HIDE DEF f
<1>9. Off(u, 0 + 0 - 1)
  BY <1>4, <1>5, <1>8, LevelOff, Zenon
<1>. HIDE DEF u
<1>10. Off(Charge(u, 1), 0)
  BY <1>5, <1>7, <1>9, Charged, Zenon
<1>. QED BY <1>1, <1>8, <1>10, Zenon

LEMMA SetPendingBooks ==
  ASSUME NEW w, Off(w, 0), NEW caps \in CapsOf(ClientCaps)
  PROVE  Off(SetPendingInit(w, caps), 0)
<1>. DEFINE n == CapsBytes(w.pending)
            m == CapsBytes(caps)
            f == Refund(w, n)
<1>1. w \in Tables /\ w.pending \in CapsOf(ClientCaps)
  BY Zenon DEF Off, Tables
<1>2. n \in Nat /\ m \in Nat
  BY <1>1, CapsCard, Zenon
<1>3. Off(f, 0 - n) /\ f.pending = w.pending
  BY <1>1, <1>2, ListsWeigh, RefundsList, Zenon DEF Same, SameStrings
<1>4. SetPendingInit(w, caps) = IF caps = NoCaps THEN [f EXCEPT !.pending = NoCaps]
                                ELSE IF Fits(f, m) THEN Charge([f EXCEPT !.pending = caps], m)
                                ELSE [f EXCEPT !.pending = {}]
  BY Zenon DEF SetPendingInit
<1>5. NoCaps \in CapsOf(ClientCaps) /\ {} \in CapsOf(ClientCaps)
  BY Zenon DEF CapsOf
<1>6. CapsBytes(NoCaps) = 0 /\ CapsBytes({}) = 0 /\ CapsBytes(f.pending) = n
  <2>1. Cardinality({}) = 0
    BY FS_EmptySet, Zenon
  <2>2. CapsBytes(NoCaps) = 0 /\ CapsBytes({}) = 0
    BY <2>1, Zenon DEF CapsBytes
  <2>. QED BY <1>3, <2>2, Zenon
<1>. HIDE DEF n, m, f
<1>7. 0 - n \in Int /\ (0 - n) + n - 0 = 0 /\ (0 - n) + n - m = 0 - m
  BY <1>2
<1>8. Off([f EXCEPT !.pending = NoCaps], (0 - n) + n - 0)
  BY <1>3, <1>5, <1>6, <1>7, PendingOff, Zenon
<1>9. Off([f EXCEPT !.pending = {}], (0 - n) + n - 0)
  BY <1>3, <1>5, <1>6, <1>7, PendingOff, Zenon
<1>10. Off([f EXCEPT !.pending = caps], (0 - n) + n - m)
  BY <1>3, <1>6, <1>7, PendingOff, Zenon DEF m
<1>11. Off(Charge([f EXCEPT !.pending = caps], m), 0)
  <2>1. Off([f EXCEPT !.pending = caps], 0 - m)
    BY <1>7, <1>10, Zenon
  <2>. QED BY <1>2, <2>1, Charged, Zenon
<1>12. CASE caps = NoCaps
  BY <1>4, <1>7, <1>8, <1>12, Zenon
<1>13. CASE caps # NoCaps /\ Fits(f, m)
  BY <1>4, <1>11, <1>13, Zenon
<1>14. CASE caps # NoCaps /\ ~Fits(f, m)
  BY <1>4, <1>7, <1>9, <1>14, Zenon
<1>. QED BY <1>12, <1>13, <1>14, Zenon

(* The fields the ledger does not count.                                   *)
LEMMA SameBooks ==
  ASSUME NEW w, NEW v \in Tables, Off(w, 0), Same(w, v), v.bytes = w.bytes
  PROVE  Off(v, 0)
<1>1. Held(v) = Held(w) /\ Kept(v) = Kept(w) /\ (Apart(w) => Apart(v))
  BY SameHeld, Zenon
<1>. QED BY <1>1, Zenon DEF Off

LEMMA VersionBooks ==
  ASSUME NEW w, Off(w, 0), NEW x \in {"none", "v25", "v26"}
  PROVE  Off([w EXCEPT !.version = x], 0)
<1>. DEFINE v == [w EXCEPT !.version = x]
<1>1. w \in Tables
  BY Zenon DEF Off
<1>2. v \in Tables /\ Same(w, v) /\ v.bytes = w.bytes
  BY <1>1, Zenon DEF Tables, Same, SameRequests, SameStrings
<1>. HIDE DEF v
<1>3. Off(v, 0)
  BY <1>2, SameBooks, Zenon
<1>. QED BY <1>3, Zenon DEF v

LEMMA StageBooks ==
  ASSUME NEW w, Off(w, 0), NEW x \in {"pending", "awaiting", "operational"}
  PROVE  Off([w EXCEPT !.init = x], 0)
<1>. DEFINE v == [w EXCEPT !.init = x]
<1>1. w \in Tables
  BY Zenon DEF Off
<1>2. v \in Tables /\ Same(w, v) /\ v.bytes = w.bytes
  BY <1>1, Zenon DEF Tables, Same, SameRequests, SameStrings
<1>. HIDE DEF v
<1>3. Off(v, 0)
  BY <1>2, SameBooks, Zenon
<1>. QED BY <1>3, Zenon DEF v

(* The result of an initialize moves the offer over and displaces the rest. *)
LEMMA CommitBooks ==
  ASSUME NEW w, Off(w, 0), NEW caps \in SUBSET ServerCaps
  PROVE  Off(CommitInitialize(w, caps), 0)
<1>. DEFINE n1 == CapsBytes(w.client_caps)
            n2 == CapsBytes(w.server_caps)
            m == CapsBytes(caps)
            c == IF w.pending = NoCaps THEN {} ELSE w.pending
            r1 == Refund(w, n1)
            moved == [r1 EXCEPT !.client_caps = c, !.pending = NoCaps]
            r2 == Refund(moved, n2)
            freed == [r2 EXCEPT !.server_caps = {}]
            u == [freed EXCEPT !.server_caps = caps]
            z == IF Fits(freed, m) THEN Charge(u, m) ELSE freed
<1>1. /\ w \in Tables /\ w.pending \in CapsOf(ClientCaps)
      /\ w.client_caps \in SUBSET ClientCaps /\ w.server_caps \in SUBSET ServerCaps
  BY Zenon DEF Off, Tables
<1>2. n1 \in Nat /\ n2 \in Nat /\ m \in Nat
  BY <1>1, CapsCard, Zenon DEF CapsOf
<1>3. c \in SUBSET ClientCaps /\ NoCaps \in CapsOf(ClientCaps)
  BY <1>1, Zenon DEF CapsOf
<1>4. CommitInitialize(w, caps) = [z EXCEPT !.init = "awaiting"]
  BY Zenon DEF CommitInitialize
<1>5. CapsBytes({}) = 0 /\ CapsBytes(NoCaps) = 0
  <2>1. Cardinality({}) = 0
    BY FS_EmptySet, Zenon
  <2>. QED BY <2>1, Zenon DEF CapsBytes
<1>6. CapsBytes(c) = CapsBytes(w.pending)
  <2>1. CASE w.pending = NoCaps
    BY <1>5, <2>1, Zenon
  <2>2. CASE w.pending # NoCaps
    BY <2>2, Zenon
  <2>. QED BY <2>1, <2>2, Zenon
<1>7. n1 + n2 <= Lists(w) /\ Lists(w) \in Nat
  <2>1. IsFiniteSet(Kept(w))
    BY Zenon DEF Off
  <2>. QED BY <1>1, <2>1, HeldNat, ListsWeigh, Zenon
<1>. HIDE DEF n1, n2, m, c
<1>8. n1 <= Lists(w)
  BY <1>2, <1>7
<1>9. Off(r1, 0 - n1) /\ Same(w, r1)
  BY <1>2, <1>8, RefundsList, Zenon
<1>. HIDE DEF r1
<1>10. r1 \in Tables
  BY <1>9, Zenon DEF Off
<1>11. moved \in Tables /\ SameRequests(r1, moved) /\ moved.bytes = r1.bytes
  BY <1>3, <1>10, Zenon DEF Tables, SameRequests
<1>12. /\ moved.pending = NoCaps /\ moved.client_caps = c
       /\ moved.server_caps = r1.server_caps /\ moved.subscribed = r1.subscribed
       /\ moved.elicitations = r1.elicitations /\ moved.log_level = r1.log_level
  BY <1>10, Zenon DEF Tables
<1>. HIDE DEF moved
<1>13. Parts(r1) /\ Parts(moved)
  BY <1>10, <1>11, ListParts, Zenon
<1>14. /\ CapsBytes(r1.pending) = CapsBytes(c) /\ CapsBytes(r1.client_caps) = n1
       /\ CapsBytes(moved.pending) = 0 /\ CapsBytes(moved.server_caps) = n2
  BY <1>5, <1>6, <1>9, <1>12, Zenon DEF Same, SameStrings, n1, n2
<1>15. Lists(moved) + n1 = Lists(r1) + 0
  BY <1>12, <1>13, <1>14 DEF Parts, Lists
<1>16. Off(moved, 0)
  <2>1. 0 - n1 \in Int /\ 0 \in Nat /\ (0 - n1) + n1 - 0 = 0
    BY <1>2
  <2>2. Off(moved, (0 - n1) + n1 - 0)
    BY <1>2, <1>9, <1>11, <1>15, <2>1, ListsOff, Zenon
  <2>. QED BY <2>1, <2>2, Zenon
<1>17. n2 <= Lists(moved)
  BY <1>13, <1>14 DEF Parts, Lists
<1>18. Off(r2, 0 - n2) /\ Same(moved, r2)
  BY <1>2, <1>16, <1>17, RefundsList, Zenon
<1>. HIDE DEF r2
<1>19. CapsBytes(r2.server_caps) = n2
  BY <1>14, <1>18, Zenon DEF Same, SameStrings
<1>20. Off(freed, 0) /\ CapsBytes(freed.server_caps) = 0
  <2>1. 0 - n2 \in Int /\ (0 - n2) + n2 - 0 = 0 /\ {} \in SUBSET ServerCaps
    BY <1>2
  <2>2. Off(freed, (0 - n2) + n2 - 0)
    BY <1>5, <1>18, <1>19, <2>1, ServerOff, Zenon
  <2>3. r2 \in Tables
    BY <1>18, Zenon DEF Off
  <2>4. freed.server_caps = {}
    BY <2>3, Zenon DEF Tables
  <2>. HIDE DEF freed
  <2>. QED BY <1>5, <2>1, <2>2, <2>4, Zenon
<1>. HIDE DEF freed
<1>21. Off(Charge(u, m), 0)
  <2>1. 0 \in Int /\ 0 + 0 - m = 0 - m
    BY <1>2
  <2>2. Off(u, 0 + 0 - m)
    BY <1>20, <2>1, ServerOff, Zenon DEF m
  <2>. HIDE DEF u
  <2>3. Off(u, 0 - m)
    BY <2>1, <2>2, Zenon
  <2>. QED BY <1>2, <2>3, Charged, Zenon
<1>22. Off(z, 0)
  <2>1. CASE Fits(freed, m)
    BY <1>21, <2>1, Zenon
  <2>2. CASE ~Fits(freed, m)
    BY <1>20, <2>2, Zenon
  <2>. QED BY <2>1, <2>2, Zenon
<1>. HIDE DEF z
<1>. QED BY <1>4, <1>22, StageBooks, Zenon

LEMMA OnResultBooks ==
  ASSUME NEW w, Off(w, 0), NEW e \in Entries, NEW k, EntryOK(k, e), Named(e),
         NEW caps \in SUBSET ServerCaps
  PROVE  Off(OnResult(w, e, caps), 0)
<1>1. CASE e.method = "initialize"
  <2>1. OnResult(w, e, caps) = CommitInitialize(w, caps)
    BY <1>1 DEF OnResult
  <2>. QED BY <2>1, CommitBooks, Zenon
<1>2. CASE e.method = "subscribe"
  <2>1. OnResult(w, e, caps) = Subscribe(w, e.uri)
    BY <1>2 DEF OnResult
  <2>2. e.uri \in Uris
    BY <1>2, Zenon DEF EntryOK
  <2>. QED BY <2>1, <2>2, SubscribeBooks, Zenon
<1>3. CASE e.method = "unsubscribe"
  <2>1. OnResult(w, e, caps) = Unsubscribe(w, e.uri)
    BY <1>3 DEF OnResult
  <2>. QED BY <2>1, UnsubscribeBooks, Zenon
<1>4. CASE e.method = "setLevel"
  <2>1. OnResult(w, e, caps) = SetLogLevel(w, e.level)
    BY <1>4 DEF OnResult
  <2>2. e.level \in Levels
    BY <1>4, Zenon DEF Named
  <2>. QED BY <2>1, <2>2, SetLogLevelBooks, Zenon
<1>5. CASE e.method \notin {"initialize", "subscribe", "unsubscribe", "setLevel"}
  <2>1. OnResult(w, e, caps) = w
    BY <1>5 DEF OnResult
  <2>. QED BY <2>1, Zenon
<1>. QED BY <1>1, <1>2, <1>3, <1>4, <1>5, Zenon

LEMMA ForwardBooks ==
  ASSUME NEW w, Off(w, 0), NEW m, NEW ver \in {"v25", "v26"}, NEW caps \in CapsOf(ClientCaps)
  PROVE  Off(OnRequestForwarded(w, m, ver, caps), 0)
<1>. DEFINE x == IF w.version = "none" THEN [w EXCEPT !.version = ver] ELSE w
<1>1. OnRequestForwarded(w, m, ver, caps) = IF m = "initialize" THEN SetPendingInit(x, caps) ELSE x
  BY Zenon DEF OnRequestForwarded
<1>2. Off(x, 0)
  <2>1. CASE w.version = "none"
    BY <2>1, VersionBooks, Zenon
  <2>2. CASE w.version # "none"
    BY <2>2, Zenon
  <2>. QED BY <2>1, <2>2, Zenon
<1>. HIDE DEF x
<1>3. Off(SetPendingInit(x, caps), 0)
  BY <1>2, SetPendingBooks, Zenon
<1>. QED BY <1>1, <1>2, <1>3, Zenon

LEMMA RollbackBooks ==
  ASSUME NEW w, Off(w, 0), NEW u \in Undos
  PROVE  Off(RollbackForwarded(w, u), 0)
<1>. DEFINE a == RemoveRequest(w, u.key)
            b == [a EXCEPT !.version = u.version]
            c == SetPendingInit(b, u.pending)
            el == CHOOSE el \in u.elicitation : TRUE
            d == DropElicitation(c, el)
<1>1. /\ u.key \in Keys /\ u.version \in {"none", "v25", "v26"}
      /\ u.pending \in CapsOf(ClientCaps)
  BY Zenon DEF Undos
<1>2. RollbackForwarded(w, u) = IF u.elicitation = {} THEN c ELSE d
  BY Zenon DEF RollbackForwarded
<1>. HIDE DEF el
<1>3. Off(a, 0)
  BY <1>1, RemoveBooks, Zenon
<1>. HIDE DEF a
<1>4. Off(b, 0)
  BY <1>1, <1>3, VersionBooks, Zenon
<1>. HIDE DEF b
<1>5. Off(c, 0)
  BY <1>1, <1>4, SetPendingBooks, Zenon
<1>. HIDE DEF c
<1>6. Off(d, 0)
  BY <1>5, DropBooks, Zenon
<1>. HIDE DEF d
<1>. QED BY <1>2, <1>5, <1>6, Zenon


-----------------------------------------------------------------------------
(* Every step of either loop keeps the books right.                         *)

LEMMA NamedEntry ==
  ASSUME NEW m, NEW uri, NEW level, NEW filters, m = "setLevel" => level \in Levels
  PROVE  Named(Tracked(m, uri, level, filters))
<1>1. /\ Tracked(m, uri, level, filters).method = m
      /\ Tracked(m, uri, level, filters).level = level
  BY Zenon DEF Tracked
<1>. QED BY <1>1, Zenon DEF Named

LEMMA EntryNotices ==
  ASSUME Off(wire, 0), NEW id,
         C2sCancel(id) \/ S2cCancel(id) \/ S2cEndSubscription(id) \/ S2cAcknowledged(id)
  PROVE  Off(wire', 0)
<1>1. CASE C2sCancel(id) \/ S2cCancel(id)
  <2>1. PICK k \in Live(wire) : wire' = Cancelled(wire, k)
    BY <1>1, Zenon DEF C2sCancel, S2cCancel
  <2>. QED BY <2>1, CancelledBooks, Zenon
<1>2. CASE S2cEndSubscription(id)
  <2>1. PICK k \in Live(wire) : wire' = EndSubscription(wire, k)
    BY <1>2, Zenon DEF S2cEndSubscription
  <2>. QED BY <2>1, EndBooks, Zenon
<1>3. CASE S2cAcknowledged(id)
  <2>1. PICK k \in Live(wire) : \E uris \in SUBSET wire.requests[k].requested :
                                  wire' = Acked(wire, k, uris)
    BY <1>3, Zenon DEF S2cAcknowledged
  <2>2. PICK uris \in SUBSET wire.requests[k].requested : wire' = Acked(wire, k, uris)
    BY <2>1, Zenon
  <2>3. wire.requests[k].requested \in SUBSET Uris
    BY LiveBooks, Zenon DEF Entries
  <2>4. uris \in SUBSET Uris
    BY <2>3, Zenon
  <2>. QED BY <2>2, <2>4, AckedBooks, Zenon
<1>. QED BY <1>1, <1>2, <1>3, Zenon

LEMMA AnswerLedger ==
  ASSUME Off(wire, 0), WireInv
  PROVE  /\ \A id \in ServerIds : C2sResponse(id) => Off(wire', 0)
         /\ \A id \in ClientIds \cup InternalIds : S2cError(id) => Off(wire', 0)
         /\ \A id \in ClientIds \cup InternalIds : S2cResult(id) => Off(wire', 0)
<1>1. ASSUME NEW id \in ServerIds, C2sResponse(id)
      PROVE  Off(wire', 0)
  <2>1. <<"S2C", id>> \in Keys
    BY KeyKinds, Zenon
  <2>2. wire' = RemoveRequest(wire, <<"S2C", id>>) \/ wire' = wire
    BY <1>1, Zenon DEF C2sResponse
  <2>. QED BY <2>1, <2>2, RemoveBooks, Zenon
<1>2. ASSUME NEW id \in ClientIds \cup InternalIds, S2cError(id)
      PROVE  Off(wire', 0)
  <2>. DEFINE k == <<"C2S", id>>
  <2>1. k \in Keys
    BY KeyKinds, Zenon
  <2>2. \/ wire' = wire \/ wire' = RemoveRequest(wire, k)
        \/ \E el \in Elicitations : wire' = TrackElicitation(RemoveRequest(wire, k), el)
    BY <1>2, Zenon DEF S2cError
  <2>3. Off(RemoveRequest(wire, k), 0)
    BY <2>1, RemoveBooks, Zenon
  <2>. HIDE DEF k
  <2>. QED BY <2>2, <2>3, TrackBooks, Zenon
<1>3. ASSUME NEW id \in ClientIds \cup InternalIds, S2cResult(id)
      PROVE  Off(wire', 0)
  <2>. DEFINE k == <<"C2S", id>>
              e == wire.requests[k]
  <2>1. k \in Keys /\ Sound(wire)
    BY KeyKinds, Zenon DEF WireInv, TableInv
  <2>2. CASE ~Correlates(wire, k)
    BY <1>3, <2>2, Zenon DEF S2cResult
  <2>3. CASE Correlates(wire, k)
    <3>1. PICK caps \in IF e.method = "initialize" THEN SUBSET ServerCaps ELSE {{}} :
            wire' = IF e.method = "listen" THEN MarkResponded(wire, k)
                    ELSE OnResult(RemoveRequest(wire, k), e, caps)
      BY <1>3, <2>3, Zenon DEF S2cResult
    <3>2. k \in Live(wire) /\ caps \in SUBSET ServerCaps
      BY <2>3, Zenon DEF Correlates
    <3>. HIDE DEF k
    <3>3. e \in Entries /\ Named(e) /\ EntryOK(k, e)
      BY <2>1, <3>2, LiveBooks, Zenon DEF Sound, Live
    <3>4. Off(MarkResponded(wire, k), 0) /\ Off(RemoveRequest(wire, k), 0)
      BY <2>1, <3>2, MarkBooks, RemoveBooks, Zenon
    <3>. HIDE DEF e
    <3>5. Off(OnResult(RemoveRequest(wire, k), e, caps), 0)
      BY <3>2, <3>3, <3>4, OnResultBooks, Zenon
    <3>. QED BY <3>1, <3>4, <3>5, Zenon
  <2>. QED BY <2>2, <2>3, Zenon
<1>. QED BY <1>1, <1>2, <1>3, Zenon

LEMMA ClientRequestBooks ==
  ASSUME Off(wire, 0), NEW id \in ClientIds, C2sRequest(id)
  PROVE  Off(wire', 0)
<1>. DEFINE k == <<"C2S", id>>
<1>1. k \in Keys /\ k \in C2sKeys
  BY KeyKinds, Zenon
<1>2. PICK m \in Methods \ {"tools/list", "elicitation"}, declares26 \in BOOLEAN :
     \E v \in RequestVersion(wire, m, declares26) \cap Revisions,
        uri \in IF m \in {"subscribe", "unsubscribe"} THEN Uris ELSE {NoUri},
        level \in IF m = "setLevel" THEN Levels ELSE {NoLevel},
        filters \in IF m = "listen" THEN SUBSET Uris ELSE {{}},
        caps \in IF m = "initialize" THEN SUBSET ClientCaps ELSE {{}} :
       /\ AllowedC2s(wire, v, m, uri)
       /\ m = "initialize" => OneInitialize
       /\ \E w \in Registered(wire, k, Tracked(m, uri, level, filters)) :
            /\ wire' = OnRequestForwarded(w, m, v, caps)
            /\ c2s' = Writing(Undo(w, k, {}))
       /\ hist' = IF m = "initialize" THEN [hist EXCEPT !.offered[id] = caps] ELSE hist
  BY Zenon DEF C2sRequest
<1>3. PICK v \in RequestVersion(wire, m, declares26) \cap Revisions,
        uri \in IF m \in {"subscribe", "unsubscribe"} THEN Uris ELSE {NoUri},
        level \in IF m = "setLevel" THEN Levels ELSE {NoLevel},
        filters \in IF m = "listen" THEN SUBSET Uris ELSE {{}},
        caps \in IF m = "initialize" THEN SUBSET ClientCaps ELSE {{}} :
       /\ AllowedC2s(wire, v, m, uri)
       /\ m = "initialize" => OneInitialize
       /\ \E w \in Registered(wire, k, Tracked(m, uri, level, filters)) :
            /\ wire' = OnRequestForwarded(w, m, v, caps)
            /\ c2s' = Writing(Undo(w, k, {}))
       /\ hist' = IF m = "initialize" THEN [hist EXCEPT !.offered[id] = caps] ELSE hist
  BY <1>2, Zenon
<1>. DEFINE e == Tracked(m, uri, level, filters)
<1>4. PICK w \in Registered(wire, k, e) : wire' = OnRequestForwarded(w, m, v, caps)
  BY <1>3, Zenon
<1>5. v \in {"v25", "v26"} /\ caps \in CapsOf(ClientCaps)
  <2>1. v \in {"v25", "v26"}
    BY RevisionsKnown, Zenon
  <2>2. caps \in CapsOf(ClientCaps)
    BY Zenon DEF CapsOf
  <2>. QED BY <2>1, <2>2, Zenon
<1>6. uri \in Uris \cup {NoUri} /\ (m = "subscribe" => uri \in Uris)
  BY Zenon
<1>7. /\ level \in Levels \cup {NoLevel} /\ filters \in SUBSET Uris /\ m \in Methods
      /\ (m = "setLevel" => level \in Levels)
  BY Zenon
<1>. HIDE DEF k
<1>8. e \in Entries /\ Named(e)
  <2>1. EntryFor(e, k, m)
    BY <1>1, <1>6, <1>7, TrackedOK, Zenon
  <2>. QED BY <1>7, <2>1, NamedEntry, Zenon DEF EntryFor
<1>. HIDE DEF e
<1>9. Off(w, 0)
  BY <1>1, <1>4, <1>8, RegisterBooks, Zenon
<1>. QED BY <1>4, <1>5, <1>9, ForwardBooks, Zenon

LEMMA ServerRequestBooks ==
  ASSUME Off(wire, 0)
  PROVE  /\ \A id \in ServerIds : S2cRequest(id) => Off(wire', 0)
         /\ \A id \in InternalIds : S2cInternal(id) => Off(wire', 0)
<1>1. ASSUME NEW k \in Keys, NEW m \in {"ping", "elicitation", "tools/list"}
      PROVE  \A w \in Registered(wire, k, Tracked(m, NoUri, NoLevel, {})) : Off(w, 0)
  <2>. DEFINE e == Tracked(m, NoUri, NoLevel, {})
  <2>1. m \in Methods /\ m # "initialize" /\ m # "subscribe" /\ m # "setLevel"
    BY DEF Methods
  <2>2. {} \in SUBSET Uris /\ NoUri \in Uris \cup {NoUri} /\ NoLevel \in Levels \cup {NoLevel}
    BY Zenon
  <2>3. EntryFor(e, k, m)
    BY <2>1, <2>2, TrackedOK, Zenon
  <2>4. e \in Entries /\ Named(e)
    BY <2>1, <2>3, NamedEntry, Zenon DEF EntryFor
  <2>. HIDE DEF e
  <2>5. \A w \in Registered(wire, k, e) : Off(w, 0)
    BY <2>4, RegisterBooks, Zenon
  <2>. QED BY <2>5, Zenon DEF e
<1>2. ASSUME NEW id \in ServerIds, S2cRequest(id)
      PROVE  Off(wire', 0)
  <2>. DEFINE k == <<"S2C", id>>
  <2>1. k \in Keys
    BY KeyKinds, Zenon
  <2>2. PICK m \in {"ping", "elicitation"} :
          \E els \in IF m = "elicitation" THEN {{el} : el \in Elicitations} \cup {{}} ELSE {{}} :
            \E w \in Registered(wire, k, Tracked(m, NoUri, NoLevel, {})) :
              LET new == {el \in els : CanTrack(w, el)}
              IN wire' = IF new = {} THEN w ELSE TrackElicitation(w, CHOOSE el \in new : TRUE)
    BY <1>2, Zenon DEF S2cRequest
  <2>3. PICK els \in IF m = "elicitation" THEN {{el} : el \in Elicitations} \cup {{}} ELSE {{}},
             w \in Registered(wire, k, Tracked(m, NoUri, NoLevel, {})) :
          LET new == {el \in els : CanTrack(w, el)}
          IN wire' = IF new = {} THEN w ELSE TrackElicitation(w, CHOOSE el \in new : TRUE)
    BY <2>2, Zenon
  <2>. DEFINE new == {el \in els : CanTrack(w, el)}
              el == CHOOSE el \in new : TRUE
  <2>4. els \in SUBSET Elicitations
    BY <2>3, Zenon
  <2>5. new # {} => el \in Elicitations
    BY <2>4, Zenon
  <2>6. wire' = (IF new = {} THEN w ELSE TrackElicitation(w, el))
    BY <2>3, Zenon
  <2>. HIDE DEF k, new, el
  <2>7. Off(w, 0)
    BY <1>1, <2>1, <2>2, <2>3, Zenon
  <2>. QED BY <2>5, <2>6, <2>7, TrackBooks, Zenon
<1>3. ASSUME NEW id \in InternalIds, S2cInternal(id)
      PROVE  Off(wire', 0)
  <2>1. <<"C2S", id>> \in Keys
    BY KeyKinds, Zenon
  <2>2. \/ wire' \in Registered(wire, <<"C2S", id>>, Tracked("tools/list", NoUri, NoLevel, {}))
        \/ wire' = wire
    BY <1>3, Zenon DEF S2cInternal
  <2>. QED BY <1>1, <2>1, <2>2, Zenon
<1>. QED BY <1>2, <1>3, Zenon

LEMMA UnwindBooks ==
  ASSUME WireInv, Off(wire, 0), C2sStale \/ C2sWriteFails \/ S2cWriteFails
  PROVE  Off(wire', 0)
<1>1. \/ c2s.pc = "write" /\ wire' = RollbackForwarded(wire, c2s.undo)
      \/ s2c.pc = "write" /\ wire' = RollbackForwarded(wire, s2c.undo)
      \/ wire' = wire
  BY Zenon DEF C2sStale, C2sWriteFails, S2cWriteFails
<1>2. (c2s.pc = "write" => c2s.undo \in Undos) /\ (s2c.pc = "write" => s2c.undo \in Undos)
  BY TokensTyped, Zenon DEF WireInv, TableInv
<1>. QED BY <1>1, <1>2, RollbackBooks, Zenon

LEMMA StepBooks ==
  ASSUME WireInv, Off(wire, 0), [Next]_vars
  PROVE  Off(wire', 0)
<1>1. CASE UNCHANGED vars \/ C2sWrite \/ S2cWrite
  <2>1. wire' = wire
    BY <1>1, Zenon DEF vars, C2sWrite, S2cWrite
  <2>. QED BY <2>1, Zenon
<1>2. CASE C2sInitialized
  <2>1. wire' = [wire EXCEPT !.init = "operational"]
    BY <1>2, Zenon DEF C2sInitialized
  <2>2. "operational" \in {"pending", "awaiting", "operational"}
    BY Zenon
  <2>. QED BY <2>1, <2>2, StageBooks, Zenon
<1>3. CASE S2cElicitationComplete
  <2>1. PICK el \in wire.elicitations : wire' = DropElicitation(wire, el)
    BY <1>3, Zenon DEF S2cElicitationComplete
  <2>. QED BY <2>1, DropBooks, Zenon
<1>4. CASE C2sStep
  BY <1>1, <1>2, <1>4, ClientRequestBooks, EntryNotices, UnwindBooks, AnswerLedger,
     Zenon DEF C2sStep
<1>5. CASE S2cStep
  BY <1>1, <1>3, <1>5, ServerRequestBooks, EntryNotices, UnwindBooks, AnswerLedger,
     Zenon DEF S2cStep
<1>. QED BY <1>1, <1>4, <1>5, Zenon DEF Next

LEMMA InitBooks == Init => Off(wire, 0)
<1>. SUFFICES ASSUME Init PROVE Off(wire, 0)
  OBVIOUS
<1>1. /\ wire.requests = [k \in Keys |-> NoEntry] /\ wire.retired = {}
      /\ wire.elicitations = {} /\ wire.subscribed = {} /\ wire.bytes = 0
      /\ wire.pending = NoCaps /\ wire.client_caps = {} /\ wire.server_caps = {}
      /\ wire.log_level = NoLevel
  BY Zenon DEF Init
<1>2. wire \in Tables
  BY InitWireInv, Zenon DEF WireInv, TableInv, Sound
<1>3. \A k \in Keys : wire.requests[k] = NoEntry
  BY <1>1, Zenon
<1>4. Live(wire) = {} /\ Apart(wire)
  BY <1>3, Zenon DEF Live, Apart
<1>5. Kept(wire) = {}
  BY <1>4, Zenon DEF Kept
<1>6. IsFiniteSet({}) /\ Cardinality({}) = 0
  BY FS_EmptySet, Zenon
<1>7. CapsBytes(NoCaps) = 0 /\ CapsBytes({}) = 0 /\ SlotBytes(NoLevel, NoLevel) = 0
  BY <1>6, Zenon DEF CapsBytes, SlotBytes
<1>8. Rows(wire) = 0 + 0 /\ Lists(wire) = 0 + 0 + 0 + 0 + 0 + 0
  BY <1>1, <1>4, <1>5, <1>6, <1>7, Zenon DEF Rows, Lists
<1>9. Held(wire) = 0
  BY <1>1, <1>6, <1>8 DEF Held
<1>10. wire.bytes = Held(wire) + 0
  BY <1>1, <1>9
<1>. QED BY <1>2, <1>4, <1>5, <1>6, <1>10, Zenon DEF Off

LEMMA BooksBalance ==
  ASSUME Off(wire, 0)
  PROVE  LedgerBalanced
<1>. DEFINE l == Cardinality(Live(wire))
            s == Cardinality(Kept(wire))
            r == Cardinality(wire.retired)
            a == CapsBytes(wire.pending)
            b == CapsBytes(wire.client_caps)
            c == CapsBytes(wire.server_caps)
            d == Cardinality(wire.subscribed)
            f == Cardinality(wire.elicitations)
            g == SlotBytes(wire.log_level, NoLevel)
<1>1. wire \in Tables /\ IsFiniteSet(Kept(wire))
  BY Zenon DEF Off
<1>2. l \in Nat /\ s \in Nat /\ r \in Nat
  BY <1>1, LiveFinite, HeldNat, FS_CardinalityType, Zenon
<1>3. a \in Nat /\ b \in Nat /\ c \in Nat /\ d \in Nat /\ f \in Nat /\ g \in Nat
  BY <1>1, ListParts, Zenon DEF Parts
<1>4. wire.bytes = ((l + s) + r + (a + b + c + d + f + g)) + 0
  BY Zenon DEF Off, Held, Rows, Lists
<1>. HIDE DEF l, s, r, a, b, c, d, f, g
<1>5. wire.bytes = (l + r) * 1 + s + a + b + c + d + f + g
  BY <1>2, <1>3, <1>4
<1>. QED BY <1>5, Zenon DEF LedgerBalanced, KeyBytes, l, s, r, a, b, c, d, f, g

(* The byte ledger is exact, for every set of ids, uris and levels and     *)
(* every limit: wire_bytes is what the collections retain, and what        *)
(* saturating_sub would hide, a refund too many, does not happen.          *)
THEOREM LedgerExact == Spec => []LedgerBalanced
<1>1. WireInv /\ Off(wire, 0) /\ [Next]_vars => Off(wire, 0)'
  BY StepBooks, Zenon
<1>2. Off(wire, 0) => LedgerBalanced
  BY BooksBalance, Zenon
<1>. QED BY <1>1, <1>2, InitBooks, WireCorrect, PTL DEF Spec
=============================================================================
