--------------------------- MODULE WireStateProofs ---------------------------
(***************************************************************************)
(* Proofs about WireState for every set of ids and URIs, every bound and   *)
(* every client.                                                           *)
(***************************************************************************)
EXTENDS WireState, FiniteSetTheorems, TLAPS

Tables == [requests : [Keys -> Entries \cup {NoEntry}], retired : SUBSET Keys,
           version : {"none", "v25", "v26"}, init : {"pending", "awaiting", "operational"},
           pending : CapsOf(ClientCaps), client_caps : SUBSET ClientCaps,
           server_caps : SUBSET ServerCaps, subscribed : SUBSET Uris,
           elicitations : SUBSET Elicitations, log_level : Levels \cup {NoLevel},
           bytes : Nat]

(* An entry answered is a live subscription, a cancelled subscription has  *)
(* ended, a listen is one, a subscribe names its URI, and only a client    *)
(* initializes.                                                            *)
EntryOK(k, e) ==
  /\ e.responded => e.sub \in {"pending_ack", "active"} /\ ~e.cancelled
  /\ e.cancelled /\ e.sub # "none" => e.sub = "ended"
  /\ e.method = "listen" => e.sub # "none"
  /\ e.method = "subscribe" => e.uri \in Uris
  /\ e.method = "initialize" => k \in {"C2S"} \X ClientIds

Sound(w) ==
  /\ w \in Tables
  /\ Cardinality(Live(w)) <= MaxInFlight
  /\ Cardinality(w.retired) <= MaxRetired
  /\ Cardinality(w.elicitations) <= MaxElicit
  /\ Cardinality(w.subscribed) <= MaxSubscribed
  /\ w.bytes <= MaxBytes
  /\ \A k \in Keys : w.requests[k] # NoEntry => EntryOK(k, w.requests[k])

C2sKeys == {"C2S"} \X ClientIds
S2cKeys == ({"C2S"} \X InternalIds) \cup ({"S2C"} \X ServerIds)

TableInv ==
  /\ TypeOK
  /\ Sound(wire)
  /\ c2s.pc = "write" => c2s.undo.key \in C2sKeys
  /\ s2c.pc = "write" => s2c.undo.key \in S2cKeys

(* An id whose request was or is being written stands for that request     *)
(* until it is answered: it is live and unanswered, or retired.            *)
Unanswered(w, k) == w.requests[k] # NoEntry /\ ~w.requests[k].responded
Accounted(w, k) == k \in w.retired \/ Unanswered(w, k)
Awaits(k) == \/ k \in owed
             \/ c2s.pc = "write" /\ c2s.undo.key = k
             \/ s2c.pc = "write" /\ s2c.undo.key = k

OwedInv ==
  /\ \A k \in Keys : Awaits(k) => Accounted(wire, k)
  /\ c2s.pc = "write" => c2s.undo.key \notin owed
  /\ s2c.pc = "write" => s2c.undo.key \notin owed

(* While the session is open, a request being forwarded settled the        *)
(* version, and once one reached the server an undo restores what is there. *)
VersionInv ==
  session = "open" =>
    /\ c2s.pc = "write" => wire.version # "none"
    /\ hist.reached => /\ wire.version # "none"
                       /\ c2s.pc = "write" => c2s.undo.version = wire.version

(* While the session is open, capabilities are offered only in a 2025      *)
(* handshake, and the undo of a tools/call brings no offer back.           *)
OfferInv ==
  session = "open" =>
    /\ wire.init # "pending" => wire.pending = NoCaps
    /\ wire.pending # NoCaps => wire.version = "v25"
    /\ c2s.pc = "write" /\ wire.requests[c2s.undo.key].method = "tools/call" =>
         c2s.undo.pending = NoCaps

WireInv == TableInv /\ OwedInv /\ VersionInv /\ OfferInv

(* What every step gives: the invariant, and the settled version.          *)
Preserved == /\ WireInv'
             /\ hist.reached /\ session' = "open" => wire'.version = wire.version

-----------------------------------------------------------------------------
(* Finite sets and the ledger.                                             *)

LEMMA KeysFinite == IsFiniteSet(Keys)
<1>1. IsFiniteSet({"C2S"} \X (ClientIds \cup InternalIds))
  BY IdsFinite, FS_Singleton, FS_Union, FS_Product, Zenon
<1>2. IsFiniteSet({"S2C"} \X ServerIds)
  BY IdsFinite, FS_Singleton, FS_Product, Zenon
<1>. QED BY <1>1, <1>2, FS_Union, Zenon DEF Keys

LEMMA SubsetCard ==
  ASSUME NEW T, IsFiniteSet(T), NEW S \in SUBSET T
  PROVE  IsFiniteSet(S) /\ Cardinality(S) \in Nat
  BY FS_Subset, FS_CardinalityType, Zenon

LEMMA CapsCard ==
  ASSUME NEW caps \in CapsOf(ClientCaps) \cup SUBSET ServerCaps
  PROVE  CapsBytes(caps) \in Nat
<1>1. IsFiniteSet(ClientCaps)
  BY FS_Singleton, Zenon DEF ClientCaps
<1>2. IsFiniteSet(ServerCaps)
  <2>1. ServerCaps = {"resources.subscribe"} \cup {"logging"}
    BY Zenon DEF ServerCaps
  <2>2. IsFiniteSet({"resources.subscribe"}) /\ IsFiniteSet({"logging"})
    BY FS_Singleton, Zenon
  <2>. QED BY <2>1, <2>2, FS_Union, Zenon
<1>3. caps # NoCaps => Cardinality(caps) \in Nat
  BY <1>1, <1>2, SubsetCard, Zenon DEF CapsOf
<1>. QED BY <1>3 DEF CapsBytes

LEMMA EntryBytes ==
  ASSUME NEW e \in Entries
  PROVE  RequestBytes(e) \in Nat /\ RequestBytes(e) - KeyBytes \in Nat
<1>1. e.requested \in SUBSET Uris /\ e.acked \in SUBSET Uris
  BY Zenon DEF Entries
<1>2. Cardinality(e.requested) \in Nat /\ Cardinality(e.acked) \in Nat
  BY <1>1, IdsFinite, SubsetCard, Zenon
<1>. QED BY <1>2 DEF RequestBytes, KeyBytes, SlotBytes

-----------------------------------------------------------------------------
(* What each operation on the table keeps.                                 *)

SameRequests(w, v) == v.requests = w.requests /\ v.retired = w.retired
SameSession(w, v) == v.version = w.version /\ v.init = w.init /\ v.pending = w.pending
SameLists(w, v) == v.elicitations = w.elicitations /\ v.subscribed = w.subscribed

LEMMA SoundKept ==
  ASSUME NEW w, NEW v \in Tables, Sound(w), SameRequests(w, v), SameLists(w, v),
         v.bytes <= MaxBytes
  PROVE  Sound(v)
<1>1. Live(v) = Live(w)
  BY Zenon DEF Live, SameRequests
<1>. QED BY <1>1, Zenon DEF Sound, SameRequests, SameLists

(* refund gives bytes back and touches nothing else.                       *)
LEMMA RefundKept ==
  ASSUME NEW w \in Tables, NEW n \in Nat
  PROVE  LET v == Refund(w, n)
         IN /\ v \in Tables /\ SameRequests(w, v) /\ SameSession(w, v) /\ SameLists(w, v)
            /\ v.client_caps = w.client_caps /\ v.server_caps = w.server_caps
            /\ v.log_level = w.log_level /\ v.bytes <= w.bytes
<1>. DEFINE b == IF w.bytes >= n THEN w.bytes - n ELSE 0
            v == [w EXCEPT !.bytes = b]
<1>1. w.bytes \in Nat
  BY Zenon DEF Tables
<1>2. b \in Nat /\ b <= w.bytes
  BY <1>1
<1>3. Refund(w, n) = v
  BY Zenon DEF Refund
<1>. HIDE DEF b
<1>4. v \in Tables /\ v.bytes = b
  BY <1>2, Zenon DEF Tables
<1>5. /\ v.requests = w.requests /\ v.retired = w.retired
      /\ v.version = w.version /\ v.init = w.init /\ v.pending = w.pending
      /\ v.elicitations = w.elicitations /\ v.subscribed = w.subscribed
      /\ v.client_caps = w.client_caps /\ v.server_caps = w.server_caps
      /\ v.log_level = w.log_level
  BY Zenon DEF Tables
<1>. QED BY <1>2, <1>3, <1>4, <1>5, Zenon DEF SameRequests, SameSession, SameLists

(* A charge that fits stays within the budget.                             *)
LEMMA ChargeKept ==
  ASSUME NEW w \in Tables, NEW n \in Nat, Fits(w, n)
  PROVE  LET v == Charge(w, n)
         IN /\ v \in Tables /\ SameRequests(w, v) /\ SameSession(w, v) /\ SameLists(w, v)
            /\ v.bytes <= MaxBytes
<1>. DEFINE b == w.bytes + n
            v == [w EXCEPT !.bytes = b]
<1>1. w.bytes \in Nat
  BY Zenon DEF Tables
<1>2. b \in Nat /\ b <= MaxBytes
  BY <1>1 DEF Fits
<1>3. Charge(w, n) = v
  BY Zenon DEF Charge
<1>. HIDE DEF b
<1>4. v \in Tables /\ v.bytes = b
  BY <1>2, Zenon DEF Tables
<1>5. /\ v.requests = w.requests /\ v.retired = w.retired
      /\ v.version = w.version /\ v.init = w.init /\ v.pending = w.pending
      /\ v.elicitations = w.elicitations /\ v.subscribed = w.subscribed
  BY Zenon DEF Tables
<1>. QED BY <1>2, <1>3, <1>4, <1>5, Zenon DEF SameRequests, SameSession, SameLists

Without(w, k) == [w.requests EXCEPT ![k] = NoEntry]

LEMMA LiveFinite ==
  ASSUME NEW w
  PROVE  Live(w) \in SUBSET Keys /\ IsFiniteSet(Live(w)) /\ Cardinality(Live(w)) \in Nat
<1>1. Live(w) \in SUBSET Keys
  BY Zenon DEF Live
<1>. QED BY <1>1, KeysFinite, SubsetCard, Zenon

(* A table that only loses an entry is sound.                              *)
LEMMA FewerSound ==
  ASSUME NEW w, NEW v \in Tables, NEW k \in Keys, Sound(w), v.requests = Without(w, k),
         Cardinality(v.retired) <= MaxRetired, SameLists(w, v), v.bytes <= w.bytes
  PROVE  /\ Sound(v)
         /\ w.requests[k] # NoEntry => Cardinality(Live(v)) = Cardinality(Live(w)) - 1
<1>1. w.requests \in [Keys -> Entries \cup {NoEntry}] /\ w.bytes \in Nat /\ v.bytes \in Nat
  BY Zenon DEF Sound, Tables
<1>2. \A j \in Keys : v.requests[j] = IF j = k THEN NoEntry ELSE w.requests[j]
  BY <1>1 DEF Without
<1>3. Live(v) = Live(w) \ {k}
  BY <1>2, Zenon DEF Live
<1>4. /\ IsFiniteSet(Live(w)) /\ Cardinality(Live(w)) \in Nat
      /\ Cardinality(Live(v)) = IF k \in Live(w) THEN Cardinality(Live(w)) - 1
                                ELSE Cardinality(Live(w))
  BY <1>3, LiveFinite, FS_RemoveElement, Zenon
<1>5. w.bytes <= MaxBytes /\ Cardinality(Live(w)) <= MaxInFlight
  BY Zenon DEF Sound
<1>6. v.bytes <= MaxBytes
  BY <1>1, <1>5, BoundsAreNat
<1>7. Cardinality(Live(v)) <= MaxInFlight
  BY <1>4, <1>5, BoundsAreNat
<1>8. \A j \in Keys : v.requests[j] # NoEntry => EntryOK(j, v.requests[j])
  BY <1>2, Zenon DEF Sound
<1>9. Sound(v)
  BY <1>6, <1>7, <1>8, Zenon DEF Sound, SameLists
<1>10. w.requests[k] # NoEntry => k \in Live(w)
  BY Zenon DEF Live
<1>. QED BY <1>4, <1>9, <1>10, Zenon

(* remove_request, and the retirement of an id.                            *)
LEMMA RemoveKept ==
  ASSUME NEW w, NEW k \in Keys, Sound(w)
  PROVE  LET v == RemoveRequest(w, k)
         IN /\ Sound(v) /\ v.requests = Without(w, k) /\ v.retired = w.retired
            /\ SameSession(w, v) /\ SameLists(w, v)
<1>1. /\ w \in Tables /\ w.requests \in [Keys -> Entries \cup {NoEntry}]
      /\ Cardinality(w.retired) <= MaxRetired
  BY Zenon DEF Sound, Tables
<1>2. CASE w.requests[k] = NoEntry
  <2>1. Without(w, k) = w.requests
    BY <1>1, <1>2 DEF Without
  <2>2. RemoveRequest(w, k) = w
    BY <1>2, Zenon DEF RemoveRequest
  <2>. QED BY <2>1, <2>2, Zenon DEF SameSession, SameLists
<1>3. CASE w.requests[k] # NoEntry
  <2>. DEFINE u == [w EXCEPT !.requests[k] = NoEntry]
              n == RequestBytes(w.requests[k])
              v == Refund(u, n)
  <2>1. w.requests[k] \in Entries
    BY <1>1, <1>3, Zenon
  <2>2. n \in Nat
    BY <2>1, EntryBytes, Zenon
  <2>3. u \in Tables /\ u.requests = Without(w, k)
    BY <1>1, Zenon DEF Tables, Without
  <2>4. /\ u.retired = w.retired /\ u.bytes = w.bytes
        /\ u.version = w.version /\ u.init = w.init /\ u.pending = w.pending
        /\ u.elicitations = w.elicitations /\ u.subscribed = w.subscribed
    BY <1>1, Zenon DEF Tables
  <2>5. RemoveRequest(w, k) = v
    BY <1>3, Zenon DEF RemoveRequest
  <2>. HIDE DEF u, n
  <2>6. /\ v \in Tables /\ SameRequests(u, v) /\ SameSession(u, v) /\ SameLists(u, v)
        /\ v.bytes <= u.bytes
    BY <2>2, <2>3, RefundKept, Zenon
  <2>. HIDE DEF v
  <2>7. /\ v.requests = Without(w, k) /\ v.retired = w.retired /\ v.bytes <= w.bytes
        /\ SameSession(w, v) /\ SameLists(w, v)
    BY <2>3, <2>4, <2>6, Zenon DEF SameRequests, SameSession, SameLists
  <2>8. Cardinality(v.retired) <= MaxRetired
    BY <1>1, <2>7, Zenon
  <2>9. Sound(v)
    BY <2>6, <2>7, <2>8, FewerSound, Zenon
  <2>. QED BY <2>5, <2>7, <2>9, Zenon
<1>. QED BY <1>2, <1>3, Zenon

LEMMA RetireKept ==
  ASSUME NEW w, NEW k \in Live(w), Sound(w), Cardinality(w.retired) < MaxRetired
  PROVE  LET v == Retire(w, k)
         IN /\ Sound(v) /\ v.requests = Without(w, k) /\ v.retired = w.retired \cup {k}
            /\ SameSession(w, v)
            /\ Cardinality(Live(v)) = Cardinality(Live(w)) - 1
<1>. DEFINE u == [w EXCEPT !.requests[k] = NoEntry, !.retired = @ \cup {k}]
            n == RequestBytes(w.requests[k]) - KeyBytes
            v == Refund(u, n)
<1>1. /\ w \in Tables /\ w.requests \in [Keys -> Entries \cup {NoEntry}]
      /\ w.retired \in SUBSET Keys
  BY Zenon DEF Sound, Tables
<1>2. k \in Keys /\ w.requests[k] # NoEntry
  BY Zenon DEF Live
<1>3. w.requests[k] \in Entries
  BY <1>1, <1>2, Zenon
<1>4. n \in Nat
  BY <1>3, EntryBytes, Zenon
<1>5. u \in Tables
  BY <1>1, <1>2, Zenon DEF Tables
<1>6. /\ u.requests = Without(w, k) /\ u.retired = w.retired \cup {k} /\ u.bytes = w.bytes
      /\ u.version = w.version /\ u.init = w.init /\ u.pending = w.pending
      /\ u.elicitations = w.elicitations /\ u.subscribed = w.subscribed
  BY <1>1, Zenon DEF Tables, Without
<1>7. Retire(w, k) = v
  BY Zenon DEF Retire
<1>. HIDE DEF u, n
<1>8. /\ v \in Tables /\ SameRequests(u, v) /\ SameSession(u, v) /\ SameLists(u, v)
      /\ v.bytes <= u.bytes
  BY <1>4, <1>5, RefundKept, Zenon
<1>. HIDE DEF v
<1>9. /\ v.requests = Without(w, k) /\ v.retired = w.retired \cup {k} /\ v.bytes <= w.bytes
      /\ SameSession(w, v) /\ SameLists(w, v)
  BY <1>6, <1>8, Zenon DEF SameRequests, SameSession, SameLists
<1>10. Cardinality(v.retired) <= MaxRetired
  <2>1. IsFiniteSet(w.retired) /\ Cardinality(w.retired) \in Nat
    BY <1>1, KeysFinite, SubsetCard, Zenon
  <2>2. \/ Cardinality(w.retired \cup {k}) = Cardinality(w.retired)
        \/ Cardinality(w.retired \cup {k}) = Cardinality(w.retired) + 1
    BY <2>1, FS_AddElement, Zenon
  <2>. QED BY <1>9, <2>1, <2>2, BoundsAreNat
<1>11. Sound(v) /\ Cardinality(Live(v)) = Cardinality(Live(w)) - 1
  BY <1>2, <1>8, <1>9, <1>10, FewerSound, Zenon
<1>. QED BY <1>7, <1>9, <1>11, Zenon

(* register: the new id was neither live nor retired, and every other      *)
(* entry stays unless its id was retired to make room.                     *)
Registers(w, v, k, e) ==
  /\ Sound(v) /\ SameSession(w, v)
  /\ w.requests[k] = NoEntry /\ k \notin w.retired
  /\ v.requests[k] = e
  /\ w.retired \subseteq v.retired
  /\ \A j \in Keys : j # k => \/ v.requests[j] = w.requests[j]
                              \/ v.requests[j] = NoEntry /\ j \in v.retired

LEMMA RegisterKept ==
  ASSUME NEW w, NEW k \in Keys, NEW e \in Entries, Sound(w), EntryOK(k, e),
         NEW v \in Registered(w, k, e)
  PROVE  Registers(w, v, k, e)
<1>1. PICK r \in Reclaimed(w) : /\ k \notin Live(w) /\ k \notin w.retired
                                /\ Fits(r, RequestBytes(e))
                                /\ v = Charge([r EXCEPT !.requests[k] = e], RequestBytes(e))
  BY Zenon DEF Registered
<1>2. /\ Sound(r) /\ SameSession(w, r) /\ r.requests[k] = NoEntry
      /\ w.retired \subseteq r.retired /\ Cardinality(Live(r)) < MaxInFlight
      /\ \A j \in Keys : \/ r.requests[j] = w.requests[j]
                         \/ r.requests[j] = NoEntry /\ j \in r.retired
  <2>1. CASE Cardinality(Live(w)) < MaxInFlight
    <3>1. r = w
      BY <2>1, Zenon DEF Reclaimed
    <3>. QED BY <1>1, <2>1, <3>1, Zenon DEF SameSession, Live
  <2>2. CASE ~(Cardinality(Live(w)) < MaxInFlight)
    <3>1. PICK d \in Live(w) : Cardinality(w.retired) < MaxRetired /\ r = Retire(w, d)
      BY <2>2, Zenon DEF Reclaimed, Reclaimable
    <3>2. /\ Sound(r) /\ r.requests = Without(w, d) /\ r.retired = w.retired \cup {d}
          /\ SameSession(w, r)
          /\ Cardinality(Live(r)) = Cardinality(Live(w)) - 1
      BY <3>1, RetireKept, Zenon
    <3>3. Cardinality(Live(w)) <= MaxInFlight /\ Cardinality(Live(w)) \in Nat
      BY LiveFinite, Zenon DEF Sound
    <3>4. Cardinality(Live(r)) < MaxInFlight
      BY <3>2, <3>3, BoundsAreNat
    <3>5. w.requests \in [Keys -> Entries \cup {NoEntry}] /\ d \in Keys
      BY Zenon DEF Sound, Tables, Live
    <3>6. \A j \in Keys : r.requests[j] = IF j = d THEN NoEntry ELSE w.requests[j]
      BY <3>2, <3>5 DEF Without
    <3>7. r.requests[k] = NoEntry
      BY <1>1, <3>6, Zenon DEF Live
    <3>. QED BY <3>2, <3>4, <3>6, <3>7, Zenon
  <2>. QED BY <2>1, <2>2, Zenon
<1>. DEFINE u == [r EXCEPT !.requests[k] = e]
            n == RequestBytes(e)
<1>3. r \in Tables /\ r.requests \in [Keys -> Entries \cup {NoEntry}]
  BY <1>2, Zenon DEF Sound, Tables
<1>4. n \in Nat
  BY EntryBytes, Zenon
<1>5. u \in Tables
  BY <1>3, Zenon DEF Tables
<1>6. /\ u.requests = [r.requests EXCEPT ![k] = e] /\ u.retired = r.retired
      /\ u.bytes = r.bytes
      /\ u.version = r.version /\ u.init = r.init /\ u.pending = r.pending
      /\ u.elicitations = r.elicitations /\ u.subscribed = r.subscribed
  BY <1>3, Zenon DEF Tables
<1>7. Fits(u, n) /\ v = Charge(u, n)
  BY <1>1, <1>6, Zenon DEF Fits
<1>. HIDE DEF u, n
<1>8. /\ v \in Tables /\ SameRequests(u, v) /\ SameSession(u, v) /\ SameLists(u, v)
      /\ v.bytes <= MaxBytes
  BY <1>4, <1>5, <1>7, ChargeKept, Zenon
<1>9. /\ v.requests = [r.requests EXCEPT ![k] = e] /\ v.retired = r.retired
      /\ SameSession(w, v) /\ SameLists(r, v)
  BY <1>2, <1>6, <1>8, Zenon DEF SameRequests, SameSession, SameLists
<1>10. \A j \in Keys : v.requests[j] = IF j = k THEN e ELSE r.requests[j]
  BY <1>3, <1>9
<1>11. e # NoEntry
  BY DEF Entries, NoEntry, Methods
<1>12. Live(v) = Live(r) \cup {k} /\ k \notin Live(r)
  <2>1. \A j \in Keys : v.requests[j] # NoEntry <=> r.requests[j] # NoEntry \/ j = k
    <3>1. ASSUME NEW j \in Keys
          PROVE  v.requests[j] # NoEntry <=> r.requests[j] # NoEntry \/ j = k
      <4>1. CASE j = k
        BY <1>10, <1>11, <4>1, Zenon
      <4>2. CASE j # k
        BY <1>10, <4>2, Zenon
      <4>. QED BY <4>1, <4>2, Zenon
    <3>. QED BY <3>1, Zenon
  <2>. QED BY <1>2, <2>1, Zenon DEF Live
<1>13. Cardinality(Live(v)) <= MaxInFlight
  <2>1. IsFiniteSet(Live(r)) /\ Cardinality(Live(r)) \in Nat
    BY LiveFinite, Zenon
  <2>2. Cardinality(Live(v)) = Cardinality(Live(r)) + 1
    BY <1>12, <2>1, FS_AddElement, Zenon
  <2>. QED BY <1>2, <2>1, <2>2, BoundsAreNat
<1>14. \A j \in Keys : v.requests[j] # NoEntry => EntryOK(j, v.requests[j])
  BY <1>2, <1>10, Zenon DEF Sound
<1>15. Sound(v)
  BY <1>2, <1>8, <1>9, <1>13, <1>14, Zenon DEF Sound, SameLists
<1>16. v.requests[k] = e /\ w.retired \subseteq v.retired
  BY <1>2, <1>9, <1>10, Zenon
<1>17. ASSUME NEW j \in Keys, j # k
       PROVE  \/ v.requests[j] = w.requests[j]
              \/ v.requests[j] = NoEntry /\ j \in v.retired
  <2>1. v.requests[j] = r.requests[j]
    BY <1>10, <1>17, Zenon
  <2>. QED BY <1>2, <1>9, <2>1, Zenon
<1>18. w.requests[k] = NoEntry
  BY <1>1, Zenon DEF Live
<1>. QED BY <1>1, <1>9, <1>15, <1>16, <1>17, <1>18, Zenon DEF Registers

(* The operations on the lists leave requests and negotiation alone.       *)
Keeps(w, v) == Sound(v) /\ SameRequests(w, v) /\ SameSession(w, v)

LEMMA KeepsItself == ASSUME NEW w, Sound(w) PROVE Keeps(w, w)
  BY Zenon DEF Keeps, SameRequests, SameSession

LEMMA ListsCard ==
  ASSUME NEW w \in Tables
  PROVE  /\ IsFiniteSet(w.elicitations) /\ Cardinality(w.elicitations) \in Nat
         /\ IsFiniteSet(w.subscribed) /\ Cardinality(w.subscribed) \in Nat
<1>1. w.elicitations \in SUBSET Elicitations /\ w.subscribed \in SUBSET Uris
  BY Zenon DEF Tables
<1>. QED BY <1>1, IdsFinite, SubsetCard, Zenon

LEMMA TrackKept ==
  ASSUME NEW w, Sound(w), NEW el \in Elicitations
  PROVE  Keeps(w, TrackElicitation(w, el))
<1>1. CASE ~CanTrack(w, el)
  BY <1>1, KeepsItself, Zenon DEF TrackElicitation
<1>2. CASE CanTrack(w, el)
  <2>. DEFINE u == [w EXCEPT !.elicitations = @ \cup {el}]
              v == Charge(u, 1)
  <2>1. w \in Tables /\ w.elicitations \in SUBSET Elicitations
    BY Zenon DEF Sound, Tables
  <2>2. u \in Tables
    BY <2>1, Zenon DEF Tables
  <2>3. /\ u.elicitations = w.elicitations \cup {el} /\ u.subscribed = w.subscribed
        /\ u.bytes = w.bytes /\ SameRequests(w, u) /\ SameSession(w, u)
    BY <2>1, Zenon DEF Tables, SameRequests, SameSession
  <2>4. Fits(u, 1) /\ TrackElicitation(w, el) = v
    BY <1>2, <2>3, Zenon DEF Fits, CanTrack, TrackElicitation
  <2>. HIDE DEF u
  <2>5. /\ v \in Tables /\ SameRequests(u, v) /\ SameSession(u, v) /\ SameLists(u, v)
        /\ v.bytes <= MaxBytes
    BY <2>2, <2>4, ChargeKept, Zenon
  <2>. HIDE DEF v
  <2>6. Cardinality(v.elicitations) <= MaxElicit
    <3>1. IsFiniteSet(w.elicitations) /\ Cardinality(w.elicitations) \in Nat
      BY <2>1, ListsCard, Zenon
    <3>2. el \notin w.elicitations /\ Cardinality(w.elicitations) < MaxElicit
      BY <1>2, Zenon DEF CanTrack
    <3>3. Cardinality(w.elicitations \cup {el}) = Cardinality(w.elicitations) + 1
      BY <3>1, <3>2, FS_AddElement, Zenon
    <3>4. v.elicitations = w.elicitations \cup {el}
      BY <2>3, <2>5, Zenon DEF SameLists
    <3>. QED BY <3>1, <3>2, <3>3, <3>4, BoundsAreNat
  <2>7. SameRequests(w, v) /\ SameSession(w, v) /\ v.subscribed = w.subscribed
    BY <2>3, <2>5, Zenon DEF SameRequests, SameSession, SameLists
  <2>8. Live(v) = Live(w)
    BY <2>7, Zenon DEF Live, SameRequests
  <2>9. Sound(v)
    BY <2>5, <2>6, <2>7, <2>8, Zenon DEF Sound, SameRequests
  <2>. QED BY <2>4, <2>7, <2>9, Zenon DEF Keeps
<1>. QED BY <1>1, <1>2, Zenon

LEMMA DropKept ==
  ASSUME NEW w, Sound(w), NEW el
  PROVE  Keeps(w, DropElicitation(w, el))
<1>1. CASE el \notin w.elicitations
  BY <1>1, KeepsItself, Zenon DEF DropElicitation
<1>2. CASE el \in w.elicitations
  <2>. DEFINE u == [w EXCEPT !.elicitations = @ \ {el}]
              v == Refund(u, 1)
  <2>1. w \in Tables /\ w.elicitations \in SUBSET Elicitations /\ w.bytes \in Nat
    BY Zenon DEF Sound, Tables
  <2>2. u \in Tables
    BY <2>1, Zenon DEF Tables
  <2>3. /\ u.elicitations = w.elicitations \ {el} /\ u.subscribed = w.subscribed
        /\ u.bytes = w.bytes /\ SameRequests(w, u) /\ SameSession(w, u)
    BY <2>1, Zenon DEF Tables, SameRequests, SameSession
  <2>4. DropElicitation(w, el) = v
    BY <1>2, Zenon DEF DropElicitation
  <2>. HIDE DEF u
  <2>5. /\ v \in Tables /\ SameRequests(u, v) /\ SameSession(u, v) /\ SameLists(u, v)
        /\ v.bytes <= u.bytes
    BY <2>2, RefundKept
  <2>. HIDE DEF v
  <2>6. Cardinality(v.elicitations) <= MaxElicit /\ v.bytes <= MaxBytes
    <3>1. IsFiniteSet(w.elicitations) /\ Cardinality(w.elicitations) \in Nat
      BY <2>1, ListsCard, Zenon
    <3>2. Cardinality(w.elicitations \ {el}) = Cardinality(w.elicitations) - 1
      BY <1>2, <3>1, FS_RemoveElement, Zenon
    <3>3. v.elicitations = w.elicitations \ {el} /\ v.bytes <= w.bytes /\ v.bytes \in Nat
      BY <2>3, <2>5, Zenon DEF SameLists, Tables
    <3>4. Cardinality(w.elicitations) <= MaxElicit /\ w.bytes <= MaxBytes
      BY Zenon DEF Sound
    <3>. QED BY <2>1, <3>1, <3>2, <3>3, <3>4, BoundsAreNat
  <2>7. SameRequests(w, v) /\ SameSession(w, v) /\ v.subscribed = w.subscribed
    BY <2>3, <2>5, Zenon DEF SameRequests, SameSession, SameLists
  <2>8. Live(v) = Live(w)
    BY <2>7, Zenon DEF Live, SameRequests
  <2>9. Sound(v)
    BY <2>5, <2>6, <2>7, <2>8, Zenon DEF Sound, SameRequests
  <2>. QED BY <2>4, <2>7, <2>9, Zenon DEF Keeps
<1>. QED BY <1>1, <1>2, Zenon

LEMMA SubscribeKept ==
  ASSUME NEW w, Sound(w), NEW uri \in Uris
  PROVE  Keeps(w, Subscribe(w, uri))
<1>. DEFINE fits == /\ uri \notin w.subscribed
                    /\ Cardinality(w.subscribed) < MaxSubscribed
                    /\ Fits(w, 1)
<1>1. CASE ~fits
  BY <1>1, KeepsItself, Zenon DEF Subscribe
<1>2. CASE fits
  <2>. DEFINE u == [w EXCEPT !.subscribed = @ \cup {uri}]
              v == Charge(u, 1)
  <2>1. w \in Tables /\ w.subscribed \in SUBSET Uris
    BY Zenon DEF Sound, Tables
  <2>2. u \in Tables
    BY <2>1, Zenon DEF Tables
  <2>3. /\ u.subscribed = w.subscribed \cup {uri} /\ u.elicitations = w.elicitations
        /\ u.bytes = w.bytes /\ SameRequests(w, u) /\ SameSession(w, u)
    BY <2>1, Zenon DEF Tables, SameRequests, SameSession
  <2>4. Fits(u, 1) /\ Subscribe(w, uri) = v
    BY <1>2, <2>3, Zenon DEF Fits, Subscribe
  <2>. HIDE DEF u
  <2>5. /\ v \in Tables /\ SameRequests(u, v) /\ SameSession(u, v) /\ SameLists(u, v)
        /\ v.bytes <= MaxBytes
    BY <2>2, <2>4, ChargeKept, Zenon
  <2>. HIDE DEF v
  <2>6. Cardinality(v.subscribed) <= MaxSubscribed
    <3>1. IsFiniteSet(w.subscribed) /\ Cardinality(w.subscribed) \in Nat
      BY <2>1, ListsCard, Zenon
    <3>2. Cardinality(w.subscribed \cup {uri}) = Cardinality(w.subscribed) + 1
      BY <1>2, <3>1, FS_AddElement, Zenon
    <3>3. v.subscribed = w.subscribed \cup {uri}
      BY <2>3, <2>5, Zenon DEF SameLists
    <3>. QED BY <1>2, <3>1, <3>2, <3>3, BoundsAreNat
  <2>7. SameRequests(w, v) /\ SameSession(w, v) /\ v.elicitations = w.elicitations
    BY <2>3, <2>5, Zenon DEF SameRequests, SameSession, SameLists
  <2>8. Live(v) = Live(w)
    BY <2>7, Zenon DEF Live, SameRequests
  <2>9. Sound(v)
    BY <2>5, <2>6, <2>7, <2>8, Zenon DEF Sound, SameRequests
  <2>. QED BY <2>4, <2>7, <2>9, Zenon DEF Keeps
<1>. QED BY <1>1, <1>2, Zenon
LEMMA UnsubscribeKept ==
  ASSUME NEW w, Sound(w), NEW uri
  PROVE  Keeps(w, Unsubscribe(w, uri))
<1>1. CASE uri \notin w.subscribed
  BY <1>1, KeepsItself, Zenon DEF Unsubscribe
<1>2. CASE uri \in w.subscribed
  <2>. DEFINE u == [w EXCEPT !.subscribed = @ \ {uri}]
              v == Refund(u, 1)
  <2>1. w \in Tables /\ w.subscribed \in SUBSET Uris /\ w.bytes \in Nat
    BY Zenon DEF Sound, Tables
  <2>2. u \in Tables
    BY <2>1, Zenon DEF Tables
  <2>3. /\ u.subscribed = w.subscribed \ {uri} /\ u.elicitations = w.elicitations
        /\ u.bytes = w.bytes /\ SameRequests(w, u) /\ SameSession(w, u)
    BY <2>1, Zenon DEF Tables, SameRequests, SameSession
  <2>4. Unsubscribe(w, uri) = v
    BY <1>2, Zenon DEF Unsubscribe
  <2>. HIDE DEF u
  <2>5. /\ v \in Tables /\ SameRequests(u, v) /\ SameSession(u, v) /\ SameLists(u, v)
        /\ v.bytes <= u.bytes
    BY <2>2, RefundKept
  <2>. HIDE DEF v
  <2>6. Cardinality(v.subscribed) <= MaxSubscribed /\ v.bytes <= MaxBytes
    <3>1. IsFiniteSet(w.subscribed) /\ Cardinality(w.subscribed) \in Nat
      BY <2>1, ListsCard, Zenon
    <3>2. Cardinality(w.subscribed \ {uri}) = Cardinality(w.subscribed) - 1
      BY <1>2, <3>1, FS_RemoveElement, Zenon
    <3>3. v.subscribed = w.subscribed \ {uri} /\ v.bytes <= w.bytes /\ v.bytes \in Nat
      BY <2>3, <2>5, Zenon DEF SameLists, Tables
    <3>4. Cardinality(w.subscribed) <= MaxSubscribed /\ w.bytes <= MaxBytes
      BY Zenon DEF Sound
    <3>. QED BY <2>1, <3>1, <3>2, <3>3, <3>4, BoundsAreNat
  <2>7. SameRequests(w, v) /\ SameSession(w, v) /\ v.elicitations = w.elicitations
    BY <2>3, <2>5, Zenon DEF SameRequests, SameSession, SameLists
  <2>8. Live(v) = Live(w)
    BY <2>7, Zenon DEF Live, SameRequests
  <2>9. Sound(v)
    BY <2>5, <2>6, <2>7, <2>8, Zenon DEF Sound, SameRequests
  <2>. QED BY <2>4, <2>7, <2>9, Zenon DEF Keeps
<1>. QED BY <1>1, <1>2, Zenon

LEMMA SetLogLevelKept ==
  ASSUME NEW w, Sound(w), NEW level \in Levels \cup {NoLevel}
  PROVE  Keeps(w, SetLogLevel(w, level))
<1>. DEFINE n == SlotBytes(w.log_level, NoLevel)
            r == Refund(w, n)
            f == [r EXCEPT !.log_level = NoLevel]
            u == [f EXCEPT !.log_level = level]
            v == Charge(u, 1)
<1>1. w \in Tables /\ w.bytes \in Nat /\ w.bytes <= MaxBytes
  BY Zenon DEF Sound, Tables
<1>2. n \in Nat
  BY DEF SlotBytes
<1>. HIDE DEF n
<1>3. /\ r \in Tables /\ SameRequests(w, r) /\ SameSession(w, r) /\ SameLists(w, r)
      /\ r.bytes <= w.bytes
  BY <1>1, <1>2, RefundKept
<1>4. SetLogLevel(w, level) = IF Fits(f, 1) THEN v ELSE f
  BY Zenon DEF SetLogLevel, n
<1>. HIDE DEF r
<1>5. /\ f \in Tables /\ SameRequests(r, f) /\ SameSession(r, f) /\ SameLists(r, f)
      /\ f.bytes = r.bytes
  BY <1>3, Zenon DEF Tables, SameRequests, SameSession, SameLists
<1>. HIDE DEF f
<1>6. /\ u \in Tables /\ SameRequests(f, u) /\ SameSession(f, u) /\ SameLists(f, u)
      /\ u.bytes = f.bytes
  BY <1>5, Zenon DEF Tables, SameRequests, SameSession, SameLists
<1>. HIDE DEF u
<1>7. f.bytes <= MaxBytes
  <2>1. r.bytes \in Nat
    BY <1>3, Zenon DEF Tables
  <2>. QED BY <1>1, <1>3, <1>5, <2>1, BoundsAreNat
<1>8. SameRequests(w, f) /\ SameSession(w, f) /\ SameLists(w, f)
  BY <1>3, <1>5, Zenon DEF SameRequests, SameSession, SameLists
<1>9. Sound(f)
  BY <1>5, <1>7, <1>8, SoundKept, Zenon
<1>10. CASE ~Fits(f, 1)
  BY <1>4, <1>8, <1>9, <1>10, Zenon DEF Keeps
<1>11. CASE Fits(f, 1)
  <2>1. Fits(u, 1)
    BY <1>6, <1>11, Zenon DEF Fits
  <2>2. /\ v \in Tables /\ SameRequests(u, v) /\ SameSession(u, v) /\ SameLists(u, v)
        /\ v.bytes <= MaxBytes
    BY <1>6, <2>1, ChargeKept
  <2>. HIDE DEF v
  <2>3. SameRequests(w, v) /\ SameSession(w, v) /\ SameLists(w, v)
    BY <1>6, <1>8, <2>2, Zenon DEF SameRequests, SameSession, SameLists
  <2>4. Sound(v)
    BY <2>2, <2>3, SoundKept, Zenon
  <2>. QED BY <1>4, <1>11, <2>3, <2>4, Zenon DEF Keeps
<1>. QED BY <1>10, <1>11, Zenon

(* set_pending_init replaces the offer and nothing else.                   *)
Offers(w, v) ==
  /\ Sound(v) /\ SameRequests(w, v) /\ v.version = w.version /\ v.init = w.init

LEMMA SetPendingKept ==
  ASSUME NEW w, Sound(w), NEW caps \in CapsOf(ClientCaps)
  PROVE  LET v == SetPendingInit(w, caps)
         IN Offers(w, v) /\ (caps = NoCaps => v.pending = NoCaps)
<1>. DEFINE n == CapsBytes(w.pending)
            m == CapsBytes(caps)
            f == Refund(w, n)
            a == [f EXCEPT !.pending = NoCaps]
            b == [f EXCEPT !.pending = {}]
            u == [f EXCEPT !.pending = caps]
            v == Charge(u, m)
<1>1. w \in Tables /\ w.bytes \in Nat /\ w.bytes <= MaxBytes /\ w.pending \in CapsOf(ClientCaps)
  BY Zenon DEF Sound, Tables
<1>2. n \in Nat /\ m \in Nat
  BY <1>1, CapsCard, Zenon
<1>3. SetPendingInit(w, caps) = IF caps = NoCaps THEN a ELSE IF Fits(f, m) THEN v ELSE b
  BY Zenon DEF SetPendingInit
<1>. HIDE DEF n, m
<1>4. /\ f \in Tables /\ SameRequests(w, f) /\ SameSession(w, f) /\ SameLists(w, f)
      /\ f.bytes <= w.bytes
  BY <1>1, <1>2, RefundKept
<1>. HIDE DEF f
<1>5. NoCaps \in CapsOf(ClientCaps) /\ {} \in CapsOf(ClientCaps)
  BY Zenon DEF CapsOf
<1>6. ASSUME NEW c \in CapsOf(ClientCaps)
      PROVE  LET x == [f EXCEPT !.pending = c]
             IN /\ x \in Tables /\ SameRequests(w, x) /\ SameLists(w, x)
                /\ x.version = w.version /\ x.init = w.init /\ x.bytes = f.bytes
                /\ x.pending = c
  BY <1>4, Zenon DEF Tables, SameRequests, SameSession, SameLists
<1>7. f.bytes <= MaxBytes
  <2>1. f.bytes \in Nat
    BY <1>4, Zenon DEF Tables
  <2>. QED BY <1>1, <1>4, <2>1, BoundsAreNat
<1>8. Offers(w, a) /\ a.pending = NoCaps
  BY <1>5, <1>6, <1>7, SoundKept, Zenon DEF Offers
<1>9. Offers(w, b)
  BY <1>5, <1>6, <1>7, SoundKept, Zenon DEF Offers
<1>10. ASSUME Fits(f, m) PROVE Offers(w, v)
  <2>1. /\ u \in Tables /\ SameRequests(w, u) /\ SameLists(w, u)
        /\ u.version = w.version /\ u.init = w.init /\ Fits(u, m)
    BY <1>6, <1>10, Zenon DEF Fits
  <2>. HIDE DEF u
  <2>2. /\ v \in Tables /\ SameRequests(u, v) /\ SameSession(u, v) /\ SameLists(u, v)
        /\ v.bytes <= MaxBytes
    BY <1>2, <2>1, ChargeKept, Zenon
  <2>. HIDE DEF v
  <2>3. /\ SameRequests(w, v) /\ SameLists(w, v)
        /\ v.version = w.version /\ v.init = w.init
    BY <2>1, <2>2, Zenon DEF SameRequests, SameSession, SameLists
  <2>4. Sound(v)
    BY <2>2, <2>3, SoundKept, Zenon
  <2>. QED BY <2>3, <2>4, Zenon DEF Offers
<1>. HIDE DEF a, b, v
<1>11. CASE caps = NoCaps
  BY <1>3, <1>8, <1>11, Zenon
<1>12. CASE caps # NoCaps /\ Fits(f, m)
  BY <1>3, <1>10, <1>12, Zenon
<1>13. CASE caps # NoCaps /\ ~Fits(f, m)
  BY <1>3, <1>9, <1>13, Zenon
<1>. QED BY <1>11, <1>12, <1>13, Zenon
(* commit_initialize settles the handshake: nothing stays offered.         *)
Commits(w, v) ==
  /\ Sound(v) /\ SameRequests(w, v) /\ v.version = w.version
  /\ v.init = "awaiting" /\ v.pending = NoCaps

LEMMA CommitKept ==
  ASSUME NEW w, Sound(w), NEW caps \in SUBSET ServerCaps
  PROVE  Commits(w, CommitInitialize(w, caps))
<1>. DEFINE n1 == CapsBytes(w.client_caps)
            n2 == CapsBytes(w.server_caps)
            m == CapsBytes(caps)
            c == IF w.pending = NoCaps THEN {} ELSE w.pending
            r1 == Refund(w, n1)
            moved == [r1 EXCEPT !.client_caps = c, !.pending = NoCaps]
            r2 == Refund(moved, n2)
            freed == [r2 EXCEPT !.server_caps = {}]
            u == [freed EXCEPT !.server_caps = caps]
            full == Charge(u, m)
            z == IF Fits(freed, m) THEN full ELSE freed
            v == [z EXCEPT !.init = "awaiting"]
<1>1. /\ w \in Tables /\ w.bytes \in Nat /\ w.bytes <= MaxBytes
      /\ w.pending \in CapsOf(ClientCaps)
      /\ w.client_caps \in SUBSET ClientCaps /\ w.server_caps \in SUBSET ServerCaps
  BY Zenon DEF Sound, Tables
<1>2. n1 \in Nat /\ n2 \in Nat /\ m \in Nat
  BY <1>1, CapsCard, Zenon DEF CapsOf
<1>3. c \in SUBSET ClientCaps
  BY <1>1, Zenon DEF CapsOf
<1>4. CommitInitialize(w, caps) = v
  BY Zenon DEF CommitInitialize
<1>. HIDE DEF n1, n2, m, c
<1>5. /\ r1 \in Tables /\ SameRequests(w, r1) /\ SameSession(w, r1) /\ SameLists(w, r1)
      /\ r1.bytes <= w.bytes
  BY <1>1, <1>2, RefundKept
<1>. HIDE DEF r1
<1>6. NoCaps \in CapsOf(ClientCaps)
  BY Zenon DEF CapsOf
<1>7. /\ moved \in Tables /\ SameRequests(r1, moved) /\ SameLists(r1, moved)
      /\ moved.version = r1.version /\ moved.pending = NoCaps /\ moved.bytes = r1.bytes
  BY <1>3, <1>5, <1>6, Zenon DEF Tables, SameRequests, SameLists
<1>. HIDE DEF moved
<1>8. /\ r2 \in Tables /\ SameRequests(moved, r2) /\ SameSession(moved, r2)
      /\ SameLists(moved, r2) /\ r2.bytes <= moved.bytes
  BY <1>2, <1>7, RefundKept
<1>. HIDE DEF r2
<1>9. /\ freed \in Tables /\ SameRequests(r2, freed) /\ SameLists(r2, freed)
      /\ freed.version = r2.version /\ freed.pending = r2.pending /\ freed.bytes = r2.bytes
  BY <1>8, Zenon DEF Tables, SameRequests, SameLists
<1>. HIDE DEF freed
<1>10. /\ u \in Tables /\ SameRequests(freed, u) /\ SameLists(freed, u)
       /\ u.version = freed.version /\ u.pending = freed.pending /\ u.bytes = freed.bytes
  BY <1>9, Zenon DEF Tables, SameRequests, SameLists
<1>. HIDE DEF u
<1>11. freed.bytes <= MaxBytes
  <2>1. r1.bytes \in Nat /\ moved.bytes \in Nat /\ r2.bytes \in Nat
    BY <1>5, <1>7, <1>8, Zenon DEF Tables
  <2>. QED BY <1>1, <1>5, <1>7, <1>8, <1>9, <2>1, BoundsAreNat
<1>12. /\ SameRequests(w, freed) /\ SameLists(w, freed)
       /\ freed.version = w.version /\ freed.pending = NoCaps
  BY <1>5, <1>7, <1>8, <1>9, Zenon DEF SameRequests, SameLists, SameSession
<1>13. ASSUME Fits(freed, m)
       PROVE  /\ full \in Tables /\ SameRequests(w, full) /\ SameLists(w, full)
              /\ full.version = w.version /\ full.pending = NoCaps /\ full.bytes <= MaxBytes
  <2>1. Fits(u, m)
    BY <1>10, <1>13, Zenon DEF Fits
  <2>2. /\ full \in Tables /\ SameRequests(u, full) /\ SameSession(u, full)
        /\ SameLists(u, full) /\ full.bytes <= MaxBytes
    BY <1>2, <1>10, <2>1, ChargeKept
  <2>. HIDE DEF full
  <2>. QED BY <1>10, <1>12, <2>2, Zenon DEF SameRequests, SameLists, SameSession
<1>. HIDE DEF full
<1>14. /\ z \in Tables /\ SameRequests(w, z) /\ SameLists(w, z)
       /\ z.version = w.version /\ z.pending = NoCaps /\ z.bytes <= MaxBytes
  <2>1. CASE Fits(freed, m)
    BY <1>13, <2>1, Zenon
  <2>2. CASE ~Fits(freed, m)
    BY <1>9, <1>11, <1>12, <2>2, Zenon
  <2>. QED BY <2>1, <2>2, Zenon
<1>. HIDE DEF z
<1>15. /\ v \in Tables /\ SameRequests(w, v) /\ SameLists(w, v)
       /\ v.version = w.version /\ v.pending = NoCaps /\ v.bytes <= MaxBytes
       /\ v.init = "awaiting"
  BY <1>14, Zenon DEF Tables, SameRequests, SameLists
<1>. HIDE DEF v
<1>16. Sound(v)
  BY <1>15, SoundKept, Zenon
<1>. QED BY <1>4, <1>15, <1>16, Zenon DEF Commits

(* on_response_forwarded: only the answer to an initialize touches what    *)
(* was negotiated.                                                         *)
Answers(w, v, e) ==
  /\ Sound(v) /\ SameRequests(w, v) /\ v.version = w.version
  /\ e.method = "initialize" => v.init = "awaiting" /\ v.pending = NoCaps
  /\ e.method # "initialize" => SameSession(w, v)

LEMMA OnResultKept ==
  ASSUME NEW w, Sound(w), NEW e \in Entries, NEW k, EntryOK(k, e), NEW caps \in SUBSET ServerCaps
  PROVE  Answers(w, OnResult(w, e, caps), e)
<1>1. CASE e.method = "initialize"
  <2>1. OnResult(w, e, caps) = CommitInitialize(w, caps)
    BY <1>1 DEF OnResult
  <2>2. Commits(w, CommitInitialize(w, caps))
    BY CommitKept, Zenon
  <2>. QED BY <1>1, <2>1, <2>2, Zenon DEF Commits, Answers
<1>. SUFFICES ASSUME e.method # "initialize" PROVE Keeps(w, OnResult(w, e, caps))
  BY <1>1, Zenon DEF Answers, Keeps, SameSession
<1>2. CASE e.method = "subscribe"
  <2>1. OnResult(w, e, caps) = Subscribe(w, e.uri)
    BY <1>2 DEF OnResult
  <2>2. e.uri \in Uris
    BY <1>2, Zenon DEF EntryOK
  <2>. QED BY <2>1, <2>2, SubscribeKept, Zenon
<1>3. CASE e.method = "unsubscribe"
  <2>1. OnResult(w, e, caps) = Unsubscribe(w, e.uri)
    BY <1>3 DEF OnResult
  <2>. QED BY <2>1, UnsubscribeKept, Zenon
<1>4. CASE e.method = "setLevel"
  <2>1. OnResult(w, e, caps) = SetLogLevel(w, e.level)
    BY <1>4 DEF OnResult
  <2>2. e.level \in Levels \cup {NoLevel}
    BY Zenon DEF Entries
  <2>. QED BY <2>1, <2>2, SetLogLevelKept, Zenon
<1>5. CASE e.method \notin {"subscribe", "unsubscribe", "setLevel"}
  <2>1. OnResult(w, e, caps) = w
    BY <1>5 DEF OnResult
  <2>. QED BY <2>1, KeepsItself, Zenon
<1>. QED BY <1>2, <1>3, <1>4, <1>5, Zenon
(* on_request_forwarded settles the version once, and only an initialize   *)
(* offers capabilities.                                                    *)
Forwards(w, v, m, ver) ==
  /\ Sound(v) /\ SameRequests(w, v) /\ v.init = w.init
  /\ w.version = "none" => v.version = ver
  /\ w.version # "none" => v.version = w.version
  /\ m # "initialize" => v.pending = w.pending

LEMMA ForwardKept ==
  ASSUME NEW w, Sound(w), NEW m, NEW ver \in {"v25", "v26"}, NEW caps \in CapsOf(ClientCaps)
  PROVE  Forwards(w, OnRequestForwarded(w, m, ver, caps), m, ver)
<1>. DEFINE x == IF w.version = "none" THEN [w EXCEPT !.version = ver] ELSE w
            y == SetPendingInit(x, caps)
<1>1. OnRequestForwarded(w, m, ver, caps) = IF m = "initialize" THEN y ELSE x
  BY Zenon DEF OnRequestForwarded
<1>2. Forwards(w, x, "ping", ver)
  <2>1. w \in Tables /\ w.bytes <= MaxBytes
    BY Zenon DEF Sound
  <2>2. CASE w.version = "none"
    <3>1. x = [w EXCEPT !.version = ver]
      BY <2>2, Zenon
    <3>2. [w EXCEPT !.version = ver] \in Tables
      BY <2>1, Zenon DEF Tables
    <3>3. /\ SameRequests(w, x) /\ SameLists(w, x) /\ x.init = w.init
          /\ x.version = ver /\ x.pending = w.pending /\ x.bytes = w.bytes
      BY <2>1, <3>1, Zenon DEF Tables, SameRequests, SameLists
    <3>. HIDE DEF x
    <3>4. Sound(x)
      BY <2>1, <3>1, <3>2, <3>3, SoundKept, Zenon
    <3>. QED BY <2>2, <3>3, <3>4, Zenon DEF Forwards
  <2>3. CASE w.version # "none"
    <3>1. x = w
      BY <2>3, Zenon
    <3>. QED BY <2>3, <3>1, Zenon DEF Forwards, SameRequests
  <2>. QED BY <2>2, <2>3, Zenon
<1>. HIDE DEF x
<1>3. Offers(x, y)
  BY <1>2, SetPendingKept, Zenon DEF Forwards
<1>. HIDE DEF y
<1>4. CASE m = "initialize"
  <2>1. Forwards(w, y, m, ver)
    BY <1>2, <1>3, <1>4, Zenon DEF Forwards, Offers, SameRequests
  <2>. QED BY <1>1, <1>4, <2>1, Zenon
<1>5. CASE m # "initialize"
  <2>1. Forwards(w, x, m, ver)
    BY <1>2, Zenon DEF Forwards
  <2>. QED BY <1>1, <1>5, <2>1, Zenon
<1>. QED BY <1>4, <1>5, Zenon

(* rollback_forwarded restores what the token holds and nothing else.      *)
Unwinds(w, v, u) ==
  /\ Sound(v) /\ v.requests = Without(w, u.key) /\ v.retired = w.retired
  /\ v.version = u.version /\ v.init = w.init
  /\ u.pending = NoCaps => v.pending = NoCaps

LEMMA RollbackKept ==
  ASSUME NEW w, Sound(w), NEW u \in Undos
  PROVE  Unwinds(w, RollbackForwarded(w, u), u)
<1>. DEFINE a == RemoveRequest(w, u.key)
            b == [a EXCEPT !.version = u.version]
            c == SetPendingInit(b, u.pending)
            el == CHOOSE el \in u.elicitation : TRUE
            d == DropElicitation(c, el)
<1>1. /\ u.key \in Keys /\ u.version \in {"none", "v25", "v26"}
      /\ u.pending \in CapsOf(ClientCaps)
  BY Zenon DEF Undos
<1>2. RollbackForwarded(w, u) = IF u.elicitation = {} THEN c ELSE d
  BY Zenon DEF RollbackForwarded
<1>3. /\ Sound(a) /\ a.requests = Without(w, u.key) /\ a.retired = w.retired
      /\ SameSession(w, a)
  BY <1>1, RemoveKept
<1>. HIDE DEF a, el
<1>4. a \in Tables /\ a.bytes <= MaxBytes
  BY <1>3, Zenon DEF Sound
<1>5. b \in Tables
  BY <1>1, <1>4, Zenon DEF Tables
<1>6. /\ SameRequests(a, b) /\ SameLists(a, b) /\ b.init = a.init
      /\ b.version = u.version /\ b.bytes = a.bytes
  BY <1>4, Zenon DEF Tables, SameRequests, SameLists
<1>. HIDE DEF b
<1>7. Sound(b)
  BY <1>3, <1>4, <1>5, <1>6, SoundKept, Zenon
<1>8. Offers(b, c) /\ (u.pending = NoCaps => c.pending = NoCaps)
  BY <1>1, <1>7, SetPendingKept, Zenon
<1>. HIDE DEF c
<1>9. Unwinds(w, c, u)
  BY <1>3, <1>6, <1>8, Zenon DEF Unwinds, Offers, SameRequests, SameSession
<1>10. Keeps(c, d)
  BY <1>8, DropKept, Zenon DEF Offers
<1>. HIDE DEF d
<1>11. Unwinds(w, d, u)
  BY <1>9, <1>10, Zenon DEF Unwinds, Keeps, SameRequests, SameSession
<1>. QED BY <1>2, <1>9, <1>11, Zenon

(* The steps that edit one entry: no other entry moves, and an entry that  *)
(* stays keeps its method.                                                 *)
Touches(w, v, k) ==
  /\ Sound(v) /\ v.retired = w.retired /\ SameSession(w, v)
  /\ \A j \in Keys : j # k => v.requests[j] = w.requests[j]
  /\ v.requests[k] # NoEntry => v.requests[k].method = w.requests[k].method

LEMMA RemoveTouches ==
  ASSUME NEW w, Sound(w), NEW k \in Keys
  PROVE  Touches(w, RemoveRequest(w, k), k)
<1>. DEFINE v == RemoveRequest(w, k)
<1>1. Sound(v) /\ v.requests = Without(w, k) /\ v.retired = w.retired /\ SameSession(w, v)
  BY RemoveKept
<1>. HIDE DEF v
<1>2. w.requests \in [Keys -> Entries \cup {NoEntry}]
  BY Zenon DEF Sound, Tables
<1>3. \A j \in Keys : v.requests[j] = IF j = k THEN NoEntry ELSE w.requests[j]
  BY <1>1, <1>2 DEF Without
<1>4. Touches(w, v, k)
  BY <1>1, <1>3, Zenon DEF Touches
<1>. QED BY <1>4, Zenon DEF v

Edits(w, v, k, e) == Touches(w, v, k) /\ v.requests[k] = e

LEMMA EditKept ==
  ASSUME NEW w, Sound(w), NEW k \in Live(w), NEW e \in Entries, EntryOK(k, e),
         e.method = w.requests[k].method,
         NEW v \in Tables, v.requests = [w.requests EXCEPT ![k] = e],
         v.retired = w.retired, SameSession(w, v), SameLists(w, v), v.bytes <= MaxBytes
  PROVE  Edits(w, v, k, e)
<1>1. w.requests \in [Keys -> Entries \cup {NoEntry}] /\ k \in Keys /\ w.requests[k] # NoEntry
  BY Zenon DEF Sound, Tables, Live
<1>2. \A j \in Keys : v.requests[j] = IF j = k THEN e ELSE w.requests[j]
  BY <1>1
<1>3. e # NoEntry
  BY DEF Entries, NoEntry, Methods
<1>4. v.requests[k] = e /\ \A j \in Keys : j # k => v.requests[j] = w.requests[j]
  BY <1>1, <1>2, Zenon
<1>5. Live(v) = Live(w)
  <2>1. ASSUME NEW j \in Keys PROVE v.requests[j] # NoEntry <=> w.requests[j] # NoEntry
    <3>1. CASE j = k
      BY <1>1, <1>3, <1>4, <3>1, Zenon
    <3>2. CASE j # k
      BY <1>4, <3>2, Zenon
    <3>. QED BY <3>1, <3>2, Zenon
  <2>. QED BY <2>1, Zenon DEF Live
<1>6. \A j \in Keys : v.requests[j] # NoEntry => EntryOK(j, v.requests[j])
  BY <1>4, Zenon DEF Sound
<1>7. Sound(v)
  BY <1>5, <1>6, Zenon DEF Sound, SameLists
<1>. QED BY <1>4, <1>7, Zenon DEF Edits, Touches
LEMMA LiveEntry ==
  ASSUME NEW w, Sound(w), NEW k \in Live(w)
  PROVE  /\ k \in Keys /\ w.requests[k] # NoEntry /\ w.requests[k] \in Entries
         /\ EntryOK(k, w.requests[k]) /\ w \in Tables /\ w.bytes <= MaxBytes
         /\ w.requests \in [Keys -> Entries \cup {NoEntry}]
  BY Zenon DEF Sound, Tables, Live

LEMMA CancelledKept ==
  ASSUME NEW w, Sound(w), NEW k \in Live(w)
  PROVE  LET v == Cancelled(w, k)
         IN Touches(w, v, k) /\ (Unanswered(w, k) => Unanswered(v, k))
<1>1. /\ k \in Keys /\ w.requests[k] # NoEntry /\ w.requests[k] \in Entries
      /\ EntryOK(k, w.requests[k]) /\ w \in Tables /\ w.bytes <= MaxBytes
      /\ w.requests \in [Keys -> Entries \cup {NoEntry}]
  BY LiveEntry, Zenon
<1>2. CASE w.requests[k].responded
  BY <1>1, <1>2, RemoveTouches, Zenon DEF Cancelled, Unanswered
<1>3. CASE ~w.requests[k].responded
  <2>. DEFINE s == IF w.requests[k].sub = "none" THEN w.requests[k].sub ELSE "ended"
              e == [w.requests[k] EXCEPT !.cancelled = TRUE, !.sub = s]
              v == [w EXCEPT !.requests[k] = e]
  <2>1. e = EndedEntry(w.requests[k])
    BY Zenon DEF EndedEntry
  <2>2. s \in {"none", "ended"} /\ (s = "none" => w.requests[k].sub = "none")
    BY <1>1, Zenon
  <2>. HIDE DEF s
  <2>3. e \in Entries
    BY <1>1, <2>2, Zenon DEF Entries
  <2>4. /\ e.method = w.requests[k].method /\ e.uri = w.requests[k].uri
        /\ e.responded = w.requests[k].responded /\ e.cancelled = TRUE /\ e.sub = s
    BY <1>1, Zenon DEF Entries
  <2>. HIDE DEF e
  <2>5. Cancelled(w, k) = v
    BY <1>3, <2>1, Zenon DEF Cancelled
  <2>6. EntryOK(k, e)
    BY <1>1, <1>3, <2>2, <2>4, Zenon DEF EntryOK
  <2>7. v \in Tables
    BY <1>1, <2>3, Zenon DEF Tables
  <2>8. /\ v.requests = [w.requests EXCEPT ![k] = e] /\ v.retired = w.retired
        /\ SameSession(w, v) /\ SameLists(w, v) /\ v.bytes = w.bytes
    BY <1>1, Zenon DEF Tables, SameSession, SameLists
  <2>. HIDE DEF v
  <2>9. Touches(w, v, k) /\ v.requests[k] = e
    BY <1>1, <2>3, <2>4, <2>6, <2>7, <2>8, EditKept, Zenon DEF Edits
  <2>10. e # NoEntry
    BY <2>3 DEF Entries, NoEntry, Methods
  <2>. QED BY <1>3, <2>4, <2>5, <2>9, <2>10, Zenon DEF Unanswered
<1>. QED BY <1>2, <1>3, Zenon

LEMMA MarkKept ==
  ASSUME NEW w, Sound(w), NEW k \in Live(w), w.requests[k].method = "listen"
  PROVE  Touches(w, MarkResponded(w, k), k)
<1>1. /\ k \in Keys /\ w.requests[k] # NoEntry /\ w.requests[k] \in Entries
      /\ EntryOK(k, w.requests[k]) /\ w \in Tables /\ w.bytes <= MaxBytes
      /\ w.requests \in [Keys -> Entries \cup {NoEntry}]
  BY LiveEntry, Zenon
<1>2. CASE w.requests[k].sub = "ended" \/ w.requests[k].cancelled
  BY <1>1, <1>2, RemoveTouches, Zenon DEF MarkResponded
<1>3. CASE ~(w.requests[k].sub = "ended" \/ w.requests[k].cancelled)
  <2>. DEFINE e == [w.requests[k] EXCEPT !.responded = TRUE]
              v == [w EXCEPT !.requests = [w.requests EXCEPT ![k] = e]]
  <2>1. MarkResponded(w, k) = v
    BY <1>1, <1>3 DEF MarkResponded, Tables, Entries
  <2>2. e \in Entries
    BY <1>1, Zenon DEF Entries
  <2>3. /\ e.method = w.requests[k].method /\ e.uri = w.requests[k].uri
        /\ e.responded = TRUE /\ e.cancelled = w.requests[k].cancelled
        /\ e.sub = w.requests[k].sub
    BY <1>1, Zenon DEF Entries
  <2>. HIDE DEF e
  <2>4. e.sub \in {"none", "pending_ack", "active", "ended"} /\ e.sub # "none"
    BY <1>1, <2>2, <2>3, Zenon DEF Entries, EntryOK
  <2>5. EntryOK(k, e)
    BY <1>1, <1>3, <2>3, <2>4, Zenon DEF EntryOK
  <2>6. v \in Tables
    BY <1>1, <2>2, Zenon DEF Tables
  <2>7. /\ v.requests = [w.requests EXCEPT ![k] = e] /\ v.retired = w.retired
        /\ SameSession(w, v) /\ SameLists(w, v) /\ v.bytes = w.bytes
    BY <1>1, Zenon DEF Tables, SameSession, SameLists
  <2>. HIDE DEF v
  <2>8. Touches(w, v, k)
    BY <1>1, <2>2, <2>3, <2>5, <2>6, <2>7, EditKept, Zenon DEF Edits
  <2>. QED BY <2>1, <2>8, Zenon
<1>. QED BY <1>2, <1>3, Zenon

LEMMA EndKept ==
  ASSUME NEW w, Sound(w), NEW k \in Live(w)
  PROVE  LET v == EndSubscription(w, k)
         IN Touches(w, v, k) /\ (Unanswered(w, k) => Unanswered(v, k))
<1>1. /\ k \in Keys /\ w.requests[k] # NoEntry /\ w.requests[k] \in Entries
      /\ EntryOK(k, w.requests[k]) /\ w \in Tables /\ w.bytes <= MaxBytes
      /\ w.requests \in [Keys -> Entries \cup {NoEntry}]
  BY LiveEntry, Zenon
<1>2. CASE w.requests[k].responded
  BY <1>1, <1>2, RemoveTouches, Zenon DEF EndSubscription, Unanswered
<1>3. CASE ~w.requests[k].responded
  <2>. DEFINE e == [w.requests[k] EXCEPT !.sub = "ended"]
              v == [w EXCEPT !.requests = [w.requests EXCEPT ![k] = e]]
  <2>1. EndSubscription(w, k) = v
    BY <1>1, <1>3 DEF EndSubscription, Tables, Entries
  <2>2. e \in Entries
    BY <1>1, Zenon DEF Entries
  <2>3. /\ e.method = w.requests[k].method /\ e.uri = w.requests[k].uri
        /\ e.responded = w.requests[k].responded /\ e.sub = "ended"
    BY <1>1, Zenon DEF Entries
  <2>. HIDE DEF e
  <2>4. EntryOK(k, e)
    BY <1>1, <1>3, <2>3, Zenon DEF EntryOK
  <2>5. v \in Tables
    BY <1>1, <2>2, Zenon DEF Tables
  <2>6. /\ v.requests = [w.requests EXCEPT ![k] = e] /\ v.retired = w.retired
        /\ SameSession(w, v) /\ SameLists(w, v) /\ v.bytes = w.bytes
    BY <1>1, Zenon DEF Tables, SameSession, SameLists
  <2>. HIDE DEF v
  <2>7. Touches(w, v, k) /\ v.requests[k] = e
    BY <1>1, <2>2, <2>3, <2>4, <2>5, <2>6, EditKept, Zenon DEF Edits
  <2>8. e # NoEntry
    BY <2>2 DEF Entries, NoEntry, Methods
  <2>. QED BY <1>3, <2>1, <2>3, <2>7, <2>8, Zenon DEF Unanswered
<1>. QED BY <1>2, <1>3, Zenon

EntryFor(e, k, m) == e \in Entries /\ EntryOK(k, e) /\ e.method = m /\ ~e.responded

LEMMA TrackedOK ==
  ASSUME NEW k \in Keys, NEW m \in Methods, NEW uri \in Uris \cup {NoUri},
         NEW level \in Levels \cup {NoLevel}, NEW filters \in SUBSET Uris,
         m = "initialize" => k \in C2sKeys, m = "subscribe" => uri \in Uris
  PROVE  EntryFor(Tracked(m, uri, level, filters), k, m)
<1>. DEFINE sub == IF m = "listen" THEN "pending_ack" ELSE "none"
            req == IF m = "listen" THEN filters ELSE {}
            e == [method |-> m, uri |-> uri, level |-> level, cancelled |-> FALSE,
                  responded |-> FALSE, sub |-> sub, requested |-> req, acked |-> {}]
<1>1. sub \in {"none", "pending_ack"} /\ (m = "listen" => sub # "none") /\ req \in SUBSET Uris
  BY Zenon
<1>2. Tracked(m, uri, level, filters) = e
  BY Zenon DEF Tracked
<1>. HIDE DEF sub, req
<1>3. e \in Entries
  BY <1>1, Zenon DEF Entries
<1>4. EntryOK(k, e)
  BY <1>1, Zenon DEF EntryOK, C2sKeys
<1>5. e.method = m /\ ~e.responded
  OBVIOUS
<1>. HIDE DEF e
<1>. QED BY <1>2, <1>3, <1>4, <1>5, Zenon DEF EntryFor
(* set_acknowledged: the filters grow within the budget or not at all.     *)
LEMMA AckedKept ==
  ASSUME NEW w, Sound(w), NEW k \in Live(w), w.requests[k].sub = "pending_ack",
         NEW uris \in SUBSET Uris
  PROVE  LET v == Acked(w, k, uris)
         IN Touches(w, v, k) /\ (Unanswered(w, k) => Unanswered(v, k))
<1>. DEFINE old == Cardinality(w.requests[k].acked)
            new == Cardinality(uris)
            a == [w EXCEPT !.requests[k].sub = "active"]
            r == [a EXCEPT !.requests[k].acked = uris]
            ea == [w.requests[k] EXCEPT !.sub = "active"]
            er == [ea EXCEPT !.acked = uris]
<1>1. /\ k \in Keys /\ w.requests[k] # NoEntry /\ w.requests[k] \in Entries
      /\ EntryOK(k, w.requests[k]) /\ w \in Tables /\ w.bytes <= MaxBytes
      /\ w.requests \in [Keys -> Entries \cup {NoEntry}] /\ w.bytes \in Nat
  <2>1. w.bytes \in Nat
    BY Zenon DEF Sound, Tables
  <2>. QED BY <2>1, LiveEntry, Zenon
<1>2. old \in Nat /\ new \in Nat
  <2>1. w.requests[k].acked \in SUBSET Uris
    BY <1>1, Zenon DEF Entries
  <2>. QED BY <2>1, IdsFinite, SubsetCard, Zenon
<1>3. Acked(w, k, uris) = IF new <= old THEN Refund(r, old - new)
                          ELSE IF Fits(w, new - old) THEN Charge(r, new - old) ELSE a
  BY Zenon DEF Acked
<1>. HIDE DEF old, new
<1>4. /\ ea \in Entries /\ ea.method = w.requests[k].method /\ ea.uri = w.requests[k].uri
      /\ ea.responded = w.requests[k].responded /\ ea.cancelled = w.requests[k].cancelled
      /\ ea.sub = "active"
  BY <1>1, Zenon DEF Entries
<1>5. a \in Tables
  BY <1>1, <1>4, Zenon DEF Tables
<1>6. /\ a.requests = [w.requests EXCEPT ![k] = ea] /\ a.retired = w.retired
      /\ SameSession(w, a) /\ SameLists(w, a) /\ a.bytes = w.bytes
  BY <1>1, Zenon DEF Tables, SameSession, SameLists
<1>. HIDE DEF a, ea
<1>7. /\ er \in Entries /\ er.method = ea.method /\ er.uri = ea.uri
      /\ er.responded = ea.responded /\ er.cancelled = ea.cancelled /\ er.sub = "active"
  BY <1>4, Zenon DEF Entries
<1>8. EntryOK(k, ea) /\ EntryOK(k, er)
  BY <1>1, <1>4, <1>7, Zenon DEF EntryOK
<1>9. r \in Tables /\ r.requests = [w.requests EXCEPT ![k] = er]
  <2>1. a.requests \in [Keys -> Entries \cup {NoEntry}] /\ a.requests[k] = ea
    BY <1>1, <1>4, <1>6
  <2>2. r = [a EXCEPT !.requests[k] = er]
    BY <2>1, Zenon
  <2>3. r.requests = [a.requests EXCEPT ![k] = er]
    BY <1>5, <2>2, Zenon DEF Tables
  <2>4. r.requests = [w.requests EXCEPT ![k] = er]
    BY <1>1, <1>6, <2>3
  <2>. HIDE DEF er
  <2>5. r \in Tables
    BY <1>5, <1>7, <2>1, <2>2, Zenon DEF Tables
  <2>. QED BY <2>4, <2>5, Zenon
<1>10. /\ r.retired = w.retired /\ SameSession(w, r) /\ SameLists(w, r) /\ r.bytes = w.bytes
  BY <1>5, <1>6, Zenon DEF Tables, SameSession, SameLists
<1>. HIDE DEF r, er
<1>11. ASSUME NEW v \in Tables, SameRequests(r, v), SameSession(r, v), SameLists(r, v),
              v.bytes <= MaxBytes
       PROVE  Edits(w, v, k, er)
  <2>1. /\ v.requests = [w.requests EXCEPT ![k] = er] /\ v.retired = w.retired
        /\ SameSession(w, v) /\ SameLists(w, v)
    BY <1>9, <1>10, <1>11, Zenon DEF SameRequests, SameSession, SameLists
  <2>2. er \in Entries /\ EntryOK(k, er) /\ er.method = w.requests[k].method
    BY <1>4, <1>7, <1>8, Zenon
  <2>. QED BY <1>11, <2>1, <2>2, EditKept, Zenon
<1>12. ea # NoEntry /\ er # NoEntry
  BY <1>4, <1>7 DEF Entries, NoEntry, Methods
<1>13. CASE new <= old
  <2>. DEFINE v == Refund(r, old - new)
  <2>1. old - new \in Nat
    BY <1>2, <1>13
  <2>2. /\ v \in Tables /\ SameRequests(r, v) /\ SameSession(r, v) /\ SameLists(r, v)
        /\ v.bytes <= r.bytes
    BY <1>9, <2>1, RefundKept, Zenon
  <2>. HIDE DEF v
  <2>3. v.bytes <= MaxBytes
    <3>1. v.bytes \in Nat
      BY <2>2, Zenon DEF Tables
    <3>. QED BY <1>1, <1>10, <2>2, <3>1, BoundsAreNat
  <2>4. Touches(w, v, k) /\ v.requests[k] = er
    BY <1>11, <2>2, <2>3, Zenon DEF Edits
  <2>5. Unanswered(w, k) => Unanswered(v, k)
    BY <1>4, <1>7, <1>12, <2>4, Zenon DEF Unanswered
  <2>6. Acked(w, k, uris) = v
    BY <1>3, <1>13, Zenon DEF v
  <2>. QED BY <2>4, <2>5, <2>6, Zenon
<1>14. CASE ~(new <= old) /\ Fits(w, new - old)
  <2>. DEFINE v == Charge(r, new - old)
  <2>1. new - old \in Nat
    BY <1>2, <1>14
  <2>2. Fits(r, new - old)
    BY <1>10, <1>14, Zenon DEF Fits
  <2>3. /\ v \in Tables /\ SameRequests(r, v) /\ SameSession(r, v) /\ SameLists(r, v)
        /\ v.bytes <= MaxBytes
    BY <1>9, <2>1, <2>2, ChargeKept, Zenon
  <2>. HIDE DEF v
  <2>4. Touches(w, v, k) /\ v.requests[k] = er
    BY <1>11, <2>3, Zenon DEF Edits
  <2>5. Unanswered(w, k) => Unanswered(v, k)
    BY <1>4, <1>7, <1>12, <2>4, Zenon DEF Unanswered
  <2>6. Acked(w, k, uris) = v
    BY <1>3, <1>14, Zenon DEF v
  <2>. QED BY <2>4, <2>5, <2>6, Zenon
<1>15. CASE ~(new <= old) /\ ~Fits(w, new - old)
  <2>1. Acked(w, k, uris) = a
    BY <1>3, <1>15, Zenon
  <2>2. Touches(w, a, k) /\ a.requests[k] = ea
    BY <1>1, <1>4, <1>5, <1>6, <1>8, EditKept, Zenon DEF Edits
  <2>3. Unanswered(w, k) => Unanswered(a, k)
    BY <1>4, <1>12, <2>2, Zenon DEF Unanswered
  <2>. QED BY <2>1, <2>2, <2>3, Zenon
<1>. QED BY <1>13, <1>14, <1>15, Zenon
-----------------------------------------------------------------------------
(* The loops and their undo tokens.                                        *)

LEMMA WritingFields ==
  ASSUME NEW u
  PROVE  Writing(u).pc = "write" /\ Writing(u).undo = u /\ Idle.pc # "write"
  BY DEF Writing, Idle

TokenOf(u, w, k) ==
  u \in Undos /\ u.key = k /\ u.version = w.version /\ u.pending = w.pending

LEMMA UndoTyped ==
  ASSUME NEW w \in Tables, NEW k \in Keys, NEW els \in SUBSET Elicitations
  PROVE  TokenOf(Undo(w, k, els), w, k)
<1>1. w.version \in {"none", "v25", "v26"} /\ w.pending \in CapsOf(ClientCaps)
  BY Zenon DEF Tables
<1>2. Undo(w, k, els) \in Undos
  BY <1>1, Zenon DEF Undo, Undos
<1>. QED BY <1>2, Zenon DEF Undo, TokenOf

LEMMA TokensTyped ==
  ASSUME TypeOK
  PROVE  /\ c2s.pc = "write" => c2s.undo \in Undos
         /\ s2c.pc = "write" => s2c.undo \in Undos
<1>1. /\ c2s \in {Idle} \cup {Writing(u) : u \in Undos}
      /\ s2c \in {Idle} \cup {Writing(u) : u \in Undos}
  BY Zenon DEF TypeOK
<1>2. ASSUME NEW l \in {Idle} \cup {Writing(u) : u \in Undos}, l.pc = "write"
      PROVE  l.undo \in Undos
  BY <1>2, WritingFields, Zenon
<1>. QED BY <1>1, <1>2, Zenon

(* The two loops never wait under the same key.                            *)
LEMMA KeysApart ==
  /\ C2sKeys \cap S2cKeys = {} /\ C2sKeys \subseteq Keys /\ S2cKeys \subseteq Keys
<1>1. "C2S" # "S2C"
  OBVIOUS
<1>. QED BY <1>1, IdsFinite, Zenon DEF C2sKeys, S2cKeys, Keys

LEMMA EntriesApart == NoEntry \notin Entries
  BY DEF Entries, NoEntry, Methods

LEMMA NoEntryMethod == NoEntry.method = "none"
  BY Zenon DEF NoEntry

-----------------------------------------------------------------------------
(* A step that edits one entry and leaves both loops where they are.       *)

Moves(w, v, k) ==
  /\ Sound(v) /\ v.retired = w.retired /\ v.version = w.version
  /\ v.pending = NoCaps \/ (v.pending = w.pending /\ v.init = w.init)
  /\ \A j \in Keys : j # k => v.requests[j] = w.requests[j]
  /\ v.requests[k] # NoEntry => v.requests[k].method = w.requests[k].method

LEMMA TouchesMoves ==
  ASSUME NEW w, NEW v, NEW k, Touches(w, v, k)
  PROVE  Moves(w, v, k)
  BY Zenon DEF Touches, Moves, SameSession

LEMMA TouchesThenKeeps ==
  ASSUME NEW w, NEW v, NEW x, NEW k, Touches(w, v, k), Keeps(v, x)
  PROVE  Touches(w, x, k)
  BY Zenon DEF Touches, Keeps, SameRequests, SameSession

LEMMA MoveStep ==
  ASSUME WireInv, NEW k, Moves(wire, wire', k), owed' \subseteq owed,
         Awaits(k)' /\ Unanswered(wire, k) => Unanswered(wire', k),
         UNCHANGED <<c2s, s2c, session>>, hist' \in [offered : [ClientIds -> SUBSET ClientCaps],
                                agreed : SUBSET ClientCaps, reached : BOOLEAN],
         hist'.reached = hist.reached
  PROVE  Preserved
<1>. USE DEF WireInv
<1>1. c2s' = c2s /\ s2c' = s2c /\ session' = session
  BY Zenon
<1>2. TypeOK'
  <2>1. wire' \in Tables
    BY Zenon DEF Moves, Sound
  <2>. QED BY <1>1, <2>1, Zenon DEF TableInv, TypeOK, Tables
<1>3. TableInv'
  BY <1>1, <1>2, Zenon DEF TableInv, Moves
<1>4. OwedInv'
  <2>1. \A j \in Keys : Awaits(j)' => Awaits(j)
    BY <1>1, Zenon DEF Awaits
  <2>2. ASSUME NEW j \in Keys, Awaits(j)' PROVE Accounted(wire', j)
    <3>1. Accounted(wire, j)
      BY <2>1, <2>2, Zenon DEF OwedInv
    <3>2. CASE j = k
      BY <2>2, <3>1, <3>2, Zenon DEF Moves, Accounted
    <3>3. CASE j # k
      BY <3>1, <3>3, Zenon DEF Moves, Accounted, Unanswered
    <3>. QED BY <3>2, <3>3, Zenon
  <2>. QED BY <1>1, <2>2, Zenon DEF OwedInv
<1>5. VersionInv'
  BY <1>1, Zenon DEF VersionInv, Moves
<1>6. OfferInv'
  <2>. SUFFICES ASSUME session = "open"
                PROVE  /\ wire'.init # "pending" => wire'.pending = NoCaps
                       /\ wire'.pending # NoCaps => wire'.version = "v25"
                       /\ c2s.pc = "write" /\ wire'.requests[c2s.undo.key].method = "tools/call" =>
                            c2s.undo.pending = NoCaps
    BY <1>1, Zenon DEF OfferInv
  <2>1. /\ wire'.init # "pending" => wire'.pending = NoCaps
        /\ wire'.pending # NoCaps => wire'.version = "v25"
    BY Zenon DEF OfferInv, Moves
  <2>2. ASSUME c2s.pc = "write", wire'.requests[c2s.undo.key].method = "tools/call"
        PROVE  c2s.undo.pending = NoCaps
    <3>1. c2s.undo.key \in Keys
      BY <2>2, KeysApart, Zenon DEF TableInv
    <3>2. wire'.requests[c2s.undo.key] # NoEntry
      <4>1. "tools/call" # "none"
        OBVIOUS
      <4>. QED BY <2>2, <4>1, NoEntryMethod, Zenon
    <3>3. wire.requests[c2s.undo.key].method = "tools/call"
      BY <2>2, <3>1, <3>2, Zenon DEF Moves
    <3>. QED BY <2>2, <3>3, Zenon DEF OfferInv
  <2>. QED BY <2>1, <2>2, Zenon
<1>. QED BY <1>3, <1>4, <1>5, <1>6, Zenon DEF Preserved, Moves
LEMMA TouchStep ==
  ASSUME WireInv, NEW k, Touches(wire, wire', k), owed' \subseteq owed,
         Awaits(k)' /\ Unanswered(wire, k) => Unanswered(wire', k),
         UNCHANGED <<c2s, s2c, session, hist>>
  PROVE  Preserved
<1>1. hist' = hist /\ UNCHANGED <<c2s, s2c, session>>
  BY Zenon
<1>2. hist \in [offered : [ClientIds -> SUBSET ClientCaps], agreed : SUBSET ClientCaps,
                reached : BOOLEAN]
  BY Zenon DEF WireInv, TableInv, TypeOK
<1>3. Moves(wire, wire', k)
  BY TouchesMoves, Zenon
<1>. QED BY <1>1, <1>2, <1>3, MoveStep, Zenon

LEMMA KeyKinds ==
  /\ \A id \in ClientIds : <<"C2S", id>> \in Keys /\ <<"C2S", id>> \in C2sKeys
  /\ \A id \in InternalIds : <<"C2S", id>> \in Keys /\ <<"C2S", id>> \in S2cKeys
  /\ \A id \in ServerIds : <<"S2C", id>> \in Keys /\ <<"S2C", id>> \in S2cKeys
  BY DEF Keys, C2sKeys, S2cKeys

LEMMA CancelStep ==
  ASSUME WireInv, NEW id, C2sCancel(id) \/ S2cCancel(id)
  PROVE  Preserved
<1>1. PICK k \in Live(wire) : wire' = Cancelled(wire, k)
  BY Zenon DEF C2sCancel, S2cCancel
<1>2. UNCHANGED <<c2s, s2c, session, owed, hist>>
  BY Zenon DEF C2sCancel, S2cCancel
<1>3. k \in Keys /\ Sound(wire)
  BY <1>1, Zenon DEF Live, WireInv, TableInv
<1>4. Touches(wire, wire', k) /\ (Unanswered(wire, k) => Unanswered(wire', k))
  BY <1>1, <1>3, CancelledKept, Zenon
<1>5. owed' \subseteq owed /\ UNCHANGED <<c2s, s2c, session, hist>>
  BY <1>2, Zenon
<1>. QED BY <1>3, <1>4, <1>5, TouchStep, Zenon

LEMMA EndStep ==
  ASSUME WireInv, NEW id, S2cEndSubscription(id)
  PROVE  Preserved
<1>1. PICK k \in Live(wire) : wire' = EndSubscription(wire, k)
  BY Zenon DEF S2cEndSubscription
<1>2. UNCHANGED <<c2s, s2c, session, owed, hist>>
  BY Zenon DEF S2cEndSubscription
<1>3. k \in Keys /\ Sound(wire)
  BY <1>1, Zenon DEF Live, WireInv, TableInv
<1>4. Touches(wire, wire', k) /\ (Unanswered(wire, k) => Unanswered(wire', k))
  BY <1>1, <1>3, EndKept, Zenon
<1>5. owed' \subseteq owed /\ UNCHANGED <<c2s, s2c, session, hist>>
  BY <1>2, Zenon
<1>. QED BY <1>3, <1>4, <1>5, TouchStep, Zenon

LEMMA AckStep ==
  ASSUME WireInv, NEW id, S2cAcknowledged(id)
  PROVE  Preserved
<1>1. PICK k \in Live(wire) : /\ wire.requests[k].sub = "pending_ack"
                              /\ \E uris \in SUBSET wire.requests[k].requested :
                                   wire' = Acked(wire, k, uris)
  BY Zenon DEF S2cAcknowledged, AckExpected
<1>2. PICK uris \in SUBSET wire.requests[k].requested : wire' = Acked(wire, k, uris)
  BY <1>1, Zenon
<1>3. UNCHANGED <<c2s, s2c, session, owed, hist>>
  BY Zenon DEF S2cAcknowledged
<1>4. k \in Keys /\ Sound(wire)
  BY <1>1, Zenon DEF Live, WireInv, TableInv
<1>5. uris \in SUBSET Uris
  <2>1. wire.requests[k] \in Entries
    BY <1>1, <1>4, LiveEntry, Zenon
  <2>. QED BY <2>1, Zenon DEF Entries
<1>6. Touches(wire, wire', k) /\ (Unanswered(wire, k) => Unanswered(wire', k))
  BY <1>1, <1>2, <1>4, <1>5, AckedKept, Zenon
<1>7. owed' \subseteq owed /\ UNCHANGED <<c2s, s2c, session, hist>>
  BY <1>3, Zenon
<1>. QED BY <1>4, <1>6, <1>7, TouchStep, Zenon

LEMMA KeepsTouches ==
  ASSUME NEW w, NEW v, NEW k, Keeps(w, v)
  PROVE  Touches(w, v, k)
  BY Zenon DEF Touches, Keeps, SameRequests

LEMMA ElicitationStep ==
  ASSUME WireInv, S2cElicitationComplete
  PROVE  Preserved
<1>1. PICK el \in wire.elicitations : wire' = DropElicitation(wire, el)
  BY Zenon DEF S2cElicitationComplete
<1>2. UNCHANGED <<c2s, s2c, session, owed, hist>>
  BY Zenon DEF S2cElicitationComplete
<1>3. Sound(wire)
  BY Zenon DEF WireInv, TableInv
<1>4. Keeps(wire, wire')
  BY <1>1, <1>3, DropKept, Zenon
<1>5. Touches(wire, wire', el)
  BY <1>4, KeepsTouches, Zenon
<1>6. Unanswered(wire, el) => Unanswered(wire', el)
  BY <1>4, Zenon DEF Unanswered, Keeps, SameRequests
<1>7. owed' \subseteq owed /\ UNCHANGED <<c2s, s2c, session, hist>>
  BY <1>2, Zenon
<1>. QED BY <1>5, <1>6, <1>7, TouchStep, Zenon

(* An answer is consumed: its id stands for nothing any more.              *)
LEMMA AnswerConsumed ==
  ASSUME WireInv, NEW k \in owed, owed' = owed \ {k}, UNCHANGED <<c2s, s2c>>
  PROVE  ~Awaits(k)'
<1>1. c2s' = c2s /\ s2c' = s2c
  BY Zenon
<1>. QED BY <1>1, Zenon DEF WireInv, OwedInv, Awaits

LEMMA ResponseStep ==
  ASSUME WireInv, NEW id \in ServerIds, C2sResponse(id)
  PROVE  Preserved
<1>. DEFINE k == <<"S2C", id>>
<1>1. k \in Keys /\ Sound(wire)
  BY KeyKinds, Zenon DEF WireInv, TableInv
<1>2. k \in owed /\ owed' = owed \ {k} /\ UNCHANGED <<c2s, s2c, session, hist>>
  BY Zenon DEF C2sResponse
<1>3. wire' = RemoveRequest(wire, k) \/ wire' = wire
  BY Zenon DEF C2sResponse
<1>. HIDE DEF k
<1>4. Touches(wire, wire', k)
  BY <1>1, <1>3, RemoveTouches, KeepsItself, KeepsTouches, Zenon
<1>5. owed' \subseteq owed /\ ~Awaits(k)'
  <2>1. owed' = owed \ {k} /\ UNCHANGED <<c2s, s2c>>
    BY <1>2, Zenon
  <2>. QED BY <1>2, <2>1, AnswerConsumed, Zenon
<1>. QED BY <1>1, <1>2, <1>4, <1>5, TouchStep, Zenon

LEMMA ErrorStep ==
  ASSUME WireInv, NEW id \in ClientIds \cup InternalIds, S2cError(id)
  PROVE  Preserved
<1>. DEFINE k == <<"C2S", id>>
<1>1. k \in Keys /\ Sound(wire)
  BY KeyKinds, Zenon DEF WireInv, TableInv
<1>2. k \in owed /\ owed' = owed \ {k} /\ UNCHANGED <<c2s, s2c, session, hist>>
  BY Zenon DEF S2cError
<1>3. \/ wire' = RemoveRequest(wire, k) \/ wire' = wire
      \/ \E el \in Elicitations : wire' = TrackElicitation(RemoveRequest(wire, k), el)
  BY Zenon DEF S2cError
<1>. HIDE DEF k
<1>4. Touches(wire, wire', k)
  <2>1. CASE wire' = RemoveRequest(wire, k) \/ wire' = wire
    BY <1>1, <2>1, RemoveTouches, KeepsItself, KeepsTouches, Zenon
  <2>2. CASE \E el \in Elicitations : wire' = TrackElicitation(RemoveRequest(wire, k), el)
    <3>. DEFINE x == RemoveRequest(wire, k)
    <3>1. PICK el \in Elicitations : wire' = TrackElicitation(x, el)
      BY <2>2, Zenon
    <3>2. Touches(wire, x, k)
      BY <1>1, RemoveTouches, Zenon
    <3>. HIDE DEF x
    <3>3. Keeps(x, wire')
      BY <3>1, <3>2, TrackKept, Zenon DEF Touches
    <3>. QED BY <3>2, <3>3, TouchesThenKeeps, Zenon
  <2>. QED BY <1>3, <2>1, <2>2, Zenon
<1>5. owed' \subseteq owed /\ ~Awaits(k)'
  <2>1. owed' = owed \ {k} /\ UNCHANGED <<c2s, s2c>>
    BY <1>2, Zenon
  <2>. QED BY <1>2, <2>1, AnswerConsumed, Zenon
<1>. QED BY <1>1, <1>2, <1>4, <1>5, TouchStep, Zenon
LEMMA ResultStep ==
  ASSUME WireInv, NEW id \in ClientIds \cup InternalIds, S2cResult(id)
  PROVE  Preserved
<1>. DEFINE k == <<"C2S", id>>
            e == wire.requests[k]
            hs == [offered : [ClientIds -> SUBSET ClientCaps], agreed : SUBSET ClientCaps,
                   reached : BOOLEAN]
<1>1. k \in Keys /\ Sound(wire) /\ hist \in hs
  BY KeyKinds, Zenon DEF WireInv, TableInv, TypeOK
<1>2. k \in owed /\ owed' = owed \ {k} /\ UNCHANGED <<c2s, s2c, session>>
  BY Zenon DEF S2cResult
<1>3. owed' \subseteq owed /\ ~Awaits(k)'
  <2>1. owed' = owed \ {k} /\ UNCHANGED <<c2s, s2c>>
    BY <1>2, Zenon
  <2>. QED BY <1>2, <2>1, AnswerConsumed, Zenon
<1>4. CASE ~Correlates(wire, k)
  <2>1. wire' = wire /\ hist' = hist
    BY <1>4, Zenon DEF S2cResult
  <2>2. Touches(wire, wire', k)
    BY <1>1, <2>1, KeepsItself, KeepsTouches, Zenon
  <2>3. UNCHANGED <<c2s, s2c, session, hist>>
    BY <1>2, <2>1, Zenon
  <2>. HIDE DEF k
  <2>. QED BY <1>3, <2>2, <2>3, TouchStep, Zenon
<1>5. CASE Correlates(wire, k)
  <2>1. PICK caps \in IF e.method = "initialize" THEN SUBSET ServerCaps ELSE {{}} :
          wire' = IF e.method = "listen" THEN MarkResponded(wire, k)
                  ELSE OnResult(RemoveRequest(wire, k), e, caps)
    BY <1>5, Zenon DEF S2cResult
  <2>2. hist' = IF e.method = "initialize"
                THEN [hist EXCEPT !.agreed = hist.offered[id]] ELSE hist
    BY <1>5, Zenon DEF S2cResult
  <2>3. k \in Live(wire)
    BY <1>5, Zenon DEF Correlates
  <2>4. e \in Entries /\ EntryOK(k, e)
    BY <1>1, <2>3, LiveEntry, Zenon
  <2>5. caps \in SUBSET ServerCaps
    BY <2>1, Zenon
  <2>6. hist' \in hs /\ hist'.reached = hist.reached
    <3>1. CASE e.method = "initialize"
      <4>1. id \in ClientIds
        <5>1. <<"C2S", id>> \in {"C2S"} \X ClientIds
          BY <2>4, <3>1, Zenon DEF EntryOK
        <5>. QED BY <5>1
      <4>2. hist.offered \in [ClientIds -> SUBSET ClientCaps]
        BY <1>1, Zenon
      <4>3. hist.offered[id] \in SUBSET ClientCaps
        BY <4>1, <4>2, Zenon
      <4>4. hist' = [hist EXCEPT !.agreed = hist.offered[id]]
        BY <2>2, <3>1, Zenon
      <4>. QED BY <1>1, <4>3, <4>4, Zenon
    <3>2. CASE e.method # "initialize"
      BY <1>1, <2>2, <3>2, Zenon
    <3>. QED BY <3>1, <3>2, Zenon
  <2>7. Moves(wire, wire', k)
    <3>. HIDE DEF k
    <3>1. CASE e.method = "listen"
      <4>1. wire' = MarkResponded(wire, k)
        BY <2>1, <3>1, Zenon
      <4>2. Touches(wire, wire', k)
        BY <1>1, <2>3, <3>1, <4>1, MarkKept, Zenon
      <4>. QED BY <4>2, TouchesMoves, Zenon
    <3>2. CASE e.method # "listen"
      <4>. DEFINE x == RemoveRequest(wire, k)
      <4>1. wire' = OnResult(x, e, caps)
        BY <2>1, <3>2, Zenon
      <4>2. Touches(wire, x, k)
        BY <1>1, RemoveTouches, Zenon
      <4>. HIDE DEF x, e
      <4>3. Answers(x, wire', e)
        BY <2>4, <2>5, <4>1, <4>2, OnResultKept, Zenon DEF Touches
      <4>4. Sound(wire') /\ wire'.requests = x.requests /\ wire'.retired = wire.retired
        BY <4>2, <4>3, Zenon DEF Touches, Answers, SameRequests
      <4>5. wire'.version = wire.version
        BY <4>2, <4>3, Zenon DEF Touches, Answers, SameSession
      <4>6. wire'.pending = NoCaps \/ (wire'.pending = wire.pending /\ wire'.init = wire.init)
        <5>1. CASE e.method = "initialize"
          BY <4>3, <5>1, Zenon DEF Answers
        <5>2. CASE e.method # "initialize"
          BY <4>2, <4>3, <5>2, Zenon DEF Touches, Answers, SameSession
        <5>. QED BY <5>1, <5>2, Zenon
      <4>. QED BY <4>2, <4>4, <4>5, <4>6, Zenon DEF Touches, Moves
    <3>. QED BY <3>1, <3>2, Zenon
  <2>. HIDE DEF k, e
  <2>. QED BY <1>2, <1>3, <2>6, <2>7, MoveStep, Zenon DEF hs
<1>. QED BY <1>4, <1>5, Zenon

LEMMA InitializedStep ==
  ASSUME WireInv, C2sInitialized
  PROVE  Preserved
<1>. USE DEF WireInv
<1>1. /\ c2s' = c2s /\ s2c' = s2c /\ session' = session /\ owed' = owed /\ hist' = hist
      /\ wire' = [wire EXCEPT !.init = "operational"] /\ wire.init = "awaiting"
      /\ session = "open"
  BY Zenon DEF C2sInitialized, C2sReads
<1>2. Sound(wire) /\ wire \in Tables /\ wire.bytes <= MaxBytes
  BY Zenon DEF TableInv, Sound
<1>3. wire' \in Tables
  BY <1>1, <1>2, Zenon DEF Tables
<1>4. /\ SameRequests(wire, wire') /\ SameLists(wire, wire') /\ wire'.bytes = wire.bytes
      /\ wire'.version = wire.version /\ wire'.pending = wire.pending
  BY <1>1, <1>2, Zenon DEF Tables, SameRequests, SameLists
<1>5. Sound(wire')
  BY <1>2, <1>3, <1>4, SoundKept, Zenon
<1>6. TypeOK'
  BY <1>1, <1>3, Zenon DEF TableInv, TypeOK, Tables
<1>7. TableInv'
  BY <1>1, <1>5, <1>6, Zenon DEF TableInv
<1>8. OwedInv' /\ VersionInv'
  <2>1. OwedInv'
    BY <1>1, <1>4, Zenon DEF OwedInv, Awaits, Accounted, Unanswered, SameRequests
  <2>2. VersionInv'
    BY <1>1, <1>4, Zenon DEF VersionInv
  <2>. QED BY <2>1, <2>2, Zenon
<1>9. OfferInv'
  <2>1. wire.pending = NoCaps
    <3>1. "awaiting" # "pending"
      OBVIOUS
    <3>. QED BY <1>1, <3>1, Zenon DEF OfferInv
  <2>. QED BY <1>1, <1>4, <2>1, Zenon DEF OfferInv, SameRequests
<1>. QED BY <1>4, <1>7, <1>8, <1>9, Zenon DEF Preserved
-----------------------------------------------------------------------------
(* The steps that register a request.                                      *)

(* A registered id owes nothing, and what was owed is still accounted for. *)
LEMMA RegisterOwed ==
  ASSUME WireInv, NEW k \in Keys, NEW e, ~e.responded, e # NoEntry,
         NEW w, Registers(wire, w, k, e), Sound(wire'), SameRequests(w, wire')
  PROVE  /\ ~Awaits(k) /\ Accounted(wire', k)
         /\ \A j \in Keys : Awaits(j) => Accounted(wire', j)
<1>1. ~Awaits(k)
  BY Zenon DEF WireInv, OwedInv, Registers, Accounted, Unanswered
<1>2. Accounted(wire', k)
  BY Zenon DEF Registers, SameRequests, Accounted, Unanswered
<1>3. ASSUME NEW j \in Keys, Awaits(j) PROVE Accounted(wire', j)
  <2>1. j # k
    BY <1>1, <1>3, Zenon
  <2>2. Accounted(wire, j)
    BY <1>3, Zenon DEF WireInv, OwedInv
  <2>3. w.requests[j] = wire.requests[j] \/ j \in w.retired
    BY <2>1, Zenon DEF Registers
  <2>4. wire.retired \subseteq w.retired
    BY Zenon DEF Registers
  <2>. QED BY <2>2, <2>3, <2>4, Zenon DEF SameRequests, Accounted, Unanswered
<1>. QED BY <1>1, <1>2, <1>3, Zenon

(* The server loop registers: the client loop's request is not disturbed.  *)
LEMMA S2cRegisterStep ==
  ASSUME WireInv, NEW k \in S2cKeys, NEW e, ~e.responded, e # NoEntry,
         NEW w, Registers(wire, w, k, e), Keeps(w, wire'),
         NEW els \in SUBSET Elicitations, s2c' = Writing(Undo(w, k, els)),
         UNCHANGED <<c2s, session, owed, hist>>
  PROVE  Preserved
<1>. USE DEF WireInv
<1>1. c2s' = c2s /\ session' = session /\ owed' = owed /\ hist' = hist
  BY Zenon
<1>2. k \in Keys /\ w \in Tables
  BY KeysApart, Zenon DEF Registers, Sound
<1>. DEFINE u == Undo(w, k, els)
<1>3. u \in Undos /\ u.key = k
  BY <1>2, UndoTyped, Zenon DEF TokenOf
<1>. HIDE DEF u
<1>4. s2c'.pc = "write" /\ s2c'.undo.key = k
  BY <1>3, WritingFields, Zenon DEF u
<1>5. Sound(wire') /\ wire' \in Tables /\ SameRequests(w, wire') /\ SameSession(w, wire')
  BY Zenon DEF Keeps, Sound
<1>6. s2c' \in {Idle} \cup {Writing(x) : x \in Undos}
  BY <1>3, Zenon DEF u
<1>7. TypeOK'
  BY <1>1, <1>5, <1>6, Zenon DEF TableInv, TypeOK, Tables
<1>8. TableInv'
  BY <1>1, <1>4, <1>5, <1>7, Zenon DEF TableInv
<1>9. OwedInv'
  <2>1. /\ ~Awaits(k) /\ Accounted(wire', k)
        /\ \A j \in Keys : Awaits(j) => Accounted(wire', j)
    BY <1>2, <1>5, RegisterOwed, Zenon
  <2>2. \A j \in Keys : Awaits(j)' => Awaits(j) \/ j = k
    BY <1>1, <1>4, Zenon DEF Awaits
  <2>3. k \notin owed
    BY <2>1, Zenon DEF Awaits
  <2>. QED BY <1>1, <1>4, <2>1, <2>2, <2>3, Zenon DEF OwedInv
<1>10. SameSession(wire, wire')
  BY <1>5, Zenon DEF Registers, SameSession
<1>11. VersionInv'
  BY <1>1, <1>10, Zenon DEF VersionInv, SameSession
<1>12. OfferInv'
  <2>1. ASSUME c2s.pc = "write", wire'.requests[c2s.undo.key].method = "tools/call"
        PROVE  wire.requests[c2s.undo.key].method = "tools/call"
    <3>1. c2s.undo.key \in Keys /\ c2s.undo.key # k
      BY <2>1, KeysApart, Zenon DEF TableInv
    <3>2. wire'.requests[c2s.undo.key] # NoEntry
      <4>1. "tools/call" # "none"
        OBVIOUS
      <4>. QED BY <2>1, <4>1, NoEntryMethod, Zenon
    <3>3. wire'.requests[c2s.undo.key] = wire.requests[c2s.undo.key]
      BY <1>5, <3>1, <3>2, Zenon DEF Registers, SameRequests
    <3>. QED BY <2>1, <3>3, Zenon
  <2>. QED BY <1>1, <1>10, <2>1, Zenon DEF OfferInv, SameSession
<1>. QED BY <1>8, <1>9, <1>10, <1>11, <1>12, Zenon DEF Preserved, SameSession

LEMMA ServerRequestStep ==
  ASSUME WireInv, NEW id \in ServerIds, S2cRequest(id)
  PROVE  Preserved
<1>. DEFINE k == <<"S2C", id>>
<1>1. k \in Keys /\ k \in S2cKeys /\ Sound(wire)
  BY KeyKinds, Zenon DEF WireInv, TableInv
<1>2. UNCHANGED <<c2s, session, owed, hist>>
  BY Zenon DEF S2cRequest
<1>3. PICK m \in {"ping", "elicitation"} :
        \E els \in IF m = "elicitation" THEN {{el} : el \in Elicitations} \cup {{}} ELSE {{}} :
          \E w \in Registered(wire, k, Tracked(m, NoUri, NoLevel, {})) :
            LET new == {el \in els : CanTrack(w, el)}
            IN /\ wire' = IF new = {} THEN w ELSE TrackElicitation(w, CHOOSE el \in new : TRUE)
               /\ s2c' = Writing(Undo(w, k, new))
  BY Zenon DEF S2cRequest
<1>4. PICK els \in IF m = "elicitation" THEN {{el} : el \in Elicitations} \cup {{}} ELSE {{}},
           w \in Registered(wire, k, Tracked(m, NoUri, NoLevel, {})) :
        LET new == {el \in els : CanTrack(w, el)}
        IN /\ wire' = IF new = {} THEN w ELSE TrackElicitation(w, CHOOSE el \in new : TRUE)
           /\ s2c' = Writing(Undo(w, k, new))
  BY <1>3, Zenon
<1>. DEFINE new == {el \in els : CanTrack(w, el)}
            e == Tracked(m, NoUri, NoLevel, {})
            el == CHOOSE el \in new : TRUE
<1>5. els \in SUBSET Elicitations /\ new \in SUBSET Elicitations
  BY <1>4, Zenon
<1>6. m \in Methods /\ m # "initialize" /\ m # "subscribe"
  BY <1>3 DEF Methods
<1>. HIDE DEF k
<1>7. e \in Entries /\ EntryOK(k, e) /\ ~e.responded /\ e # NoEntry
  <2>1. /\ {} \in SUBSET Uris /\ NoUri \in Uris \cup {NoUri}
        /\ NoLevel \in Levels \cup {NoLevel}
    BY Zenon
  <2>2. EntryFor(e, k, m)
    BY <1>1, <1>6, <2>1, TrackedOK, Zenon
  <2>. QED BY <2>2, EntriesApart, Zenon DEF EntryFor
<1>8. Registers(wire, w, k, e)
  BY <1>1, <1>4, <1>7, RegisterKept, Zenon
<1>9. wire' = (IF new = {} THEN w ELSE TrackElicitation(w, el)) /\ s2c' = Writing(Undo(w, k, new))
  BY <1>4, Zenon
<1>. HIDE DEF e
<1>10. new # {} => el \in Elicitations
  BY <1>5, Zenon
<1>. HIDE DEF new, el
<1>11. Keeps(w, wire')
  <2>1. Sound(w)
    BY <1>8, Zenon DEF Registers
  <2>2. CASE new = {}
    BY <1>9, <2>1, <2>2, KeepsItself, Zenon
  <2>3. CASE new # {}
    BY <1>9, <1>10, <2>1, <2>3, TrackKept, Zenon
  <2>. QED BY <2>2, <2>3, Zenon
<1>. QED BY <1>1, <1>2, <1>5, <1>7, <1>8, <1>9, <1>11, S2cRegisterStep, Zenon

LEMMA InternalStep ==
  ASSUME WireInv, NEW id \in InternalIds, S2cInternal(id)
  PROVE  Preserved
<1>. DEFINE k == <<"C2S", id>>
            e == Tracked("tools/list", NoUri, NoLevel, {})
<1>1. k \in Keys /\ k \in S2cKeys /\ Sound(wire)
  BY KeyKinds, Zenon DEF WireInv, TableInv
<1>2. UNCHANGED <<c2s, owed, hist>>
  BY Zenon DEF S2cInternal
<1>3. \/ \E w \in Registered(wire, k, e) : /\ wire' = w
                                           /\ s2c' = Writing(Undo(w, k, {}))
                                           /\ UNCHANGED session
      \/ session' = "closed" /\ UNCHANGED <<wire, s2c>>
  BY Zenon DEF S2cInternal
<1>4. CASE \E w \in Registered(wire, k, e) : /\ wire' = w
                                             /\ s2c' = Writing(Undo(w, k, {}))
                                             /\ UNCHANGED session
  <2>1. PICK w \in Registered(wire, k, e) : /\ wire' = w
                                            /\ s2c' = Writing(Undo(w, k, {}))
                                            /\ UNCHANGED session
    BY <1>4, Zenon
  <2>2. "tools/list" \in Methods /\ "tools/list" # "initialize" /\ "tools/list" # "subscribe"
    BY DEF Methods
  <2>. HIDE DEF k
  <2>3. e \in Entries /\ EntryOK(k, e) /\ ~e.responded /\ e # NoEntry
    <3>1. /\ {} \in SUBSET Uris /\ NoUri \in Uris \cup {NoUri}
          /\ NoLevel \in Levels \cup {NoLevel}
      BY Zenon
    <3>2. EntryFor(e, k, "tools/list")
      BY <1>1, <2>2, <3>1, TrackedOK, Zenon
    <3>. QED BY <3>2, EntriesApart, Zenon DEF EntryFor
  <2>4. Registers(wire, w, k, e)
    BY <1>1, <2>1, <2>3, RegisterKept, Zenon
  <2>5. Keeps(w, wire')
    BY <2>1, <2>4, KeepsItself, Zenon DEF Registers
  <2>6. {} \in SUBSET Elicitations /\ UNCHANGED <<c2s, session, owed, hist>>
    BY <1>2, <2>1, Zenon
  <2>. HIDE DEF e
  <2>. QED BY <1>1, <2>1, <2>3, <2>4, <2>5, <2>6, S2cRegisterStep, Zenon
<1>5. CASE session' = "closed" /\ UNCHANGED <<wire, s2c>>
  <2>1. /\ wire' = wire /\ c2s' = c2s /\ s2c' = s2c /\ owed' = owed /\ hist' = hist
        /\ session' = "closed" /\ "closed" # "open"
    BY <1>2, <1>5
  <2>2. TypeOK'
    BY <2>1, Zenon DEF WireInv, TableInv, TypeOK
  <2>3. OwedInv'
    BY <2>1, Zenon DEF WireInv, OwedInv, Awaits
  <2>4. TableInv' /\ VersionInv' /\ OfferInv'
    BY <2>1, <2>2, Zenon DEF WireInv, TableInv, VersionInv, OfferInv
  <2>. QED BY <2>1, <2>3, <2>4, Zenon DEF WireInv, Preserved
<1>. QED BY <1>3, <1>4, <1>5, Zenon
(* c2s_request: what the policy and the revision let through.              *)
LEMMA ClientRequestStep ==
  ASSUME WireInv, NEW id \in ClientIds, C2sRequest(id)
  PROVE  Preserved
<1>. USE DEF WireInv
<1>. DEFINE k == <<"C2S", id>>
<1>1. k \in Keys /\ k \in C2sKeys /\ Sound(wire)
  BY KeyKinds, Zenon DEF TableInv
<1>2. session = "open" /\ s2c' = s2c /\ session' = session /\ owed' = owed
  BY Zenon DEF C2sRequest, C2sReads
<1>3. PICK m \in Methods \ {"tools/list", "elicitation"}, declares26 \in BOOLEAN :
     \E v \in RequestVersion(wire, m, declares26) \cap Revisions,
        uri \in IF m \in {"subscribe", "unsubscribe"} THEN Uris ELSE {NoUri},
        level \in IF m = "setLevel" THEN Levels ELSE {NoLevel},
        filters \in IF m = "listen" THEN SUBSET Uris ELSE {{}},
        caps \in IF m = "initialize" THEN SUBSET ClientCaps ELSE {{}} :
       /\ AllowedC2s(wire, v, m, uri)
       /\ m = "initialize" => OneInitialize
       /\ \E w \in Registered(wire, k, Tracked(m, uri, level, filters)) :
            /\ wire' = OnRequestForwarded(w, m, v, caps)
            /\ c2s' = Writing(Undo(w, k, {}))
       /\ hist' = IF m = "initialize" THEN [hist EXCEPT !.offered[id] = caps] ELSE hist
  BY Zenon DEF C2sRequest
<1>4. PICK v \in RequestVersion(wire, m, declares26) \cap Revisions,
        uri \in IF m \in {"subscribe", "unsubscribe"} THEN Uris ELSE {NoUri},
        level \in IF m = "setLevel" THEN Levels ELSE {NoLevel},
        filters \in IF m = "listen" THEN SUBSET Uris ELSE {{}},
        caps \in IF m = "initialize" THEN SUBSET ClientCaps ELSE {{}} :
       /\ AllowedC2s(wire, v, m, uri)
       /\ m = "initialize" => OneInitialize
       /\ \E w \in Registered(wire, k, Tracked(m, uri, level, filters)) :
            /\ wire' = OnRequestForwarded(w, m, v, caps)
            /\ c2s' = Writing(Undo(w, k, {}))
       /\ hist' = IF m = "initialize" THEN [hist EXCEPT !.offered[id] = caps] ELSE hist
  BY <1>3, Zenon
<1>. DEFINE e == Tracked(m, uri, level, filters)
<1>5. PICK w \in Registered(wire, k, e) :
        wire' = OnRequestForwarded(w, m, v, caps) /\ c2s' = Writing(Undo(w, k, {}))
  BY <1>4, Zenon
<1>6. /\ v \in {"v25", "v26"} /\ caps \in SUBSET ClientCaps /\ caps \in CapsOf(ClientCaps)
      /\ uri \in Uris \cup {NoUri} /\ level \in Levels \cup {NoLevel} /\ filters \in SUBSET Uris
      /\ m \in Methods /\ (m = "subscribe" => uri \in Uris)
  <2>1. v \in {"v25", "v26"}
    BY <1>4, RevisionsKnown, Zenon
  <2>2. caps \in SUBSET ClientCaps /\ caps \in CapsOf(ClientCaps)
    BY Zenon DEF CapsOf
  <2>3. uri \in Uris \cup {NoUri} /\ (m = "subscribe" => uri \in Uris)
    BY Zenon
  <2>4. level \in Levels \cup {NoLevel} /\ filters \in SUBSET Uris /\ m \in Methods
    BY Zenon
  <2>. QED BY <2>1, <2>2, <2>3, <2>4, Zenon
<1>. HIDE DEF k
<1>7. e \in Entries /\ EntryOK(k, e) /\ e.method = m /\ ~e.responded /\ e # NoEntry
  <2>1. EntryFor(e, k, m)
    BY <1>1, <1>6, TrackedOK, Zenon
  <2>. QED BY <2>1, EntriesApart, Zenon DEF EntryFor
<1>. HIDE DEF e
<1>8. Registers(wire, w, k, e)
  BY <1>1, <1>5, <1>7, RegisterKept, Zenon
<1>9. Sound(w) /\ w \in Tables /\ SameSession(wire, w) /\ w.requests[k] = e
  BY <1>8, Zenon DEF Registers, Sound
<1>10. Forwards(w, wire', m, v)
  BY <1>5, <1>6, <1>9, ForwardKept, Zenon
<1>11. Sound(wire') /\ wire' \in Tables /\ SameRequests(w, wire')
  BY <1>10, Zenon DEF Forwards, Sound
<1>. DEFINE u == Undo(w, k, {})
<1>12. u \in Undos /\ u.key = k /\ u.version = w.version /\ u.pending = w.pending
  <2>1. {} \in SUBSET Elicitations
    BY Zenon
  <2>2. TokenOf(u, w, k)
    BY <1>1, <1>9, <2>1, UndoTyped, Zenon
  <2>. HIDE DEF u
  <2>. QED BY <2>2, Zenon DEF TokenOf
<1>13. c2s' = Writing(u)
  BY <1>5, Zenon
<1>. HIDE DEF u
<1>14. /\ c2s'.pc = "write" /\ c2s'.undo.key = k
       /\ c2s'.undo.version = wire.version /\ c2s'.undo.pending = wire.pending
  BY <1>9, <1>12, <1>13, WritingFields, Zenon DEF SameSession
<1>15. c2s' \in {Idle} \cup {Writing(x) : x \in Undos}
  BY <1>12, <1>13, Zenon
<1>16. /\ hist' \in [offered : [ClientIds -> SUBSET ClientCaps], agreed : SUBSET ClientCaps,
                     reached : BOOLEAN]
       /\ hist'.reached = hist.reached
  <2>1. hist \in [offered : [ClientIds -> SUBSET ClientCaps], agreed : SUBSET ClientCaps,
                  reached : BOOLEAN]
    BY Zenon DEF TableInv, TypeOK
  <2>2. CASE m = "initialize"
    <3>1. hist' = [hist EXCEPT !.offered[id] = caps]
      BY <1>4, <2>2, Zenon
    <3>. QED BY <1>6, <2>1, <3>1, Zenon
  <2>3. CASE m # "initialize"
    BY <1>4, <2>1, <2>3, Zenon
  <2>. QED BY <2>2, <2>3, Zenon
<1>17. TypeOK'
  BY <1>2, <1>11, <1>15, <1>16, Zenon DEF TableInv, TypeOK, Tables
<1>18. TableInv'
  BY <1>1, <1>2, <1>11, <1>14, <1>17, Zenon DEF TableInv
<1>19. OwedInv'
  <2>1. /\ ~Awaits(k) /\ Accounted(wire', k)
        /\ \A j \in Keys : Awaits(j) => Accounted(wire', j)
    BY <1>1, <1>7, <1>8, <1>11, RegisterOwed, Zenon
  <2>2. \A j \in Keys : Awaits(j)' => Awaits(j) \/ j = k
    BY <1>2, <1>14, Zenon DEF Awaits
  <2>3. k \notin owed
    BY <2>1, Zenon DEF Awaits
  <2>. QED BY <1>2, <1>14, <2>1, <2>2, <2>3, Zenon DEF OwedInv
<1>20. /\ wire'.init = wire.init
       /\ wire.version = "none" => wire'.version = v
       /\ wire.version # "none" => wire'.version = wire.version
       /\ m # "initialize" => wire'.pending = wire.pending
  BY <1>9, <1>10, Zenon DEF Forwards, SameSession
<1>21. v # "none"
  BY <1>6
<1>22. VersionInv'
  BY <1>2, <1>14, <1>16, <1>20, <1>21, Zenon DEF VersionInv
<1>23. AllowedC2s(wire, v, m, uri) /\ v \in RequestVersion(wire, m, declares26)
  BY <1>4, Zenon
<1>24. OfferInv'
  <2>1. /\ wire.init # "pending" => wire.pending = NoCaps
        /\ wire.pending # NoCaps => wire.version = "v25"
    BY <1>2, Zenon DEF OfferInv
  <2>2. CASE m = "initialize"
    <3>1. wire.init = "pending" /\ v = "v25" /\ wire.version # "v26"
      BY <1>23, <2>2 DEF AllowedC2s, RequestVersion
    <3>2. wire.version \in {"none", "v25", "v26"}
      BY Zenon DEF TableInv, TypeOK
    <3>3. wire'.version = "v25" /\ wire'.init = "pending"
      BY <1>20, <3>1, <3>2, Zenon
    <3>4. wire'.requests[k].method = "initialize"
      BY <1>7, <1>9, <1>11, <2>2, Zenon DEF SameRequests
    <3>5. "initialize" # "tools/call"
      OBVIOUS
    <3>. QED BY <1>14, <3>3, <3>4, <3>5, Zenon DEF OfferInv
  <2>3. CASE m = "tools/call"
    <3>1. m # "initialize"
      BY <2>3
    <3>2. wire.pending = NoCaps
      <4>1. CASE v = "v26"
        <5>1. wire.version # "v25"
          BY <1>23, <2>3, <4>1 DEF RequestVersion
        <5>. QED BY <2>1, <5>1, Zenon
      <4>2. CASE v = "v25"
        <5>1. wire.init # "pending"
          BY <1>23, <2>3, <4>2 DEF AllowedC2s
        <5>. QED BY <2>1, <5>1, Zenon
      <4>. QED BY <1>6, <4>1, <4>2, Zenon
    <3>. QED BY <1>14, <1>20, <3>1, <3>2, Zenon DEF OfferInv
  <2>4. CASE m # "initialize" /\ m # "tools/call"
    <3>1. wire'.requests[k].method # "tools/call"
      BY <1>7, <1>9, <1>11, <2>4, Zenon DEF SameRequests
    <3>2. "v25" # "none"
      OBVIOUS
    <3>. QED BY <1>14, <1>20, <2>1, <2>4, <3>1, <3>2, Zenon DEF OfferInv
  <2>. QED BY <2>2, <2>3, <2>4, Zenon
<1>25. hist.reached => wire'.version = wire.version
  BY <1>2, <1>20, Zenon DEF VersionInv
<1>. QED BY <1>18, <1>19, <1>22, <1>24, <1>25, Zenon DEF Preserved
-----------------------------------------------------------------------------
(* The steps that end a write.                                             *)

LEMMA ClientWriteStep ==
  ASSUME WireInv, C2sWrite
  PROVE  Preserved
<1>. USE DEF WireInv
<1>1. /\ session = "open" /\ c2s.pc = "write" /\ owed' = owed \cup {c2s.undo.key}
      /\ c2s' = Idle /\ hist' = [hist EXCEPT !.reached = TRUE]
      /\ wire' = wire /\ s2c' = s2c /\ session' = session
  BY Zenon DEF C2sWrite
<1>2. c2s.undo.key \in C2sKeys /\ c2s.undo.key \in Keys /\ c2s'.pc # "write"
  BY <1>1, KeysApart, WritingFields, Zenon DEF TableInv
<1>3. /\ hist' \in [offered : [ClientIds -> SUBSET ClientCaps], agreed : SUBSET ClientCaps,
                    reached : BOOLEAN]
  BY <1>1, Zenon DEF TableInv, TypeOK
<1>4. TypeOK'
  BY <1>1, <1>2, <1>3, Zenon DEF TableInv, TypeOK
<1>5. TableInv'
  BY <1>1, <1>2, <1>4, Zenon DEF TableInv
<1>6. OwedInv'
  <2>1. \A j \in Keys : Awaits(j)' => Awaits(j)
    BY <1>1, <1>2, Zenon DEF Awaits
  <2>2. s2c.pc = "write" => s2c.undo.key # c2s.undo.key
    BY <1>2, KeysApart, Zenon DEF TableInv
  <2>. QED BY <1>1, <1>2, <2>1, <2>2, Zenon DEF OwedInv
<1>7. VersionInv'
  BY <1>1, <1>2, Zenon DEF VersionInv
<1>8. OfferInv'
  BY <1>1, <1>2, Zenon DEF OfferInv
<1>. QED BY <1>1, <1>5, <1>6, <1>7, <1>8, Zenon DEF Preserved

LEMMA ServerWriteStep ==
  ASSUME WireInv, S2cWrite
  PROVE  Preserved
<1>. USE DEF WireInv
<1>1. /\ session = "open" /\ s2c.pc = "write" /\ owed' = owed \cup {s2c.undo.key}
      /\ s2c' = Idle /\ hist' = hist /\ wire' = wire /\ c2s' = c2s /\ session' = session
  BY Zenon DEF S2cWrite
<1>2. s2c.undo.key \in S2cKeys /\ s2c.undo.key \in Keys /\ s2c'.pc # "write"
  BY <1>1, KeysApart, WritingFields, Zenon DEF TableInv
<1>3. TypeOK'
  BY <1>1, <1>2, Zenon DEF TableInv, TypeOK
<1>4. TableInv'
  BY <1>1, <1>2, <1>3, Zenon DEF TableInv
<1>5. OwedInv'
  <2>1. \A j \in Keys : Awaits(j)' => Awaits(j)
    BY <1>1, <1>2, Zenon DEF Awaits
  <2>2. c2s.pc = "write" => c2s.undo.key # s2c.undo.key
    BY <1>2, KeysApart, Zenon DEF TableInv
  <2>. QED BY <1>1, <1>2, <2>1, <2>2, Zenon DEF OwedInv
<1>6. VersionInv' /\ OfferInv'
  BY <1>1, Zenon DEF VersionInv, OfferInv
<1>. QED BY <1>1, <1>4, <1>5, <1>6, Zenon DEF Preserved

(* A rollback leaves every other id accounted for.                         *)
LEMMA UnwindOwed ==
  ASSUME WireInv, NEW u \in Undos, Unwinds(wire, wire', u)
  PROVE  \A j \in Keys : Awaits(j) /\ j # u.key => Accounted(wire', j)
<1>1. wire.requests \in [Keys -> Entries \cup {NoEntry}]
  BY Zenon DEF WireInv, TableInv, TypeOK
<1>2. ASSUME NEW j \in Keys, Awaits(j), j # u.key
      PROVE  Accounted(wire', j)
  <2>1. Accounted(wire, j)
    BY <1>2, Zenon DEF WireInv, OwedInv
  <2>2. wire'.requests = [wire.requests EXCEPT ![u.key] = NoEntry] /\ wire'.retired = wire.retired
    BY Zenon DEF Unwinds, Without
  <2>3. wire'.requests[j] = wire.requests[j]
    BY <1>1, <1>2, <2>2, Zenon
  <2>. QED BY <2>1, <2>2, <2>3, Zenon DEF Accounted, Unanswered
<1>. QED BY <1>2, Zenon

(* The client loop unwinds its request: a stale tools/call in an open      *)
(* session, or a failed write that closes it.                              *)
LEMMA ClientUnwindStep ==
  ASSUME WireInv, C2sStale \/ C2sWriteFails
  PROVE  Preserved
<1>. USE DEF WireInv
<1>1. /\ session = "open" /\ c2s.pc = "write" /\ wire' = RollbackForwarded(wire, c2s.undo)
      /\ c2s' = Idle /\ s2c' = s2c /\ owed' = owed /\ hist' = hist
  BY Zenon DEF C2sStale, C2sWriteFails
<1>2. \/ session' = "closed"
      \/ session' = session /\ wire.requests[c2s.undo.key].method = "tools/call"
  BY Zenon DEF C2sStale, C2sWriteFails
<1>3. /\ c2s.undo \in Undos /\ Sound(wire) /\ c2s'.pc # "write"
      /\ c2s.undo.key \in C2sKeys /\ c2s.undo.key \notin owed
  BY <1>1, TokensTyped, WritingFields, Zenon DEF TableInv, OwedInv
<1>4. Unwinds(wire, wire', c2s.undo)
  BY <1>1, <1>3, RollbackKept, Zenon
<1>5. Sound(wire') /\ wire' \in Tables
  BY <1>4, Zenon DEF Unwinds, Sound
<1>6. TypeOK'
  BY <1>1, <1>2, <1>5, Zenon DEF TableInv, TypeOK, Tables
<1>7. TableInv'
  BY <1>1, <1>3, <1>5, <1>6, Zenon DEF TableInv
<1>8. OwedInv'
  <2>1. s2c.pc = "write" => s2c.undo.key # c2s.undo.key
    BY <1>3, KeysApart, Zenon DEF TableInv
  <2>2. \A j \in Keys : Awaits(j)' => Awaits(j) /\ j # c2s.undo.key
    BY <1>1, <1>3, <2>1, Zenon DEF Awaits
  <2>3. \A j \in Keys : Awaits(j) /\ j # c2s.undo.key => Accounted(wire', j)
    BY <1>3, <1>4, UnwindOwed, Zenon
  <2>. QED BY <1>1, <1>3, <2>2, <2>3, Zenon DEF OwedInv
<1>9. CASE session' = "closed"
  <2>1. session' # "open"
    BY <1>9
  <2>. QED BY <1>7, <1>8, <2>1, Zenon DEF Preserved, VersionInv, OfferInv
<1>10. CASE session' = session /\ wire.requests[c2s.undo.key].method = "tools/call"
  <2>1. c2s.undo.pending = NoCaps
    BY <1>1, <1>10, Zenon DEF OfferInv
  <2>2. wire'.pending = NoCaps /\ wire'.version = c2s.undo.version
    BY <1>4, <2>1, Zenon DEF Unwinds
  <2>3. OfferInv'
    BY <1>3, <2>2, Zenon DEF OfferInv
  <2>4. VersionInv'
    BY <1>1, <1>3, <2>2, Zenon DEF VersionInv
  <2>5. hist.reached => wire'.version = wire.version
    BY <1>1, <2>2, Zenon DEF VersionInv
  <2>. QED BY <1>7, <1>8, <2>3, <2>4, <2>5, Zenon DEF Preserved
<1>. QED BY <1>2, <1>9, <1>10, Zenon

LEMMA ServerUnwindStep ==
  ASSUME WireInv, S2cWriteFails
  PROVE  Preserved
<1>. USE DEF WireInv
<1>1. /\ s2c.pc = "write" /\ s2c' = Idle /\ c2s' = c2s /\ owed' = owed /\ hist' = hist
      /\ session' = "closed" /\ (wire' = RollbackForwarded(wire, s2c.undo) \/ wire' = wire)
  BY Zenon DEF S2cWriteFails
<1>2. /\ s2c.undo \in Undos /\ Sound(wire) /\ s2c'.pc # "write"
      /\ s2c.undo.key \in S2cKeys /\ s2c.undo.key \notin owed
  BY <1>1, TokensTyped, WritingFields, Zenon DEF TableInv, OwedInv
<1>3. Unwinds(wire, wire', s2c.undo) \/ wire' = wire
  BY <1>1, <1>2, RollbackKept, Zenon
<1>4. Sound(wire') /\ wire' \in Tables
  BY <1>2, <1>3, Zenon DEF Unwinds, Sound
<1>5. TypeOK'
  BY <1>1, <1>4, Zenon DEF TableInv, TypeOK, Tables
<1>6. TableInv'
  BY <1>1, <1>2, <1>4, <1>5, Zenon DEF TableInv
<1>7. OwedInv'
  <2>1. c2s.pc = "write" => c2s.undo.key # s2c.undo.key
    BY <1>2, KeysApart, Zenon DEF TableInv
  <2>2. \A j \in Keys : Awaits(j)' => Awaits(j) /\ j # s2c.undo.key
    BY <1>1, <1>2, <2>1, Zenon DEF Awaits
  <2>3. \A j \in Keys : Awaits(j) /\ j # s2c.undo.key => Accounted(wire', j)
    BY <1>2, <1>3, UnwindOwed, Zenon DEF OwedInv
  <2>. QED BY <1>1, <1>2, <2>2, <2>3, Zenon DEF OwedInv
<1>8. session' # "open"
  BY <1>1
<1>. QED BY <1>6, <1>7, <1>8, Zenon DEF Preserved, VersionInv, OfferInv

-----------------------------------------------------------------------------
(* The invariant is inductive.                                             *)

LEMMA InitWireInv == Init => WireInv
<1>. SUFFICES ASSUME Init PROVE WireInv
  OBVIOUS
<1>1. /\ wire.requests = [k \in Keys |-> NoEntry] /\ wire.retired = {}
      /\ wire.elicitations = {} /\ wire.subscribed = {} /\ wire.bytes = 0
      /\ wire.pending = NoCaps /\ wire.version = "none" /\ wire.init = "pending"
  BY Zenon DEF Init
<1>2. /\ c2s.pc # "write" /\ s2c.pc # "write" /\ owed = {} /\ ~hist.reached
  BY WritingFields DEF Init
<1>3. NoCaps \in CapsOf(ClientCaps) /\ 0 \in Nat
  BY DEF CapsOf
<1>4. wire \in Tables
  BY <1>3, Zenon DEF Init, Tables
<1>5. TypeOK
  BY <1>4, Zenon DEF Init, TypeOK, Tables
<1>6. \A k \in Keys : wire.requests[k] = NoEntry
  BY <1>1, Zenon
<1>7. Live(wire) = {}
  BY <1>6, Zenon DEF Live
<1>8. Sound(wire)
  <2>1. Cardinality({}) = 0
    BY FS_EmptySet, Zenon
  <2>2. 0 <= MaxInFlight /\ 0 <= MaxRetired /\ 0 <= MaxElicit /\ 0 <= MaxSubscribed /\ 0 <= MaxBytes
    BY BoundsAreNat
  <2>. QED BY <1>1, <1>4, <1>6, <1>7, <2>1, <2>2, Zenon DEF Sound
<1>9. TableInv
  BY <1>2, <1>5, <1>8, Zenon DEF TableInv
<1>10. OwedInv
  BY <1>2, Zenon DEF OwedInv, Awaits
<1>11. VersionInv /\ OfferInv
  BY <1>1, <1>2, Zenon DEF VersionInv, OfferInv
<1>. QED BY <1>9, <1>10, <1>11, Zenon DEF WireInv

LEMMA StepPreserves ==
  ASSUME WireInv, [Next]_vars
  PROVE  /\ WireInv'
         /\ hist.reached /\ session' = "open" => wire'.version = wire.version
<1>1. CASE C2sStep
  <2>1. Preserved
    BY <1>1, ClientRequestStep, CancelStep, ClientWriteStep, ClientUnwindStep, InitializedStep,
       ResponseStep, Zenon DEF C2sStep
  <2>. QED BY <2>1, Zenon DEF Preserved
<1>2. CASE S2cStep
  <2>1. Preserved
    <3>1. CASE \E id \in ServerIds : S2cRequest(id) \/ S2cCancel(id)
      BY <3>1, ServerRequestStep, CancelStep, Zenon
    <3>2. CASE \E id \in InternalIds : S2cInternal(id)
      BY <3>2, InternalStep, Zenon
    <3>3. CASE S2cWrite \/ S2cWriteFails \/ S2cElicitationComplete
      BY <3>3, ServerWriteStep, ServerUnwindStep, ElicitationStep, Zenon
    <3>4. CASE \E id \in ClientIds \cup InternalIds :
                 S2cResult(id) \/ S2cError(id) \/ S2cEndSubscription(id) \/ S2cAcknowledged(id)
      BY <3>4, ResultStep, ErrorStep, EndStep, AckStep, Zenon
    <3>. QED BY <1>2, <3>1, <3>2, <3>3, <3>4, Zenon DEF S2cStep
  <2>. QED BY <2>1, Zenon DEF Preserved
<1>3. CASE UNCHANGED vars
  <2>1. /\ wire' = wire /\ c2s' = c2s /\ s2c' = s2c /\ session' = session
        /\ owed' = owed /\ hist' = hist
    BY <1>3, Zenon DEF vars
  <2>2. TableInv'
    <3>1. TypeOK'
      BY <2>1, Zenon DEF WireInv, TableInv, TypeOK
    <3>. QED BY <2>1, <3>1, Zenon DEF WireInv, TableInv
  <2>3. OwedInv'
    BY <2>1, Zenon DEF WireInv, OwedInv, Awaits
  <2>4. VersionInv' /\ OfferInv'
    BY <2>1, Zenon DEF WireInv, VersionInv, OfferInv
  <2>. QED BY <2>1, <2>2, <2>3, <2>4, Zenon DEF WireInv
<1>. QED BY <1>1, <1>2, <1>3, Zenon DEF Next

LEMMA WireCorrect == Spec => []WireInv
<1>1. WireInv /\ [Next]_vars => WireInv'
  BY StepPreserves, Zenon
<1>. QED BY <1>1, InitWireInv, PTL DEF Spec

(* No collection of the table ever outgrows its bound, however requests    *)
(* are registered, reclaimed, rolled back, cancelled and answered.         *)
THEOREM TableBounded == Spec => []Bounded
<1>1. WireInv => Bounded
  BY Zenon DEF WireInv, TableInv, Sound, Bounded
<1>. QED BY <1>1, WireCorrect, PTL

(* A late answer never completes a different request: an id about to be    *)
(* written owes nothing under an earlier bearer.                           *)
THEOREM LateAnswersNeverMatch == Spec => []LateAnswersHarmless
<1>1. WireInv => LateAnswersHarmless
  BY Zenon DEF WireInv, OwedInv, LateAnswersHarmless
<1>. QED BY <1>1, WireCorrect, PTL

(* What stays in the table past its result is a live subscription, and a   *)
(* cancelled subscription stays ended.                                     *)
THEOREM CompletedEntriesStayLive == Spec => []CompletedEntriesLive
<1>1. WireInv => CompletedEntriesLive
  BY Zenon DEF WireInv, TableInv, Sound, EntryOK, Live, CompletedEntriesLive
<1>. QED BY <1>1, WireCorrect, PTL

(* While the session is open no offered capability outlives the handshake, *)
(* whether or not the client pipelines its requests.                       *)
THEOREM OffersEndWithHandshake == Spec => []NoOfferAfterHandshake
<1>1. WireInv => NoOfferAfterHandshake
  BY Zenon DEF WireInv, OfferInv, NoOfferAfterHandshake
<1>. QED BY <1>1, WireCorrect, PTL

(* The revision is settled by the first request that reaches the server:   *)
(* no later step of an open session, a rollback included, changes it.      *)
THEOREM VersionStaysSettled == Spec => VersionSettled
<1>1. WireInv /\ [Next]_vars =>
        [hist.reached /\ session' = "open" => wire'.version = wire.version]_vars
  BY StepPreserves, Zenon
<1>. QED BY <1>1, WireCorrect, PTL DEF Spec, VersionSettled
=============================================================================
