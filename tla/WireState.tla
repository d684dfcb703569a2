------------------------------ MODULE WireState ------------------------------
(***************************************************************************)
(* The request table both relay directions of the Auditor share            *)
(* (src/auditor/proxy_rpc/wire.rs): which requests are in flight, which    *)
(* ids are retired, what the session negotiated, and the byte ledger that  *)
(* bounds it all.                                                          *)
(*                                                                         *)
(* The two loops run in one task and meet only at awaits, so a handler is  *)
(* one step up to its await: a request is registered in one step and       *)
(* written (or its registration rolled back) in a later one, and the other *)
(* loop runs in between.  The table is one record, wire, and the methods   *)
(* of the Rust struct are operators from a table to a table.               *)
(*                                                                         *)
(* Data: every peer string the ledger counts (a key, a method, a URI, a    *)
(* level, a capability name, an elicitation id) weighs one unit.  A value  *)
(* over the per-value cap is refused before the table is touched and so is *)
(* no step here.  The policy allows every method of the ledger; enforcing  *)
(* mode, not --dry-run.  A peer answers a request it received at most once *)
(* and answers nothing it was not asked: owed is the set of requests whose *)
(* answer may still come.                                                  *)
(***************************************************************************)
EXTENDS Integers, FiniteSets

CONSTANTS ClientIds,      \* ids the client gives its requests
          InternalIds,    \* ids of the Auditor's own tools/list requests
          ServerIds,      \* ids the server gives its requests
          Uris,           \* resource URIs
          Elicitations,   \* URL-mode elicitation ids
          NoLevel, Levels,\* log thresholds, and none set
          NoUri,          \* the None of an entry's uri
          MaxInFlight,    \* MAX_IN_FLIGHT_REQUESTS
          MaxRetired,     \* MAX_RETIRED_REQUEST_IDS
          MaxElicit,      \* MAX_PENDING_ELICITATIONS
          MaxSubscribed,  \* MAX_RESOURCE_SUBSCRIPTIONS
          MaxBytes,       \* MAX_WIRE_STATE_BYTES
          Revisions,      \* protocol revisions the client speaks
          Pipelined       \* the client may send initialize while one is unanswered

ASSUME BoundsAreNat ==
  /\ {MaxInFlight, MaxRetired, MaxElicit, MaxSubscribed, MaxBytes} \subseteq Nat
  /\ MaxInFlight > 0
ASSUME RevisionsKnown == Revisions \subseteq {"v25", "v26"} /\ Pipelined \in BOOLEAN
ASSUME NonesApart == NoUri \notin Uris /\ NoLevel \notin Levels
ASSUME IdsFinite == /\ IsFiniteSet(ClientIds) /\ IsFiniteSet(InternalIds)
                    /\ IsFiniteSet(ServerIds) /\ IsFiniteSet(Uris)
                    /\ IsFiniteSet(Elicitations)
                    /\ ClientIds \cap InternalIds = {}

VARIABLES wire,     \* the WireState
          c2s,      \* the client-to-server loop: what it awaits, and the undo token
          s2c,      \* the server-to-client loop, likewise
          session,  \* "open" until a write fails or the internal listing is refused
          owed,     \* keys of requests the peer received and has not answered
          hist      \* history: what each initialize offered, what was agreed, first forward

vars == <<wire, c2s, s2c, session, owed, hist>>

ClientCaps == {"elicitation"}
ServerCaps == {"resources.subscribe", "logging"}
NoCaps == {"none"}          \* the None of a capability list: no capability has this name
CapsOf(names) == (SUBSET names) \cup {NoCaps}

(* A key is a direction and an id: requests of opposite directions never   *)
(* collide.                                                                *)
Keys == ({"C2S"} \X (ClientIds \cup InternalIds)) \cup ({"S2C"} \X ServerIds)

Methods == {"initialize", "ping", "tools/call", "tools/list", "subscribe", "unsubscribe",
            "setLevel", "listen", "elicitation"}

Entries == [method : Methods, uri : Uris \cup {NoUri}, level : Levels \cup {NoLevel},
            cancelled : BOOLEAN, responded : BOOLEAN,
            sub : {"none", "pending_ack", "active", "ended"},
            requested : SUBSET Uris, acked : SUBSET Uris]

Tracked(m, uri, level, filters) ==
  [method |-> m, uri |-> uri, level |-> level, cancelled |-> FALSE, responded |-> FALSE,
   sub |-> IF m = "listen" THEN "pending_ack" ELSE "none",
   requested |-> IF m = "listen" THEN filters ELSE {}, acked |-> {}]

NoEntry == [method |-> "none"]

Undos == [key : Keys, version : {"none", "v25", "v26"}, pending : CapsOf(ClientCaps),
          elicitation : SUBSET Elicitations]
Idle == [pc |-> "read"]
Writing(undo) == [pc |-> "write", undo |-> undo]

Live(w) == {k \in Keys : w.requests[k] # NoEntry}

TypeOK ==
  /\ wire \in [requests : [Keys -> Entries \cup {NoEntry}], retired : SUBSET Keys,
               version : {"none", "v25", "v26"}, init : {"pending", "awaiting", "operational"},
               pending : CapsOf(ClientCaps), client_caps : SUBSET ClientCaps,
               server_caps : SUBSET ServerCaps, subscribed : SUBSET Uris,
               elicitations : SUBSET Elicitations, log_level : Levels \cup {NoLevel},
               bytes : Nat]
  /\ c2s \in {Idle} \cup {Writing(u) : u \in Undos}
  /\ s2c \in {Idle} \cup {Writing(u) : u \in Undos}
  /\ session \in {"open", "closed"}
  /\ owed \subseteq Keys
  /\ hist \in [offered : [ClientIds -> SUBSET ClientCaps], agreed : SUBSET ClientCaps,
               reached : BOOLEAN]

Init ==
  /\ wire = [requests |-> [k \in Keys |-> NoEntry], retired |-> {}, version |-> "none",
             init |-> "pending", pending |-> NoCaps, client_caps |-> {}, server_caps |-> {},
             subscribed |-> {}, elicitations |-> {}, log_level |-> NoLevel, bytes |-> 0]
  /\ c2s = Idle /\ s2c = Idle
  /\ session = "open"
  /\ owed = {}
  /\ hist = [offered |-> [i \in ClientIds |-> {}], agreed |-> {}, reached |-> FALSE]

-----------------------------------------------------------------------------
(* The byte ledger.                                                        *)

KeyBytes == 1
SlotBytes(v, none) == IF v = none THEN 0 ELSE 1
RequestBytes(e) == KeyBytes + 1 + SlotBytes(e.uri, NoUri) + SlotBytes(e.level, NoLevel)
                   + Cardinality(e.requested) + Cardinality(e.acked)
CapsBytes(caps) == IF caps = NoCaps THEN 0 ELSE Cardinality(caps)

(* Mutated form of Fits: the limit is off by one.                          *)
FitsPlusOne(w, n) == w.bytes + n <= MaxBytes + 1

Fits(w, n) == w.bytes + n <= MaxBytes
Charge(w, n) == [w EXCEPT !.bytes = @ + n]

Refund(w, n) == [w EXCEPT !.bytes = IF @ >= n THEN @ - n ELSE 0]

(* remove_request(key, false): the entry goes and its bytes come back.     *)
RemoveRequest(w, k) ==
  IF w.requests[k] = NoEntry THEN w
  ELSE Refund([w EXCEPT !.requests[k] = NoEntry], RequestBytes(w.requests[k]))

(* Mutated form of Retire: the id is freed, not retired.                   *)
RetireUnmarked(w, k) == RemoveRequest(w, k)

(* remove_request(key, true) and the insert into retired_ids: the id's own *)
(* bytes stay charged.                                                     *)
Retire(w, k) ==
  Refund([w EXCEPT !.requests[k] = NoEntry, !.retired = @ \cup {k}],
         RequestBytes(w.requests[k]) - KeyBytes)

-----------------------------------------------------------------------------
(* Registration: every table register may leave behind, none when it       *)
(* refuses.  Which cancelled entry is reclaimed is the hash map's choice.  *)

Reclaimable(w) == {k \in Live(w) : w.requests[k].cancelled /\ w.requests[k].sub = "none"}

Reclaimed(w) ==
  IF Cardinality(Live(w)) < MaxInFlight THEN {w}
  ELSE {Retire(w, k) : k \in {v \in Reclaimable(w) : Cardinality(w.retired) < MaxRetired}}

Registered(w, k, e) ==
  {Charge([v EXCEPT !.requests[k] = e], RequestBytes(e)) :
     v \in {r \in Reclaimed(w) : /\ k \notin Live(w)
                                 /\ k \notin w.retired
                                 /\ Fits(r, RequestBytes(e))}}

-----------------------------------------------------------------------------
(* Side effects of a forward, and their undo.                              *)

SetPendingInit(w, caps) ==
  LET freed == Refund(w, CapsBytes(w.pending))
  IN IF caps = NoCaps THEN [freed EXCEPT !.pending = NoCaps]
     ELSE IF Fits(freed, CapsBytes(caps))
          THEN Charge([freed EXCEPT !.pending = caps], CapsBytes(caps))
          ELSE [freed EXCEPT !.pending = {}]

CanTrack(w, el) == /\ el \notin w.elicitations
                   /\ Cardinality(w.elicitations) < MaxElicit
                   /\ Fits(w, 1)
TrackElicitation(w, el) ==
  IF CanTrack(w, el) THEN Charge([w EXCEPT !.elicitations = @ \cup {el}], 1) ELSE w

DropElicitation(w, el) ==
  IF el \in w.elicitations THEN Refund([w EXCEPT !.elicitations = @ \ {el}], 1) ELSE w

Undo(w, k, tracked) == [key |-> k, version |-> w.version, pending |-> w.pending,
                        elicitation |-> tracked]

(* on_request_forwarded, for a client's request.                           *)
OnRequestForwarded(w, m, v, caps) ==
  LET versioned == IF w.version = "none" THEN [w EXCEPT !.version = v] ELSE w
  IN IF m = "initialize" THEN SetPendingInit(versioned, caps) ELSE versioned

(* Mutated form of RollbackForwarded: the version is lost.                 *)
RollbackVersionless(w, u) ==
  LET restored == SetPendingInit([RemoveRequest(w, u.key) EXCEPT !.version = "none"], u.pending)
  IN IF u.elicitation = {} THEN restored
     ELSE DropElicitation(restored, CHOOSE el \in u.elicitation : TRUE)

RollbackForwarded(w, u) ==
  LET restored == SetPendingInit([RemoveRequest(w, u.key) EXCEPT !.version = u.version], u.pending)
  IN IF u.elicitation = {} THEN restored
     ELSE DropElicitation(restored, CHOOSE el \in u.elicitation : TRUE)

-----------------------------------------------------------------------------
(* What decide_mcp lets through, on the table's own facts.                 *)

(* request_version: the revision a client's request is judged under; none  *)
(* for a mid-session switch to 2026.                                       *)
RequestVersion(w, m, declares26) ==
  IF w.version = "v26" THEN {"v26"}
  ELSE IF m = "initialize" THEN {"v25"}
  ELSE IF declares26 THEN (IF w.version = "v25" THEN {} ELSE {"v26"})
  ELSE {"v25"}

AllowedC2s(w, v, m, uri) ==
  \/ v = "v26" /\ m \in {"tools/call", "listen"}
  \/ v = "v25" /\ m = "initialize" /\ w.init = "pending"
  \/ v = "v25" /\ m = "ping"
  \/ v = "v25" /\ w.init # "pending"
     /\ \/ m = "tools/call"
        \/ m = "subscribe" /\ "resources.subscribe" \in w.server_caps
        \/ m = "unsubscribe" /\ "resources.subscribe" \in w.server_caps /\ uri \in w.subscribed
        \/ m = "setLevel" /\ "logging" \in w.server_caps

AllowedS2c(w, m) ==
  /\ w.version # "v26"
  /\ \/ m = "ping"
     \/ m = "elicitation" /\ w.init = "operational" /\ "elicitation" \in w.client_caps

-----------------------------------------------------------------------------
(* The client-to-server loop.                                              *)

C2sReads == session = "open" /\ c2s = Idle
ServerLoopReads == session = "open" /\ s2c = Idle

OneInitialize == Pipelined \/ \A k \in Live(wire) : wire.requests[k].method # "initialize"

(* c2s_request up to the write: register and on_request_forwarded under    *)
(* one lock; a refusal answers the client with an error and changes        *)
(* nothing.                                                                *)
C2sRequest(id) ==
  /\ C2sReads
  /\ \E m \in Methods \ {"tools/list", "elicitation"}, declares26 \in BOOLEAN :
     \E v \in RequestVersion(wire, m, declares26) \cap Revisions,
        uri \in IF m \in {"subscribe", "unsubscribe"} THEN Uris ELSE {NoUri},
        level \in IF m = "setLevel" THEN Levels ELSE {NoLevel},
        filters \in IF m = "listen" THEN SUBSET Uris ELSE {{}},
        caps \in IF m = "initialize" THEN SUBSET ClientCaps ELSE {{}} :
       /\ AllowedC2s(wire, v, m, uri)
       /\ m = "initialize" => OneInitialize
       /\ \E w \in Registered(wire, <<"C2S", id>>, Tracked(m, uri, level, filters)) :
            /\ wire' = OnRequestForwarded(w, m, v, caps)
            /\ c2s' = Writing(Undo(w, <<"C2S", id>>, {}))
       /\ hist' = IF m = "initialize" THEN [hist EXCEPT !.offered[id] = caps] ELSE hist
  /\ UNCHANGED <<s2c, session, owed>>

C2sWrite ==
  /\ session = "open" /\ c2s.pc = "write"
  /\ owed' = owed \cup {c2s.undo.key}
  /\ c2s' = Idle
  /\ hist' = [hist EXCEPT !.reached = TRUE]
  /\ UNCHANGED <<wire, s2c, session>>

(* A tools/call whose verified set moved since admission is unwound and    *)
(* denied; the session goes on.                                            *)
C2sStale ==
  /\ session = "open" /\ c2s.pc = "write"
  /\ wire.requests[c2s.undo.key].method = "tools/call"
  /\ wire' = RollbackForwarded(wire, c2s.undo)
  /\ c2s' = Idle
  /\ UNCHANGED <<s2c, session, owed, hist>>

C2sWriteFails ==
  /\ session = "open" /\ c2s.pc = "write"
  /\ wire' = RollbackForwarded(wire, c2s.undo)
  /\ c2s' = Idle
  /\ session' = "closed"
  /\ UNCHANGED <<s2c, owed, hist>>

C2sInitialized ==
  /\ C2sReads
  /\ wire.version # "v26"
  /\ wire.init = "awaiting"
  /\ wire' = [wire EXCEPT !.init = "operational"]
  /\ UNCHANGED <<c2s, s2c, session, owed, hist>>

EndedEntry(e) == [e EXCEPT !.cancelled = TRUE, !.sub = IF @ = "none" THEN @ ELSE "ended"]

(* A forwarded cancel: a request already completed (a listen) is retired   *)
(* outright, one in flight keeps its entry for the late answer.            *)
Cancelled(w, k) ==
  IF w.requests[k].responded THEN RemoveRequest(w, k)
  ELSE [w EXCEPT !.requests[k] = EndedEntry(@)]

C2sCancel(id) ==
  /\ C2sReads
  /\ <<"C2S", id>> \in Live(wire)
  /\ wire' = Cancelled(wire, <<"C2S", id>>)
  /\ UNCHANGED <<c2s, s2c, session, owed, hist>>

(* c2s_response and c2s_oversize: forwarded, denied or unreadable, the     *)
(* client's answer consumes the server's request.                          *)
C2sResponse(id) ==
  /\ C2sReads
  /\ <<"S2C", id>> \in owed
  /\ wire' = IF <<"S2C", id>> \in Live(wire) THEN RemoveRequest(wire, <<"S2C", id>>) ELSE wire
  /\ owed' = owed \ {<<"S2C", id>>}
  /\ UNCHANGED <<c2s, s2c, session, hist>>

-----------------------------------------------------------------------------
(* The server-to-client loop.                                              *)

S2cRequest(id) ==
  /\ ServerLoopReads
  /\ \E m \in {"ping", "elicitation"} :
     \E els \in IF m = "elicitation" THEN {{el} : el \in Elicitations} \cup {{}} ELSE {{}} :
       /\ AllowedS2c(wire, m)
       /\ \E w \in Registered(wire, <<"S2C", id>>, Tracked(m, NoUri, NoLevel, {})) :
            LET new == {el \in els : CanTrack(w, el)}
            IN /\ wire' = IF new = {} THEN w ELSE TrackElicitation(w, CHOOSE el \in new : TRUE)
               /\ s2c' = Writing(Undo(w, <<"S2C", id>>, new))
  /\ UNCHANGED <<c2s, session, owed, hist>>

(* begin_revalidation and the next page of a listing: the Auditor's own    *)
(* tools/list is tracked like a client's, but leaves version and           *)
(* capabilities alone; a refused registration aborts the session.          *)
S2cInternal(id) ==
  /\ ServerLoopReads
  /\ wire.init # "pending" \/ wire.version = "v26"
  /\ <<"C2S", id>> \notin Live(wire) \cup wire.retired \cup owed
  /\ LET outcomes == Registered(wire, <<"C2S", id>>, Tracked("tools/list", NoUri, NoLevel, {}))
     IN \/ \E w \in outcomes : /\ wire' = w
                               /\ s2c' = Writing(Undo(w, <<"C2S", id>>, {}))
                               /\ UNCHANGED session
        \/ /\ outcomes = {}
           /\ session' = "closed"
           /\ UNCHANGED <<wire, s2c>>
  /\ UNCHANGED <<c2s, owed, hist>>

S2cWrite ==
  /\ session = "open" /\ s2c.pc = "write"
  /\ owed' = owed \cup {s2c.undo.key}
  /\ s2c' = Idle
  /\ UNCHANGED <<wire, c2s, session, hist>>

S2cWriteFails ==
  /\ session = "open" /\ s2c.pc = "write"
  /\ wire' = IF s2c.undo.key[1] = "S2C" THEN RollbackForwarded(wire, s2c.undo) ELSE wire
  /\ s2c' = Idle
  /\ session' = "closed"
  /\ UNCHANGED <<c2s, owed, hist>>

(* Mutated form of CommitInitialize: the offer is kept.                    *)
CommitInitializeCopied(w, caps) ==
  LET moved == [Refund(w, CapsBytes(w.client_caps)) EXCEPT
                  !.client_caps = IF w.pending = NoCaps THEN {} ELSE w.pending]
      freed == [Refund(moved, CapsBytes(w.server_caps)) EXCEPT !.server_caps = {}]
  IN [IF Fits(freed, CapsBytes(caps))
      THEN Charge([freed EXCEPT !.server_caps = caps], CapsBytes(caps)) ELSE freed
      EXCEPT !.init = "awaiting"]

(* The initialize result: offered capabilities move over, uncharged, and   *)
(* the displaced lists are refunded.                                       *)
CommitInitialize(w, caps) ==
  LET moved == [Refund(w, CapsBytes(w.client_caps)) EXCEPT
                  !.client_caps = IF w.pending = NoCaps THEN {} ELSE w.pending,
                  !.pending = NoCaps]
      freed == [Refund(moved, CapsBytes(w.server_caps)) EXCEPT !.server_caps = {}]
  IN [IF Fits(freed, CapsBytes(caps))
      THEN Charge([freed EXCEPT !.server_caps = caps], CapsBytes(caps)) ELSE freed
      EXCEPT !.init = "awaiting"]

Subscribe(w, uri) ==
  IF /\ uri \notin w.subscribed
     /\ Cardinality(w.subscribed) < MaxSubscribed
     /\ Fits(w, 1)
  THEN Charge([w EXCEPT !.subscribed = @ \cup {uri}], 1) ELSE w
Unsubscribe(w, uri) ==
  IF uri \in w.subscribed THEN Refund([w EXCEPT !.subscribed = @ \ {uri}], 1) ELSE w
SetLogLevel(w, level) ==
  LET freed == [Refund(w, SlotBytes(w.log_level, NoLevel)) EXCEPT !.log_level = NoLevel]
  IN IF Fits(freed, 1) THEN Charge([freed EXCEPT !.log_level = level], 1) ELSE freed

(* on_response_forwarded, for a result to the client's entry e.            *)
OnResult(w, e, caps) ==
  CASE e.method = "initialize"  -> CommitInitialize(w, caps)
    [] e.method = "subscribe"   -> Subscribe(w, e.uri)
    [] e.method = "unsubscribe" -> Unsubscribe(w, e.uri)
    [] e.method = "setLevel"    -> SetLogLevel(w, e.level)
    [] OTHER -> w

(* A listen outlives its result under the same id; one already ended or    *)
(* cancelled is freed.                                                     *)
MarkResponded(w, k) ==
  IF w.requests[k].sub = "ended" \/ w.requests[k].cancelled THEN RemoveRequest(w, k)
  ELSE [w EXCEPT !.requests[k].responded = TRUE]

Correlates(w, k) == k \in Live(w) /\ ~w.requests[k].responded

S2cResult(id) ==
  LET k == <<"C2S", id>>
      e == wire.requests[k]
  IN /\ ServerLoopReads
     /\ k \in owed
     /\ owed' = owed \ {k}
     /\ IF ~Correlates(wire, k) THEN UNCHANGED <<wire, hist>>
        ELSE /\ \E caps \in IF e.method = "initialize" THEN SUBSET ServerCaps ELSE {{}} :
                  wire' = IF e.method = "listen" THEN MarkResponded(wire, k)
                          ELSE OnResult(RemoveRequest(wire, k), e, caps)
             /\ hist' = IF e.method = "initialize"
                        THEN [hist EXCEPT !.agreed = hist.offered[id]] ELSE hist
     /\ UNCHANGED <<c2s, s2c, session>>

(* An error (which may name elicitations the retry waits for), a denied    *)
(* result, a malformed or an oversized frame: the entry is consumed.       *)
S2cError(id) ==
  LET k == <<"C2S", id>>
  IN /\ ServerLoopReads
     /\ k \in owed
     /\ owed' = owed \ {k}
     /\ IF ~Correlates(wire, k) THEN UNCHANGED wire
        ELSE \/ wire' = RemoveRequest(wire, k)
             \/ \E el \in Elicitations : wire' = TrackElicitation(RemoveRequest(wire, k), el)
     /\ UNCHANGED <<c2s, s2c, session, hist>>

(* 2025: the server cancels its own request.                               *)
S2cCancel(id) ==
  /\ ServerLoopReads
  /\ wire.version # "v26"
  /\ <<"S2C", id>> \in Live(wire)
  /\ wire' = Cancelled(wire, <<"S2C", id>>)
  /\ UNCHANGED <<c2s, s2c, session, owed, hist>>

(* 2026: the server ends a subscription that is pending or active.         *)
EndSubscription(w, k) ==
  IF w.requests[k].responded THEN RemoveRequest(w, k)
  ELSE [w EXCEPT !.requests[k].sub = "ended"]
S2cEndSubscription(id) ==
  LET k == <<"C2S", id>>
  IN /\ ServerLoopReads
     /\ wire.version = "v26"
     /\ k \in Live(wire) /\ wire.requests[k].sub \in {"pending_ack", "active"}
     /\ wire' = EndSubscription(wire, k)
     /\ UNCHANGED <<c2s, s2c, session, owed, hist>>

(* Mutated form of Acked: the growth is not charged.                       *)
AckedUncharged(w, k, uris) ==
  [w EXCEPT !.requests[k].sub = "active", !.requests[k].acked = uris]

(* The acknowledged filters: only the growth of the URI set is charged,    *)
(* and a full ledger keeps the set it has.                                 *)
Acked(w, k, uris) ==
  LET old == Cardinality(w.requests[k].acked)
      new == Cardinality(uris)
      active == [w EXCEPT !.requests[k].sub = "active"]
      replaced == [active EXCEPT !.requests[k].acked = uris]
  IN IF new <= old THEN Refund(replaced, old - new)
     ELSE IF Fits(w, new - old) THEN Charge(replaced, new - old) ELSE active

(* Mutated form of AckExpected: any listen may be acknowledged.            *)
AckExpectedAlways(e) == e.sub # "none"

AckExpected(e) == e.sub = "pending_ack"
S2cAcknowledged(id) ==
  LET k == <<"C2S", id>>
  IN /\ ServerLoopReads
     /\ wire.version = "v26"
     /\ k \in Live(wire) /\ AckExpected(wire.requests[k])
     /\ \E uris \in SUBSET wire.requests[k].requested : wire' = Acked(wire, k, uris)
     /\ UNCHANGED <<c2s, s2c, session, owed, hist>>

S2cElicitationComplete ==
  /\ ServerLoopReads
  /\ wire.version # "v26"
  /\ \E el \in wire.elicitations : wire' = DropElicitation(wire, el)
  /\ UNCHANGED <<c2s, s2c, session, owed, hist>>

C2sStep == \/ \E id \in ClientIds : C2sRequest(id) \/ C2sCancel(id)
           \/ C2sWrite \/ C2sStale \/ C2sWriteFails \/ C2sInitialized
           \/ \E id \in ServerIds : C2sResponse(id)
S2cStep == \/ \E id \in ServerIds : S2cRequest(id) \/ S2cCancel(id)
           \/ \E id \in InternalIds : S2cInternal(id)
           \/ S2cWrite \/ S2cWriteFails \/ S2cElicitationComplete
           \/ \E id \in ClientIds \cup InternalIds :
                S2cResult(id) \/ S2cError(id) \/ S2cEndSubscription(id) \/ S2cAcknowledged(id)
Next == C2sStep \/ S2cStep

Spec == Init /\ [][Next]_vars

-----------------------------------------------------------------------------
(* Properties.                                                             *)

(* The strings the entries of the table retain besides their keys: for     *)
(* each request, what is kept and where.                                   *)
Strings(e) ==
  {<<"method", e.method>>} \cup ({"uri"} \X ({e.uri} \ {NoUri}))
  \cup ({"level"} \X ({e.level} \ {NoLevel}))
  \cup ({"requested"} \X e.requested) \cup ({"acked"} \X e.acked)
Kept(w) == UNION {{k} \X Strings(w.requests[k]) : k \in Live(w)}

(* The ledger is exact: wire_bytes is what the collections retain, through *)
(* every registration, reclaim, rollback, acknowledgement and              *)
(* renegotiation ("Aggregate serialized bytes retained across all          *)
(* collections").  A refund too many would be hidden by saturating_sub.    *)
LedgerBalanced ==
  wire.bytes = (Cardinality(Live(wire)) + Cardinality(wire.retired)) * KeyBytes
               + Cardinality(Kept(wire))
               + CapsBytes(wire.pending) + CapsBytes(wire.client_caps)
               + CapsBytes(wire.server_caps) + Cardinality(wire.subscribed)
               + Cardinality(wire.elicitations) + SlotBytes(wire.log_level, NoLevel)

(* The table is well formed, and no collection outgrows its bound,         *)
(* reclaiming and rolling back included.                                   *)
Bounded == /\ TypeOK
           /\ Cardinality(Live(wire)) <= MaxInFlight
           /\ Cardinality(wire.retired) <= MaxRetired
           /\ Cardinality(wire.elicitations) <= MaxElicit
           /\ Cardinality(wire.subscribed) <= MaxSubscribed
           /\ wire.bytes <= MaxBytes

(* A request about to be written never carries an id whose earlier bearer  *)
(* the peer may still answer: a late response can never complete a         *)
(* different request (the reason retired_ids are never evicted).           *)
LateAnswersHarmless ==
  \A loop \in {c2s, s2c} : loop.pc = "write" => loop.undo.key \notin owed

(* An entry kept past its result is a live subscription, and a cancelled   *)
(* subscription stays ended: nothing completed and ended lingers in the    *)
(* table, and a late acknowledgement revives nothing.                      *)
CompletedEntriesLive ==
  \A k \in Live(wire) :
    LET e == wire.requests[k]
    IN /\ e.responded => e.sub \in {"pending_ack", "active"} /\ ~e.cancelled
       /\ e.cancelled /\ e.sub # "none" => e.sub = "ended"

(* Offered client capabilities never outlive the handshake: once an        *)
(* initialize was answered with a result none is pending, so no later      *)
(* answer can commit them.                                                 *)
NoOfferAfterHandshake ==
  session = "open" /\ wire.init # "pending" => wire.pending = NoCaps

(* The capabilities that gate server requests were offered by an           *)
(* initialize that was answered ("committed when its response forwards").  *)
CommittedWereOffered == wire.client_caps \subseteq hist.agreed

(* Once a client's request reached the server the revision is settled; the *)
(* rollback of a later request does not reopen it.                         *)
VersionSettled == [][hist.reached /\ session' = "open" => wire'.version = wire.version]_vars

=============================================================================
