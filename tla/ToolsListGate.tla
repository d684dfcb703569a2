--------------------------- MODULE ToolsListGate ---------------------------
(***************************************************************************)
(* The tools/list gate of the auditor: how the client-to-server loop (C2S) *)
(* and the server-to-client loop (S2C) share the busy gate `list_busy',    *)
(* the client listings in flight, the one held client listing, the         *)
(* dispatch epoch, and the verified tool set that tools/call authorization *)
(* is bound to.                                                            *)
(*                                                                         *)
(* Both loops are futures of one task (auditor/proxy.rs), so the code      *)
(* between two awaits is one atomic step here.  The program counters `c2s' *)
(* and `s2c' stand at the awaits where the other loop may run and change   *)
(* what this one has read.                                                 *)
(*                                                                         *)
(* The server may answer a request it has received with anything, or not   *)
(* at all, send `list_changed' whenever it likes, and close its stdout.  A *)
(* second answer to a request resolves to no tracked entry and is dropped; *)
(* like a refused tools/call it changes nothing and is a stuttering step.  *)
(* An I/O or audit error ends the session where it stands, as a behaviour  *)
(* that stops.                                                             *)
(***************************************************************************)
EXTENDS Naturals, FiniteSets

CONSTANTS
    ClientIds,        \* JSON-RPC ids of the client's tools/list requests
    InternalIds,      \* ids of the reserved namespace only the auditor mints
    Tools,            \* tool names
    Allowed,          \* the tools the static policy allows
    Pinned,           \* the policy has a tools-list-hash pin
    FailOn,           \* fail-on is stricter than `none'
    DryRun,           \* --dry-run
    None,             \* Option::None
    MaxPages,         \* MAX_PAGES
    MaxPending,       \* MAX_PENDING_TOOLS_LIST
    MaxListChanged    \* bound on the list_changed notifications of the server

ASSUME IdsAssumption ==
    /\ ClientIds \cap InternalIds = {}
    /\ None \notin ClientIds \cup InternalIds
ASSUME PolicyAssumption ==
    /\ Allowed \subseteq Tools
    /\ Pinned \in BOOLEAN /\ FailOn \in BOOLEAN /\ DryRun \in BOOLEAN
ASSUME BoundsAssumption ==
    MaxPages \in Nat /\ MaxPending \in Nat /\ MaxListChanged \in Nat

AllIds == ClientIds \cup InternalIds

\* list_verification_required
Required == Pinned \/ FailOn

VARIABLES
    \* ProxyShared
    list_busy,    \* the gate: tools/call is denied while it is up
    list_kick,    \* a wake-up for the S2C loop is due
    list_epoch,   \* C2S holds the dispatch epoch
    cancelled,    \* cancelled_list_id
    held,         \* held_client_list
    pending,      \* pending_tools_list
    originals,    \* keys of original_tools_list
    failure,      \* internal_list_failure
    verified,     \* verified_tools
    wire,         \* the tools/list entries of the wire table
    st,           \* S2cListState
    s2c, cur,     \* the S2C loop: program counter, locals alive at an await
    c2s, req, call,   \* the C2S loop: program counter, current request
    session,      \* run_proxy
    hist          \* what the environment did and the client has seen

c2sVars == <<c2s, req, call>>
s2cVars == <<s2c, cur>>
vars == <<list_busy, list_kick, list_epoch, cancelled, held, pending,
          originals, failure, verified, wire, st, s2cVars, c2sVars, session,
          hist>>

-----------------------------------------------------------------------------
(* Values *)

\* A server frame that answers a tools/list: a page with or without a
\* nextCursor, a JSON-RPC error, a page the pipeline cannot accept, or a
\* response that the policy denies or the reader finds oversized.
FrameKinds == {"page", "last", "error", "invalid", "rejected"}
ServerFrames ==
    [id : AllIds, kind : {"page", "last"}, tools : SUBSET Tools]
      \cup [id : AllIds, kind : {"error", "invalid", "rejected"}, tools : {{}}]

ListState ==
    [client : AllIds \cup {None},       \* collecting_client_id
     waiting : InternalIds \cup {None}, \* waiting_internal_id
     tools : SUBSET Tools,              \* accumulated_tools
     pages : 0 .. MaxPages,             \* page_count
     held : BOOLEAN,                    \* held_list_changed
     queued : BOOLEAN,                  \* pending_revalidate
     revalidating : BOOLEAN]            \* internal_revalidation

\* The frame in hand, whether it answers the internal request waited for, the
\* client id to emit to, and the queued revalidation taken.
Locals ==
    [id : AllIds \cup {None}, kind : FrameKinds, tools : SUBSET Tools,
     internal : BOOLEAN, emit : AllIds \cup {None}, revalidate : BOOLEAN]

\* sent, dropped: ids of the tools/list the client sent, and of those it
\* cancelled while they were held; answers: responses per id, counted up to 2;
\* changes: list_changed notifications so far; stale: the last one came after
\* the collection at hand was requested; unwound: an error of the initial
\* internal listing unwound it although a list_changed was held.
History ==
    [sent : SUBSET ClientIds, dropped : SUBSET ClientIds,
     answers : [AllIds -> 0 .. 2], changes : 0 .. MaxListChanged,
     stale : BOOLEAN, unwound : BOOLEAN]

S2cPc == {"probe", "read", "resume", "resume_drain", "route", "bind", "next",
          "verify", "release", "emit", "drain", "error_drain", "rejected",
          "reject_release", "failed"}
C2sListPc == {"arm_lost", "arm_hold", "arm_retry", "arm_refuse", "register",
              "send", "cancel"}
C2sPc == C2sListPc \cup {"idle", "call_check", "call_register", "call_epoch",
                         "call_write", "eof"}

TypeOK ==
    /\ list_busy \in BOOLEAN /\ list_kick \in BOOLEAN /\ list_epoch \in BOOLEAN
    /\ cancelled \in ClientIds \cup {None}
    /\ held \in ClientIds \cup {None}
    /\ pending \subseteq ClientIds
    /\ originals \subseteq ClientIds
    /\ failure \in {"none", "unanswered", "answered"}
    /\ verified \in [generation : Nat, names : SUBSET Tools]
    /\ wire \in [AllIds -> {"none", "registered", "live", "cancelled"}]
    /\ st \in ListState
    /\ s2c \in S2cPc
    /\ cur \in Locals
    /\ c2s \in C2sPc
    /\ req \in ClientIds \cup {None}
    /\ c2s \in C2sListPc => req \in ClientIds
    /\ call \in [tool : Tools \cup {None}, gen : Nat]
    /\ session \in {"running", "aborting", "closed"}
    /\ hist \in History

Init ==
    /\ list_busy = FALSE /\ list_kick = FALSE /\ list_epoch = FALSE
    /\ cancelled = None
    /\ held = None
    /\ pending = {}
    /\ originals = {}
    /\ failure = "none"
    /\ verified = [generation |-> 0, names |-> {}]
    /\ wire = [id \in AllIds |-> "none"]
    /\ st = [client |-> None, waiting |-> None, tools |-> {}, pages |-> 0,
             held |-> FALSE, queued |-> FALSE, revalidating |-> FALSE]
    \* a 2025 session has just forwarded the `initialize' result, a 2026 one
    \* has no `initialize' and starts reading
    /\ s2c \in {"probe", "read"}
    /\ cur = [id |-> None, kind |-> "error", tools |-> {}, internal |-> FALSE,
              emit |-> None, revalidate |-> FALSE]
    /\ c2s = "idle"
    /\ req = None
    /\ call = [tool |-> None, gen |-> 0]
    /\ session = "running"
    /\ hist = [sent |-> {}, dropped |-> {}, answers |-> [id \in AllIds |-> 0],
               changes |-> 0, stale |-> FALSE, unwound |-> FALSE]

-----------------------------------------------------------------------------
(* S2cListState *)

Idle ==
    /\ st.client = None /\ st.waiting = None /\ st.tools = {}
    /\ ~st.revalidating

\* hold_list_changed: a listing in flight queues the revalidation.
InFlight(already_busy) ==
    already_busy \/ st.client # None \/ st.waiting # None \/ st.tools # {}

NeedsClientBinding == st.client = None /\ ~st.revalidating

RequiresAbortOnError == st.revalidating \/ st.held

HasIncompleteListing == st.client # None \/ RequiresAbortOnError

DiscardPages(s) == [s EXCEPT !.tools = {}, !.pages = 0, !.waiting = None]

\* begin_revalidation and expect_internal_response.
Revalidating(s, k) ==
    [DiscardPages(s) EXCEPT !.revalidating = TRUE, !.waiting = k]

-----------------------------------------------------------------------------
(* Shared pieces of the handlers *)

\* hist after one more response on request id x has reached the client.
Answer(h, x) ==
    IF x = None THEN h
    ELSE [h EXCEPT !.answers[x] = IF @ = 0 THEN 1 ELSE 2]

\* client_facing_id: the bound client id, or the id of the frame unless the
\* frame answers an internal request.
ClientFacing(bound, id, internal) ==
    IF bound # None THEN bound ELSE IF internal THEN None ELSE id

\* Mutated forms of RaiseListGate: the raise does not wait for the dispatch
\* epoch; the gate is not raised.
RaiseWithoutEpoch == list_busy' = TRUE
RaiseForgotten == ~list_epoch /\ UNCHANGED list_busy

\* raise_list_gate waits for the dispatch epoch.
RaiseListGate == ~list_epoch /\ list_busy' = TRUE

\* Mutated form of Kick: the wake-up is forgotten.
KickForgotten == UNCHANGED list_kick

\* list_kick.notify_one: at most one permit is stored.
Kick == list_kick' = TRUE

\* The retained request templates of these listings are released.
DropTemplates(ids) == originals' = originals \ ids

\* The session ends with VerificationFailed.  run_proxy drives C2S through
\* its abort arm unless the client had closed its side before.
Abort(answered) ==
    /\ failure' = answered
    /\ s2c' = "failed"
    /\ session' = IF c2s = "eof" THEN "closed" ELSE "aborting"

\* Mutated form of TakeHeld: the held listing is read but not taken.
TakeHeldPeeked(resolved) == held' = held

\* failure_emit_id takes the held listing when the failure has no id itself.
TakeHeld(resolved) == held' = IF resolved # None THEN held ELSE None

\* failure_emit_id, the error response on the id it returns, and the abort.
FailAndEmit(resolved) ==
    LET emit == IF resolved # None THEN resolved ELSE held
    IN  /\ TakeHeld(resolved)
        /\ hist' = Answer(hist, emit)
        /\ Abort(IF emit = None THEN "unanswered" ELSE "answered")

\* Register an internal tools/list under an id no tracked request has, and
\* write it to the child.  With the child's stdin closed the write fails and
\* the session ends.
SendInternal(k) ==
    /\ wire[k] = "none"
    /\ wire' = [wire EXCEPT ![k] = "live"]
    /\ s2c' = "read"
    /\ session' = IF c2s = "eof" THEN "closed" ELSE session
    /\ UNCHANGED failure

\* begin_revalidation from collection state s; a refused registration aborts.
BeginRevalidation(s) ==
    \E k \in InternalIds :
        /\ st' = Revalidating(s, k)
        /\ SendInternal(k) \/ (Abort("unanswered") /\ UNCHANGED wire)

NoRevalidation == UNCHANGED <<wire, session, failure>>

-----------------------------------------------------------------------------
(* The S2C loop *)

S2cAt(pc) == s2c = pc /\ session = "running"

\* s2c_response after an `initialize' result was forwarded: the initial
\* internal listing, when verification is enforced and the server has tools.
S2cProbe ==
    /\ S2cAt("probe")
    /\ \/ /\ Required /\ verified.generation = 0 /\ Idle
          /\ RaiseListGate
          /\ IF list_busy THEN s2c' = "read" /\ NoRevalidation /\ UNCHANGED st
             ELSE BeginRevalidation(st)
       \/ s2c' = "read" /\ NoRevalidation /\ UNCHANGED <<list_busy, st>>
    /\ UNCHANGED <<list_kick, list_epoch, cancelled, held, pending, originals,
                   verified, cur, c2sVars, hist>>

\* handle_list_changed: raise the gate, hold the notification, and start or
\* queue a revalidation.
S2cListChanged ==
    /\ S2cAt("read")
    /\ hist.changes < MaxListChanged
    /\ RaiseListGate
    /\ hist' = [hist EXCEPT !.changes = @ + 1, !.stale = InFlight(list_busy)]
    /\ IF InFlight(list_busy)
       THEN /\ st' = [st EXCEPT !.held = TRUE, !.queued = TRUE]
            /\ NoRevalidation /\ UNCHANGED s2c
       ELSE BeginRevalidation([st EXCEPT !.held = TRUE])
    /\ UNCHANGED <<list_kick, list_epoch, cancelled, held, pending, originals,
                   verified, cur, c2sVars>>

\* s2c_loop wakes on list_kick; resume_queued_revalidation takes the
\* cancelled id and releases the collection bound to it, with the wire entry
\* of its page request.
S2cKick ==
    /\ S2cAt("read")
    /\ list_kick
    /\ list_kick' = FALSE
    /\ cancelled' = None
    /\ s2c' = "resume"
    /\ IF cancelled # None /\ st.client = cancelled
       THEN /\ st' = [DiscardPages(st) EXCEPT !.client = None]
            /\ wire' = [id \in AllIds |-> IF id = st.waiting THEN "none"
                                          ELSE wire[id]]
       ELSE UNCHANGED <<st, wire>>
    /\ UNCHANGED <<list_busy, list_epoch, held, pending, originals, failure,
                   verified, cur, c2sVars, session, hist>>

\* Mutated form of ListingInProgress: an armed listing without a page yet is
\* overlooked.
ListingInProgressUnarmed == ~Idle

ListingInProgress == ~Idle \/ pending # {}

\* The rest of resume_queued_revalidation: leave the gate to the listing that
\* owns it, drive the queued revalidation, or lower the gate.
S2cResume ==
    /\ S2cAt("resume")
    /\ \/ /\ ListingInProgress
          /\ s2c' = "read"
          /\ NoRevalidation /\ UNCHANGED <<list_busy, st, hist>>
       \/ /\ ~ListingInProgress /\ st.queued
          /\ BeginRevalidation([st EXCEPT !.queued = FALSE])
          /\ hist' = [hist EXCEPT !.stale = FALSE]
          /\ UNCHANGED list_busy
       \/ /\ ~ListingInProgress /\ ~st.queued
          /\ list_busy' = FALSE
          /\ s2c' = "resume_drain"
          /\ NoRevalidation /\ UNCHANGED <<st, hist>>
    /\ UNCHANGED <<list_kick, list_epoch, cancelled, held, pending, originals,
                   verified, cur, c2sVars>>

\* answer_held_client_list_with_error, once the gate is down.
S2cResumeDrain ==
    /\ S2cAt("resume_drain")
    /\ held' = None
    /\ hist' = Answer(hist, held)
    /\ s2c' = "read"
    /\ UNCHANGED <<list_busy, list_kick, list_epoch, cancelled, pending,
                   originals, failure, verified, wire, st, cur, c2sVars,
                   session>>

\* The server has received this request and the wire table tracks it.
Outstanding(id) == wire[id] \in {"live", "cancelled"}

\* s2c_response and s2c_oversize up to the audit await: a response to a
\* tracked tools/list takes its wire entry.  The answer to a listing that was
\* cancelled in the meantime is dropped.
S2cResponse ==
    /\ S2cAt("read")
    /\ \E f \in ServerFrames :
         /\ Outstanding(f.id)
         /\ wire' = [wire EXCEPT ![f.id] = "none"]
         /\ IF f.id \in ClientIds \ pending
            THEN UNCHANGED s2cVars
            ELSE /\ s2c' = IF f.kind = "rejected" THEN "rejected" ELSE "route"
                 /\ cur' = [cur EXCEPT !.id = f.id, !.kind = f.kind,
                                       !.tools = f.tools,
                                       !.internal = (f.id = st.waiting)]
    /\ UNCHANGED <<list_busy, list_kick, list_epoch, cancelled, held, pending,
                   originals, failure, verified, st, c2sVars, session, hist>>

\* s2c_frame on an envelope that classify_frame refused: on a tracked listing
\* the session fails; another tracked request is consumed and answered.
S2cMalformed ==
    /\ S2cAt("read")
    /\ \E id \in AllIds :
         /\ Outstanding(id)
         /\ IF id \in pending \/ id = st.waiting
            THEN /\ FailAndEmit(ClientFacing(st.client, id, id = st.waiting))
                 /\ UNCHANGED wire
            ELSE /\ wire' = [wire EXCEPT ![id] = "none"]
                 /\ hist' = Answer(hist, id)
                 /\ UNCHANGED <<held, failure, s2c, session>>
    /\ UNCHANGED <<list_busy, list_kick, list_epoch, cancelled, pending,
                   originals, verified, st, cur, c2sVars>>

\* The server closes its stdout.
S2cEof ==
    /\ S2cAt("read")
    /\ IF HasIncompleteListing \/ list_busy THEN Abort("unanswered")
       ELSE session' = "closed" /\ UNCHANGED <<failure, s2c>>
    /\ UNCHANGED <<list_busy, list_kick, list_epoch, cancelled, held, pending,
                   originals, verified, wire, st, cur, c2sVars, hist>>

-----------------------------------------------------------------------------
(* handle_tools_list_response and verify_and_emit_list *)

S2cUnchanged == UNCHANGED <<list_kick, list_epoch, cancelled, c2sVars>>

IsToolsListResponse == cur.id \in pending \/ cur.internal

\* With a pin, any result that has a `tools' member is treated as a listing.
SeemsToolsList == IsToolsListResponse \/ Pinned

\* ListFlow::ForwardRaw: the frame is no part of tools/list handling any more
\* and is dropped.
S2cRouteDrop ==
    /\ S2cAt("route")
    /\ ~IsToolsListResponse
    /\ Pinned => cur.kind \notin {"page", "last"}
    /\ s2c' = "read"
    /\ UNCHANGED <<list_busy, held, pending, originals, failure, verified,
                   wire, st, cur, session, hist>>
    /\ S2cUnchanged

\* append_page and note_page_bytes accept another page.
PageBudgetLeft == st.pages < MaxPages

\* A page that does not parse, or that exceeds the page budget.
S2cRouteInvalid ==
    /\ S2cAt("route")
    /\ SeemsToolsList
    /\ \/ cur.kind = "invalid"
       \/ cur.kind \in {"page", "last"} /\ ~PageBudgetLeft
    /\ pending' = pending \ {cur.id}
    /\ FailAndEmit(ClientFacing(st.client, cur.id, cur.internal))
    /\ UNCHANGED <<list_busy, originals, verified, wire, st, cur>>
    /\ S2cUnchanged

InitialInternal ==
    /\ cur.internal /\ st.revalidating /\ st.client = None
    /\ verified.generation = 0

\* A JSON-RPC error unwinds a client listing and the initial internal one and
\* lowers the gate; that of a revalidation aborts the session.
S2cRouteError ==
    /\ S2cAt("route")
    /\ cur.kind = "error"
    /\ IsToolsListResponse
    /\ pending' = pending \ {cur.id}
    /\ DropTemplates({st.client, cur.id})
    /\ IF RequiresAbortOnError /\ ~InitialInternal
       THEN /\ Abort("unanswered")
            /\ st' = DiscardPages(st)
            /\ UNCHANGED <<list_busy, hist>>
       ELSE /\ st' = [DiscardPages(st) EXCEPT
                        !.revalidating = @ /\ ~InitialInternal]
            /\ list_busy' = FALSE
            /\ s2c' = "error_drain"
            /\ hist' = [hist EXCEPT !.unwound = @ \/ st.held]
            /\ UNCHANGED <<failure, session>>
    /\ UNCHANGED <<held, verified, wire, cur>>
    /\ S2cUnchanged

\* The held listing and the client listing of the failed collection get an
\* error; an internal id is never echoed.
S2cErrorDrain ==
    /\ S2cAt("error_drain")
    /\ held' = None
    /\ hist' = Answer(Answer(hist, held),
                      ClientFacing(st.client, cur.id, cur.internal))
    /\ st' = [st EXCEPT !.client = None]
    /\ s2c' = "read"
    /\ UNCHANGED <<list_busy, pending, originals, failure, verified, wire,
                   cur, session>>
    /\ S2cUnchanged

\* A page is accumulated; the first page of a client listing binds the
\* collection to the id of the frame.
S2cRoutePage ==
    /\ S2cAt("route")
    /\ cur.kind \in {"page", "last"}
    /\ SeemsToolsList
    /\ PageBudgetLeft
    /\ pending' = pending \ {cur.id}
    /\ st' = [st EXCEPT !.tools = @ \cup cur.tools, !.pages = @ + 1,
                        !.client = IF NeedsClientBinding THEN cur.id ELSE @]
    /\ originals' = IF NeedsClientBinding THEN originals \ {cur.id}
                    ELSE originals
    /\ s2c' = IF NeedsClientBinding THEN "bind" ELSE "next"
    /\ UNCHANGED <<list_busy, held, failure, verified, wire, cur, session,
                   hist>>
    /\ S2cUnchanged

S2cBind ==
    /\ S2cAt("bind")
    /\ RaiseListGate
    /\ s2c' = "next"
    /\ UNCHANGED <<held, pending, originals, failure, verified, wire, st, cur,
                   session, hist>>
    /\ S2cUnchanged

\* nextCursor: send the internal request for the next page.
S2cNextPage ==
    /\ S2cAt("next")
    /\ cur.kind = "page"
    /\ \E k \in InternalIds :
         /\ st' = [st EXCEPT !.waiting = k]
         /\ SendInternal(k) \/ (Abort("unanswered") /\ UNCHANGED wire)
    /\ UNCHANGED <<list_busy, held, pending, originals, verified, cur, hist>>
    /\ S2cUnchanged

\* A cursor the server already used fails the listing.
S2cRepeatedCursor ==
    /\ S2cAt("next")
    /\ cur.kind = "page"
    /\ FailAndEmit(ClientFacing(st.client, cur.id, cur.internal))
    /\ UNCHANGED <<list_busy, pending, originals, verified, wire, st, cur>>
    /\ S2cUnchanged

\* take_completed_pages: the assembled set goes to verification.
S2cCompletePages ==
    /\ S2cAt("next")
    /\ cur.kind = "last"
    /\ cur' = [cur EXCEPT !.emit = st.client, !.tools = st.tools]
    /\ st' = [DiscardPages(st) EXCEPT !.client = None]
    /\ s2c' = "verify"
    /\ UNCHANGED <<list_busy, held, pending, originals, failure, verified,
                   wire, session, hist>>
    /\ S2cUnchanged

\* Scan, pin, baseline or canonicalization refuse the listing.
S2cVerifyBlocked ==
    /\ S2cAt("verify")
    /\ FailAndEmit(ClientFacing(cur.emit, cur.id, cur.internal))
    /\ UNCHANGED <<list_busy, pending, originals, verified, wire, st, cur>>
    /\ S2cUnchanged

\* The verification record is committed; the next generation and its names
\* are published together.
S2cPublish ==
    /\ S2cAt("verify")
    /\ verified' = [generation |-> verified.generation + 1,
                    names |-> IF DryRun THEN cur.tools
                              ELSE cur.tools \cap Allowed]
    /\ s2c' = "release"
    /\ UNCHANGED <<list_busy, held, pending, originals, failure, wire, st,
                   cur, session, hist>>
    /\ S2cUnchanged

\* Mutated form of RevalidationQueued: the listing that ends now is taken for
\* the queued one.
RevalidationQueuedOnce == st.queued /\ ~st.revalidating

\* take_queued_revalidation.
RevalidationQueued == st.queued

\* The queued revalidation decides whether the gate drops, before anything
\* is written to the client.
S2cRelease ==
    /\ S2cAt("release")
    /\ cur' = [cur EXCEPT !.revalidate = RevalidationQueued]
    /\ st' = [st EXCEPT !.queued = FALSE,
                        !.revalidating = @ /\ RevalidationQueued]
    /\ list_busy' = (list_busy /\ RevalidationQueued)
    /\ s2c' = "emit"
    /\ UNCHANGED <<held, pending, originals, failure, verified, wire, session,
                   hist>>
    /\ S2cUnchanged

\* The verified response goes to the bound client id; then a queued
\* revalidation starts.
S2cEmit ==
    /\ S2cAt("emit")
    /\ IF cur.revalidate
       THEN /\ BeginRevalidation(st)
            /\ hist' = [Answer(hist, cur.emit) EXCEPT !.stale = FALSE]
       ELSE /\ s2c' = "drain"
            /\ hist' = Answer(hist, cur.emit)
            /\ NoRevalidation /\ UNCHANGED st
    /\ UNCHANGED <<list_busy, held, pending, originals, verified, cur>>
    /\ S2cUnchanged

\* Mutated form of S2cDrain: the held listing is answered and kept.
S2cDrainPeeked ==
    /\ S2cAt("drain")
    /\ hist' = Answer(hist, held)
    /\ st' = [st EXCEPT !.held = FALSE]
    /\ s2c' = "read"
    /\ UNCHANGED <<held, list_busy, pending, originals, failure, verified, wire,
                   cur, session>>
    /\ S2cUnchanged

\* The held client listing is answered from the same verified set, then the
\* held notification is forwarded.
S2cDrain ==
    /\ S2cAt("drain")
    /\ held' = None
    /\ hist' = Answer(hist, held)
    /\ st' = [st EXCEPT !.held = FALSE]
    /\ s2c' = "read"
    /\ UNCHANGED <<list_busy, pending, originals, failure, verified, wire,
                   cur, session>>
    /\ S2cUnchanged

\* The response to an internal request is denied by policy or oversized.
S2cRejectedInternal ==
    /\ S2cAt("rejected")
    /\ cur.id \in InternalIds
    /\ RaiseListGate
    /\ st' = DiscardPages(st)
    /\ Abort("unanswered")
    /\ UNCHANGED <<held, pending, originals, verified, wire, cur, hist>>
    /\ S2cUnchanged

\* The response to a client listing is denied or oversized: its bookkeeping
\* goes first ...
S2cRejected ==
    /\ S2cAt("rejected")
    /\ cur.id \in ClientIds
    /\ pending' = pending \ {cur.id}
    /\ DropTemplates({st.client, cur.id})
    /\ st' = DiscardPages(st)
    /\ s2c' = "reject_release"
    /\ UNCHANGED <<list_busy, held, failure, verified, wire, cur, session,
                   hist>>
    /\ S2cUnchanged

\* ... then the session aborts behind a raised gate when a revalidation is
\* owed, and otherwise the gate drops; the client listing gets an error.
S2cRejectRelease ==
    /\ S2cAt("reject_release")
    /\ hist' = Answer(hist, ClientFacing(st.client, cur.id, FALSE))
    /\ st' = [st EXCEPT !.client = None]
    /\ IF RequiresAbortOnError
       THEN RaiseListGate /\ Abort("answered")
       ELSE /\ list_busy' = FALSE
            /\ s2c' = "read"
            /\ UNCHANGED <<failure, session>>
    /\ UNCHANGED <<held, pending, originals, verified, wire, cur>>
    /\ S2cUnchanged

-----------------------------------------------------------------------------
(* The C2S loop.  Handlers run on while the session is aborting. *)

C2sAt(pc) == c2s = pc /\ session # "closed"

\* The next frame is read only while no abort is signalled.
C2sReads == c2s = "idle" /\ session = "running"

C2sUnchanged == UNCHANGED <<failure, verified, st, s2cVars, session>>

\* arm_tools_list: reserve the id and try to take the gate.
C2sArm ==
    /\ C2sReads
    /\ \E id \in ClientIds \ hist.sent :
         IF Cardinality(pending) < MaxPending
         THEN /\ pending' = pending \cup {id}
              /\ list_busy' = TRUE
              /\ c2s' = IF list_busy THEN "arm_lost" ELSE "register"
              /\ req' = id
              /\ hist' = [hist EXCEPT !.sent = @ \cup {id}]
         ELSE /\ hist' = Answer([hist EXCEPT !.sent = @ \cup {id}], id)
              /\ UNCHANGED <<pending, list_busy, c2s, req>>
    /\ UNCHANGED <<list_kick, list_epoch, cancelled, held, originals, wire,
                   call>>
    /\ C2sUnchanged

\* The gate was up: take the reservation back ...
C2sArmLost ==
    /\ C2sAt("arm_lost")
    /\ pending' = pending \ {req}
    /\ c2s' = "arm_hold"
    /\ UNCHANGED <<list_busy, list_kick, list_epoch, cancelled, held,
                   originals, wire, req, call, hist>>
    /\ C2sUnchanged

\* ... and park the request if internal work owns the gate (hold_client_list).
C2sHold ==
    /\ C2sAt("arm_hold")
    /\ IF held = None /\ pending = {} /\ list_busy
       THEN held' = req /\ Kick /\ c2s' = "idle"
       ELSE c2s' = "arm_retry" /\ UNCHANGED <<held, list_kick>>
    /\ UNCHANGED <<list_busy, list_epoch, cancelled, pending, originals, wire,
                   req, call, hist>>
    /\ C2sUnchanged

\* One more try before the request is refused.
C2sArmRetry ==
    /\ C2sAt("arm_retry")
    /\ IF Cardinality(pending) < MaxPending
       THEN /\ pending' = pending \cup {req}
            /\ list_busy' = TRUE
            /\ c2s' = IF list_busy THEN "arm_refuse" ELSE "register"
       ELSE c2s' = "arm_refuse" /\ UNCHANGED <<pending, list_busy>>
    /\ UNCHANGED <<list_kick, list_epoch, cancelled, held, originals, wire,
                   req, call, hist>>
    /\ C2sUnchanged

\* Contention: drop the entry, wake S2C, refuse the request.
C2sArmRefuse ==
    /\ C2sAt("arm_refuse")
    /\ pending' = pending \ {req}
    /\ Kick
    /\ hist' = Answer(hist, req)
    /\ c2s' = "idle"
    /\ UNCHANGED <<list_busy, list_epoch, cancelled, held, originals, wire,
                   req, call>>
    /\ C2sUnchanged

\* register_and_forward_impl puts the armed listing into the wire table.  A
\* spent retention budget, a duplicate id or a full table refuses it, and
\* unwind_tools_list drops the bookkeeping and wakes S2C.
C2sRegister ==
    /\ C2sAt("register")
    /\ \/ /\ wire' = [wire EXCEPT ![req] = "registered"]
          /\ originals' = originals \cup {req}
          /\ c2s' = "send"
          /\ UNCHANGED <<pending, list_kick, hist>>
       \/ /\ pending' = pending \ {req}
          /\ Kick
          /\ hist' = Answer(hist, req)
          /\ c2s' = "idle"
          /\ UNCHANGED <<wire, originals>>
    /\ UNCHANGED <<list_busy, list_epoch, cancelled, held, req, call>>
    /\ C2sUnchanged

\* The request is written to the child.
C2sSend ==
    /\ C2sAt("send")
    /\ wire' = [wire EXCEPT ![req] = "live"]
    /\ c2s' = "idle"
    /\ UNCHANGED <<list_busy, list_kick, list_epoch, cancelled, held, pending,
                   originals, req, call, hist>>
    /\ C2sUnchanged

\* notifications/cancelled: one that names a tracked request marks its wire
\* entry, one that does not is dropped before any bookkeeping.
C2sCancel ==
    /\ C2sReads
    /\ \E id \in hist.sent :
         IF wire[id] # "none"
         THEN /\ wire' = [wire EXCEPT ![id] = "cancelled"]
              /\ req' = id
              /\ c2s' = "cancel"
              /\ UNCHANGED hist
         ELSE /\ hist' = [hist EXCEPT !.dropped = @ \cup ({id} \cap {held})]
              /\ UNCHANGED <<wire, req, c2s>>
    /\ UNCHANGED <<list_busy, list_kick, list_epoch, cancelled, held, pending,
                   originals, call>>
    /\ C2sUnchanged

\* release_cancelled_bookkeeping for a tools/list, and the drop of a hold on
\* the same id.
C2sCancelRelease ==
    /\ C2sAt("cancel")
    /\ pending' = pending \ {req}
    /\ DropTemplates({req})
    /\ cancelled' = req
    /\ Kick
    /\ held' = IF held = req THEN None ELSE held
    /\ c2s' = "idle"
    /\ UNCHANGED <<list_busy, list_epoch, wire, req, call, hist>>
    /\ C2sUnchanged

C2sCallUnchanged ==
    /\ UNCHANGED <<list_busy, list_kick, cancelled, held, pending, originals,
                   wire, req, hist>>
    /\ C2sUnchanged

\* forward_allowed for tools/call: capture the verified generation and look
\* at the gate.
C2sCall ==
    /\ C2sReads
    /\ ~list_busy
    /\ Required => verified.generation # 0
    /\ \E t \in Tools : call' = [tool |-> t, gen |-> verified.generation]
    /\ c2s' = "call_check"
    /\ UNCHANGED list_epoch
    /\ C2sCallUnchanged

\* check_request and the session gates, then membership in the captured
\* verified set.  Under --dry-run a policy violation is observed only.
C2sCallCheck ==
    /\ C2sAt("call_check")
    /\ \/ /\ call.tool \in Allowed
          /\ Required => /\ verified.generation = call.gen
                         /\ call.tool \in verified.names
          /\ c2s' = "call_register"
       \/ DryRun /\ c2s' = "call_register"
       \/ c2s' = "idle"
    /\ UNCHANGED <<list_epoch, call>>
    /\ C2sCallUnchanged

\* The call enters the wire table and its decision is audited, or the table
\* refuses it.
C2sCallRegister ==
    /\ C2sAt("call_register")
    /\ c2s' \in {"call_epoch", "idle"}
    /\ UNCHANGED <<list_epoch, call>>
    /\ C2sCallUnchanged

\* Mutated form of AdmissionStale: only the generation is compared.
AdmissionStaleByGeneration == verified.generation # call.gen

AdmissionStale == list_busy \/ verified.generation # call.gen

\* The recheck inside the dispatch epoch: a call whose admission is stale is
\* unwound, the other one is written while the epoch is held.
C2sCallEpoch ==
    /\ C2sAt("call_epoch")
    /\ IF Required
       THEN /\ ~list_epoch
            /\ IF AdmissionStale
               THEN c2s' = "idle" /\ UNCHANGED list_epoch
               ELSE c2s' = "call_write" /\ list_epoch' = TRUE
       ELSE c2s' = "call_write" /\ UNCHANGED list_epoch
    /\ UNCHANGED call
    /\ C2sCallUnchanged

\* The frame has been written to the child; the epoch is released.
C2sCallWritten ==
    /\ C2sAt("call_write")
    /\ list_epoch' = FALSE
    /\ c2s' = "idle"
    /\ UNCHANGED call
    /\ C2sCallUnchanged

\* The client closes its side; the child's stdin is dropped.
C2sEof ==
    /\ C2sReads
    /\ c2s' = "eof"
    /\ UNCHANGED <<list_epoch, call>>
    /\ C2sCallUnchanged

-----------------------------------------------------------------------------
(* run_proxy *)

\* answer_inflight_client_list: the held request and the tools/list requests
\* still in the pipe get an error.
AbortDrain ==
    /\ c2s = "idle" /\ session = "aborting"
    /\ \E transit \in SUBSET (ClientIds \ hist.sent) :
         LET h == Answer(hist, held)
         IN  hist' = [h EXCEPT !.sent = @ \cup transit,
                               !.answers = [id \in AllIds |->
                                              IF id \in transit THEN 1
                                              ELSE h.answers[id]]]
    /\ held' = None
    /\ failure' = "none"
    /\ session' = "closed"
    /\ UNCHANGED <<list_busy, list_kick, list_epoch, cancelled, pending,
                   originals, verified, wire, st, s2cVars, c2sVars>>

\* A C2S handler that does not finish within the 250 ms of the drain is
\* dropped where it stands.
AbortTimeout ==
    /\ session = "aborting"
    /\ c2s # "idle"
    /\ session' = "closed"
    /\ UNCHANGED <<list_busy, list_kick, list_epoch, cancelled, held, pending,
                   originals, failure, verified, wire, st, s2cVars, c2sVars,
                   hist>>

Closed == session = "closed" /\ UNCHANGED vars

S2cStep ==
    \/ S2cProbe \/ S2cKick \/ S2cResume \/ S2cResumeDrain
    \/ S2cRouteDrop \/ S2cRouteInvalid \/ S2cRouteError \/ S2cErrorDrain
    \/ S2cRoutePage \/ S2cBind \/ S2cNextPage \/ S2cRepeatedCursor
    \/ S2cCompletePages \/ S2cVerifyBlocked \/ S2cPublish \/ S2cRelease
    \/ S2cEmit \/ S2cDrain \/ S2cRejectedInternal \/ S2cRejected
    \/ S2cRejectRelease

C2sStep ==
    \/ C2sArmLost \/ C2sHold \/ C2sArmRetry \/ C2sArmRefuse
    \/ C2sRegister \/ C2sSend \/ C2sCancelRelease
    \/ C2sCallCheck \/ C2sCallRegister \/ C2sCallEpoch \/ C2sCallWritten

\* What the loops read from the server and from the client.
Reads ==
    \/ S2cListChanged \/ S2cResponse \/ S2cMalformed \/ S2cEof
    \/ C2sArm \/ C2sCancel \/ C2sCall \/ C2sEof

Next == S2cStep \/ C2sStep \/ Reads \/ AbortDrain \/ AbortTimeout \/ Closed

Spec == Init /\ [][Next]_vars

(***************************************************************************)
(* Fairness.  Both loops are polled by one select!, so an enabled step of  *)
(* either is eventually taken.  A server answers the requests it has (it   *)
(* may also close its stdout, but nothing makes it).  Its frame is read    *)
(* under strong fairness: s2c_loop's                                       *)
(* select is biased towards list_kick, so this assumes that the client     *)
(* does not send cancellations (each one a kick) without end.              *)
(***************************************************************************)
Fairness ==
    /\ WF_vars(S2cStep)
    /\ SF_vars(S2cResponse)
    /\ WF_vars(C2sStep)
    /\ WF_vars(AbortDrain \/ AbortTimeout)

FairSpec == Spec /\ Fairness

-----------------------------------------------------------------------------
(* Properties *)

\* A tools/call that is being written to the child was admitted against the
\* verified set that is still current, the gate is down, and (outside
\* dry-run) the tool is one that set advertises. register_and_forward_impl
\* rechecks under list_epoch.
DispatchVerified ==
    Required /\ c2s = "call_write" =>
        /\ ~list_busy
        /\ verified.generation = call.gen
        /\ verified.generation # 0
        /\ DryRun \/ call.tool \in verified.names \cap Allowed

\* A collection is bound to a client listing or to a revalidation.
Collecting == st.revalidating \/ st.client # None

\* The gate is up, or nothing was ever verified and nothing is queued.
Guarded == list_busy \/ (verified.generation = 0 /\ ~st.queued)

\* The S2C side of DispatchInv: a collection, and its result until it is
\* published, stay behind the gate as soon as there is a verified set; a
\* queued revalidation belongs to a held notification.
CollectionInv ==
    /\ Collecting /\ s2c \notin {"bind", "error_drain", "release"} => Guarded
    /\ s2c \in {"next", "verify"} => Guarded
    /\ s2c = "release" /\ st.queued => list_busy
    /\ s2c = "emit" /\ cur.revalidate => list_busy
    /\ s2c = "emit" /\ ~cur.revalidate => ~st.revalidating
    /\ s2c \in {"verify", "release", "emit", "drain"} => st.client = None
    /\ s2c \in {"emit", "drain"} => ~st.queued
    /\ s2c = "drain" => ~st.revalidating
    /\ s2c \in {"bind", "error_drain"} => ~st.revalidating
    /\ st.queued => st.held
    /\ st.queued => list_busy \/ verified.generation = 0

\* The C2S side of DispatchInv: what an admitted tools/call knows.
AdmissionInv ==
    /\ list_epoch => c2s = "call_write"
    /\ Required /\ c2s = "call_write" => list_epoch
    /\ call.gen <= verified.generation
    /\ Required /\ c2s \in {"call_check", "call_register", "call_epoch",
                            "call_write"} => call.gen # 0
    /\ Required /\ ~DryRun /\ c2s \in {"call_register", "call_epoch"}
         /\ verified.generation = call.gen =>
            call.tool \in verified.names \cap Allowed

\* The inductive invariant behind DispatchVerified: forward_allowed's capture
\* and register_and_forward_impl's recheck on one side, the gate around
\* collection, verification and publication on the other.
DispatchInv == CollectionInv /\ AdmissionInv /\ DispatchVerified

\* No tools/call crosses to the child while a list_changed notification is
\* held back and the listing that answers it has not been verified
\* (handle_list_changed raises the gate under list_epoch).
NoDispatchWhileHeld ==
    Required /\ c2s = "call_write" /\ st.held /\ ~hist.unwound =>
        s2c \in {"emit", "drain"} /\ ~cur.revalidate

\* A client listing that took the gate and has not been answered: its
\* pending entry is not one of the two windows in which a loser of the CAS is
\* still listed.
ArmedListings ==
    pending \ (IF c2s \in {"arm_lost", "arm_refuse"} THEN {req} ELSE {})

\* The gate is up as long as any listing is in flight: nobody lowers it
\* underneath an armed client listing, a collection or a verification.  An
\* unwound initial listing with a held notification is the exception (see
\* RevalidationBehindGate).
GateOwned ==
    session # "closed" /\ ~list_busy /\ ~hist.unwound =>
        /\ ArmedListings = {}
        /\ s2c = "read" => st.client = None /\ st.waiting = None
        /\ s2c \notin {"next", "verify", "release"}

\* begin_revalidation: "the caller must raise `list_busy` first so
\* `tools/call` cannot race in".  Whenever an internal listing has been sent
\* and S2C waits for its answer, the gate is up.
RevalidationBehindGate ==
    session = "running" /\ s2c = "read" /\ st.waiting # None => list_busy

\* The client never gets two responses on one tools/list id, whether it was
\* forwarded, held, refused, cancelled or caught by the abort drain, and none
\* on an id of the internal namespace.
AtMostOneAnswer ==
    /\ \A id \in ClientIds : hist.answers[id] < 2
    /\ hist.unwound \/ \A k \in InternalIds : hist.answers[k] = 0

\* When the held list_changed notification is forwarded, the verified set
\* comes from a listing that was requested after the last list_changed.
FreshNotification ==
    s2c = "drain" /\ st.held => ~hist.stale

\* A hold the client has cancelled is gone (c2s_notification drops it).
CancelledHoldDropped == held \notin hist.dropped

\* The verified set changes only to the next generation and behind a raised
\* gate (verify_and_emit_list publishes before it releases).
PublishBehindGate ==
    [][verified' # verified =>
           /\ verified'.generation = verified.generation + 1
           /\ list_busy \/ hist.unwound]_vars

\* A held client listing is eventually answered or dropped.
HeldSettles == held # None ~> held = None \/ session = "closed"

\* The gate does not stay up for ever: it drops or the session ends.
GateSettles == list_busy ~> ~list_busy \/ session = "closed"

=============================================================================
