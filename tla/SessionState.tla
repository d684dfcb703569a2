----------------------------- MODULE SessionState -----------------------------
(***************************************************************************)
(* The process-local session tracking of the Auditor                       *)
(* (src/auditor/session.rs and its callers in the two relay loops): the    *)
(* trajectory marker with its unverified tombstones, and the paths the     *)
(* confused-deputy check has seen discovered.                              *)
(*                                                                         *)
(* A tools/call passes the session gates in one step and is registered and *)
(* written in a later one; an answer takes the wire entry in one step and  *)
(* reaches the session state in a later one, after its audit record.  The  *)
(* other loop runs in between.                                             *)
(*                                                                         *)
(* Data: a tool stands for its name, and Effect and Role give what the     *)
(* policy declares of it; ids and names weigh nothing, so the byte budgets *)
(* are left to the count bounds.  Enforcing mode, trajectory and deputy    *)
(* protection on.  A server answers a call it received at most once.       *)
(***************************************************************************)
EXTENDS Integers, FiniteSets

CONSTANTS Ids,             \* JSON-RPC ids of the client's tools/calls
          Tools, NoTool,   \* tool names, and none
          Effect,          \* [Tools -> side effect, "none" when undeclared]
          Role,            \* [Tools -> {"discover", "use", "none"}]
          Rules,           \* trajectory rules <<after_side_effect, deny_next>>
          Paths,
          MaxCalls,        \* MAX_PENDING_TOOL_CALLS
          MaxLists,        \* MAX_PENDING_LISTS
          MaxUnverified,   \* MAX_UNVERIFIED_TOOL_CALLS
          MaxPaths,        \* MAX_KNOWN_PATHS
          Reuse            \* which ids the client uses again: see MayReuse

SideEffects == {"read_only", "write", "execute", "network"}

ASSUME PolicyTyped == /\ Effect \in [Tools -> SideEffects \cup {"none"}]
                      /\ Role \in [Tools -> {"discover", "use", "none"}]
                      /\ Rules \subseteq SideEffects \X SideEffects
                      /\ NoTool \notin Tools
                      /\ Reuse \in {"answered", "any"}
ASSUME BoundsAreNat == {MaxCalls, MaxLists, MaxUnverified, MaxPaths} \subseteq Nat

VARIABLES state,   \* the SessionState
          wire,    \* [Ids -> the tools/call entry of the request table]
          c2s,     \* the call between the session gates and its write
          s2c,     \* the answer between the wire table and the session state
          hist     \* history: last success, calls without a verdict whose id was not
                   \* used again, discovered paths

vars == <<state, wire, c2s, s2c, hist>>

NamedTools == Tools \cup {NoTool}
NoEntry == [phase |-> "none", tool |-> NoTool]
IdleC2s == [pc |-> "read"]
IdleS2c == [pc |-> "read"]

TypeOK ==
  /\ state \in [known_paths : SUBSET Paths, lists : [Ids -> NamedTools],
                calls : [Ids -> NamedTools], last : NamedTools,
                unverified : [Ids -> NamedTools], overflow : SUBSET SideEffects,
                untrusted : BOOLEAN]
  /\ wire \in [Ids -> [phase : {"none", "live", "cancelled"}, tool : NamedTools]]
  /\ c2s \in {IdleC2s} \cup [pc : {"gated"}, id : Ids, tool : Tools, path : SUBSET Paths]
  /\ s2c \in {IdleS2c} \cup [pc : {"taken"}, id : Ids, tool : Tools,
                             verdict : {"success", "failure", "refused"}, paths : SUBSET Paths,
                             awaited : BOOLEAN]
  /\ hist \in [last : NamedTools, unresolved : SUBSET (Ids \X Tools),
               discovered : SUBSET Paths, used : SUBSET Paths]

Init ==
  /\ state = [known_paths |-> {}, lists |-> [i \in Ids |-> NoTool],
              calls |-> [i \in Ids |-> NoTool], last |-> NoTool,
              unverified |-> [i \in Ids |-> NoTool], overflow |-> {}, untrusted |-> FALSE]
  /\ wire = [i \in Ids |-> NoEntry]
  /\ c2s = IdleC2s /\ s2c = IdleS2c
  /\ hist = [last |-> NoTool, unresolved |-> {}, discovered |-> {}, used |-> {}]

-----------------------------------------------------------------------------
(* Operations of SessionState.                                             *)

Held(f) == {i \in Ids : f[i] # NoTool}

RecordPaths(s, paths) ==
  {[s EXCEPT !.known_paths = @ \cup new] :
     new \in {n \in SUBSET paths :
                LET known == s.known_paths \cup n
                IN /\ Cardinality(known) <= MaxPaths \/ n = {}
                   /\ paths \subseteq known \/ Cardinality(known) >= MaxPaths}}

TakePendingList(s, id) == [s EXCEPT !.lists[id] = NoTool]

(* Mutated form of Complete: a late answer finds no tombstone.              *)
CompletePendingOnly(s, id, succeeded) ==
  [s EXCEPT !.calls[id] = NoTool,
            !.last = IF s.calls[id] # NoTool /\ succeeded THEN s.calls[id] ELSE @]

(* complete_pending_tool_call: the pending call, or else the tombstone.    *)
Complete(s, id, succeeded) ==
  IF s.calls[id] # NoTool
  THEN [s EXCEPT !.calls[id] = NoTool, !.last = IF succeeded THEN s.calls[id] ELSE @]
  ELSE IF s.unverified[id] # NoTool
  THEN [s EXCEPT !.unverified[id] = NoTool,
                 !.last = IF succeeded THEN s.unverified[id] ELSE @]
  ELSE s

(* Mutated form of ReleaseUnverified: the latch is not set.                *)
ReleaseUnlatched(s, id) ==
  LET tool == s.calls[id]
      removed == [s EXCEPT !.calls[id] = NoTool]
  IN IF tool = NoTool THEN s
     ELSE IF Cardinality(Held(s.unverified)) >= MaxUnverified
     THEN [removed EXCEPT !.overflow = @ \cup ({Effect[tool]} \ {"none"})]
     ELSE [removed EXCEPT !.unverified[id] = tool]

(* release_pending_tool_call_unverified: a tombstone, or past the cap the  *)
(* bare side effect and the permanent latch.                               *)
ReleaseUnverified(s, id) ==
  LET tool == s.calls[id]
      removed == [s EXCEPT !.calls[id] = NoTool]
  IN IF tool = NoTool THEN s
     ELSE IF Cardinality(Held(s.unverified)) >= MaxUnverified
     THEN [removed EXCEPT !.untrusted = TRUE,
                          !.overflow = @ \cup ({Effect[tool]} \ {"none"})]
     ELSE [removed EXCEPT !.unverified[id] = tool]

(* What forward_allowed undoes when a call does not cross.                 *)
Unwound(s, id) == Complete(TakePendingList(s, id), id, FALSE)

EffectsOf(tools) == {Effect[t] : t \in tools \ {NoTool}} \ {"none"}
Tombstoned(s) == {s.unverified[i] : i \in Held(s.unverified)}

(* The rules a call of next matches after any of effects.                  *)
RuleDenies(effects, next, has_url) ==
  \E r \in Rules : /\ r[1] \in effects
                   /\ Effect[next] = r[2] \/ (r[2] = "network" /\ has_url)
SneakUrl(next, has_url) == has_url /\ Effect[next] # "network"

TrajectoryDenies(s, next, has_url) ==
  LET effects == EffectsOf({s.last} \cup Tombstoned(s)) \cup s.overflow
      same == /\ s.last \in {NoTool, next}
              /\ ~s.untrusted
              /\ Tombstoned(s) \subseteq {next}
  IN /\ effects # {}
     /\ same => SneakUrl(next, has_url)
     /\ RuleDenies(effects, next, has_url)

(* record_pending_list takes the call.                                     *)
ListRecordable(s, id) == s.lists[id] = NoTool /\ Cardinality(Held(s.lists)) < MaxLists

(* check_access: every path the call names was discovered.                 *)
AccessKnown(s, path) == path # {} /\ path \subseteq s.known_paths

DeputyAdmits(s, id, tool, path) ==
  /\ Role[tool] = "discover" => ListRecordable(s, id)
  /\ Role[tool] = "use" => AccessKnown(s, path)

CallRecordable(s, id) == s.calls[id] = NoTool /\ Cardinality(Held(s.calls)) < MaxCalls

Recorded(s, id, tool) ==
  [s EXCEPT !.calls[id] = tool, !.lists[id] = IF Role[tool] = "discover" THEN tool ELSE @]

-----------------------------------------------------------------------------
(* The client-to-server loop.                                              *)

C2sReads == c2s = IdleC2s

CanRegister(id) == wire[id] = NoEntry

(* The client's own discipline: it uses an id again once its call was      *)
(* answered, be it with the error a refused answer becomes, or at any time *)
(* the request table admits.                                               *)
MayReuse(id) == Reuse = "answered" /\ s2c # IdleS2c => s2c.id # id

(* forward_allowed up to the audit commit: can_register, check_request and *)
(* apply_session_gates.  Refused by any of them, the call's bookkeeping is *)
(* released under its id.  A call without a verdict under the same id is   *)
(* superseded.                                                             *)
C2sCall(id) ==
  /\ C2sReads
  /\ CanRegister(id)
  /\ MayReuse(id)
  /\ \E tool \in Tools, has_url \in BOOLEAN,
        path \in {{p} : p \in Paths} \cup {{}}, policy_allows \in BOOLEAN :
       LET admitted == /\ policy_allows
                       /\ ~TrajectoryDenies(state, tool, has_url)
                       /\ DeputyAdmits(state, id, tool, path)
                       /\ CallRecordable(state, id)
       IN /\ Role[tool] # "use" => path = {}
          /\ state' = IF admitted THEN Recorded(state, id, tool) ELSE Unwound(state, id)
          /\ c2s' = IF admitted THEN [pc |-> "gated", id |-> id, tool |-> tool, path |-> path]
                    ELSE c2s
  /\ hist' = [hist EXCEPT !.unresolved = {u \in @ : u[1] # id}]
  /\ UNCHANGED <<wire, s2c>>

C2sWrite ==
  /\ c2s.pc = "gated"
  /\ wire' = [wire EXCEPT ![c2s.id] = [phase |-> "live", tool |-> c2s.tool]]
  /\ hist' = [hist EXCEPT !.used = @ \cup c2s.path]
  /\ c2s' = IdleC2s
  /\ UNCHANGED <<state, s2c>>

(* Mutated form of UnwindGated: the rollback is left out.                  *)
UnwindForgotten(s, id) == s

UnwindGated(s, id) == Unwound(s, id)

(* Not advertised, refused by register, stale at the write, or the write   *)
(* failed.                                                                 *)
C2sUnwind ==
  /\ c2s.pc = "gated"
  /\ state' = UnwindGated(state, c2s.id)
  /\ c2s' = IdleC2s
  /\ UNCHANGED <<wire, s2c, hist>>

(* A forwarded cancel of a tools/call: advisory, so the call has no        *)
(* verdict.                                                                *)
C2sCancel(id) ==
  /\ C2sReads
  /\ wire[id] # NoEntry
  /\ wire' = [wire EXCEPT ![id].phase = "cancelled"]
  /\ state' = ReleaseUnverified(TakePendingList(state, id), id)
  /\ hist' = [hist EXCEPT !.unresolved = @ \cup {<<id, wire[id].tool>>}]
  /\ UNCHANGED <<c2s, s2c>>

-----------------------------------------------------------------------------
(* The server-to-client loop.                                              *)

(* s2c_response, s2c_frame and s2c_oversize up to their audit records: the *)
(* wire entry is consumed.  refused: denied by policy, malformed or        *)
(* oversized.                                                              *)
S2cAnswer(id) ==
  /\ s2c = IdleS2c
  /\ wire[id] # NoEntry
  /\ wire' = [wire EXCEPT ![id] = NoEntry]
  /\ \E verdict \in {"success", "failure", "refused"}, paths \in SUBSET Paths :
       /\ paths # {} => verdict = "success" /\ Role[wire[id].tool] = "discover"
       /\ s2c' = [pc |-> "taken", id |-> id, tool |-> wire[id].tool, verdict |-> verdict,
                  paths |-> paths, awaited |-> wire[id].phase = "live"]
  /\ UNCHANGED <<state, c2s, hist>>

(* Mutated form of Seeded: the pending list is not asked for.              *)
SeededBlindly(s, id, paths) == RecordPaths(TakePendingList(s, id), paths)

Seeded(s, id, paths) ==
  IF s.lists[id] # NoTool THEN RecordPaths(TakePendingList(s, id), paths) ELSE {s}

(* apply_response_session_updates, or the release of a refused answer.     *)
S2cApply ==
  /\ s2c # IdleS2c
  /\ LET id == s2c.id
     IN \/ /\ s2c.verdict = "success"
           /\ \E seeded \in Seeded(state, id, s2c.paths) : state' = Complete(seeded, id, TRUE)
           /\ hist' = [hist EXCEPT !.last = s2c.tool, !.unresolved = @ \ {<<id, s2c.tool>>},
                                   !.discovered = IF s2c.awaited THEN @ \cup s2c.paths ELSE @]
        \/ /\ s2c.verdict = "failure"
           /\ state' = Complete(TakePendingList(state, id), id, FALSE)
           /\ hist' = [hist EXCEPT !.unresolved = @ \ {<<id, s2c.tool>>}]
        \/ /\ s2c.verdict = "refused"
           /\ state' = ReleaseUnverified(TakePendingList(state, id), id)
           /\ hist' = [hist EXCEPT !.unresolved = @ \cup {<<id, s2c.tool>>}]
  /\ s2c' = IdleS2c
  /\ UNCHANGED <<wire, c2s>>

Next == \/ \E id \in Ids : C2sCall(id) \/ C2sCancel(id) \/ S2cAnswer(id)
        \/ C2sWrite \/ C2sUnwind \/ S2cApply

Spec == Init /\ [][Next]_vars

-----------------------------------------------------------------------------
(* Properties.                                                             *)

(* The calls that may have been the last to run: the last one answered     *)
(* with success, and every one released without a verdict, until the       *)
(* client uses its id again.                                               *)
Predecessors == {hist.last} \cup {u[2] : u \in hist.unresolved}

(* The trajectory check never lets through what the calls that may have    *)
(* run deny, whatever was cancelled, refused, answered late or dropped     *)
(* from the tombstones at their cap.  What it remembers of a call without  *)
(* a verdict may be gone once its id is used again: TombstonesKept.        *)
TrajectorySound ==
  \A next \in Tools, has_url \in BOOLEAN :
    LET same == Predecessors \subseteq {NoTool, next}
    IN /\ same => SneakUrl(next, has_url)
       /\ RuleDenies(EffectsOf(Predecessors), next, has_url)
       => TrajectoryDenies(state, next, has_url)

(* A tombstone goes only with a definitive answer to its id, and stays to  *)
(* the end of the session otherwise.                                       *)
TombstonesKept ==
  [][\A i \in Ids :
       state.unverified[i] # NoTool /\ state'.unverified[i] # state.unverified[i] =>
         /\ s2c # IdleS2c /\ s2c' = IdleS2c
         /\ s2c.id = i /\ s2c.verdict \in {"success", "failure"}]_vars

(* The marker is the last call answered with success, unless that call's   *)
(* tombstone had overflowed, and then the exemption is off for good and    *)
(* its effect is kept.                                                     *)
MarkerIsLastSuccess ==
  \/ state.last = hist.last
  \/ state.untrusted /\ EffectsOf({hist.last}) \subseteq state.overflow

(* Pending entries belong to a call in progress: between the gates and the *)
(* write, in flight, or answered and about to be applied.  Nothing         *)
(* stranded counts against the caps, and the state is well typed.          *)
PendingOwned ==
  TypeOK /\ \A i \in Ids :
    state.calls[i] # NoTool \/ state.lists[i] # NoTool =>
      \/ c2s # IdleC2s /\ c2s.id = i
      \/ s2c # IdleS2c /\ s2c.id = i
      \/ wire[i].phase = "live"

(* A use-role call crosses only for a path that a successful, uncancelled  *)
(* discovery reported before.                                              *)
UsedWereDiscovered == hist.used \subseteq hist.discovered

=============================================================================
