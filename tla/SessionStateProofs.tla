-------------------------- MODULE SessionStateProofs --------------------------
(***************************************************************************)
(* Proofs about SessionState for every set of ids, tools and paths, every  *)
(* policy and every bound.                                                 *)
(***************************************************************************)
EXTENDS SessionState, TLAPS

States == [known_paths : SUBSET Paths, lists : [Ids -> NamedTools],
           calls : [Ids -> NamedTools], last : NamedTools,
           unverified : [Ids -> NamedTools], overflow : SUBSET SideEffects,
           untrusted : BOOLEAN]
PathSets == SUBSET Paths
Entries == [phase : {"none", "live", "cancelled"}, tool : NamedTools]
Gateds == [pc : {"gated"}, id : Ids, tool : Tools, path : SUBSET Paths]
Takens == [pc : {"taken"}, id : Ids, tool : Tools,
           verdict : {"success", "failure", "refused"}, paths : SUBSET Paths,
           awaited : BOOLEAN]
Histories == [last : NamedTools, unresolved : SUBSET (Ids \X Tools),
              discovered : SUBSET Paths, used : SUBSET Paths]

-----------------------------------------------------------------------------
(* What each operation changes of a SessionState.                          *)

(* take_pending_list forgets one list.                                     *)
LEMMA TakeFields ==
  ASSUME NEW s \in States, NEW id \in Ids
  PROVE  LET t == TakePendingList(s, id)
         IN /\ t \in States
            /\ t.lists = [s.lists EXCEPT ![id] = NoTool]
            /\ t.known_paths = s.known_paths /\ t.calls = s.calls /\ t.last = s.last
            /\ t.unverified = s.unverified /\ t.overflow = s.overflow
            /\ t.untrusted = s.untrusted
  BY Zenon DEF TakePendingList, States, NamedTools

(* complete_pending_tool_call forgets the pending call, or else the        *)
(* tombstone, and moves the marker on success only.                        *)
LEMMA CompleteFields ==
  ASSUME NEW s \in States, NEW id \in Ids, NEW succeeded \in BOOLEAN
  PROVE  LET t == Complete(s, id, succeeded)
         IN /\ t \in States
            /\ t.calls = [s.calls EXCEPT ![id] = NoTool]
            /\ t.unverified = IF s.calls[id] # NoTool THEN s.unverified
                              ELSE [s.unverified EXCEPT ![id] = NoTool]
            /\ t.last = IF ~succeeded THEN s.last
                        ELSE IF s.calls[id] # NoTool THEN s.calls[id]
                        ELSE IF s.unverified[id] # NoTool THEN s.unverified[id]
                        ELSE s.last
            /\ t.known_paths = s.known_paths /\ t.lists = s.lists
            /\ t.overflow = s.overflow /\ t.untrusted = s.untrusted
<1>1. CASE s.calls[id] # NoTool
  BY <1>1, Zenon DEF Complete, States, NamedTools
<1>2. CASE s.calls[id] = NoTool /\ s.unverified[id] # NoTool
  BY <1>2, Zenon DEF Complete, States, NamedTools
<1>3. CASE s.calls[id] = NoTool /\ s.unverified[id] = NoTool
  BY <1>3, Zenon DEF Complete, States, NamedTools
<1>. QED BY <1>1, <1>2, <1>3, Zenon

(* release_pending_tool_call_unverified turns a pending call into a        *)
(* tombstone, or past the cap into its side effect and the latch.          *)
LEMMA ReleaseFields ==
  ASSUME NEW s \in States, NEW id \in Ids
  PROVE  LET t == ReleaseUnverified(s, id)
             tool == s.calls[id]
         IN /\ t \in States
            /\ t.calls = [s.calls EXCEPT ![id] = NoTool]
            /\ t.known_paths = s.known_paths /\ t.lists = s.lists /\ t.last = s.last
            /\ \/ /\ tool = NoTool /\ t.unverified = s.unverified
                  /\ t.overflow = s.overflow /\ t.untrusted = s.untrusted
               \/ /\ tool # NoTool /\ t.unverified = [s.unverified EXCEPT ![id] = tool]
                  /\ t.overflow = s.overflow /\ t.untrusted = s.untrusted
               \/ /\ tool # NoTool /\ t.unverified = s.unverified /\ t.untrusted = TRUE
                  /\ t.overflow = s.overflow \cup ({Effect[tool]} \ {"none"})
<1>1. CASE s.calls[id] = NoTool
  BY <1>1, Zenon DEF ReleaseUnverified, States, NamedTools
<1>2. CASE s.calls[id] # NoTool /\ Cardinality(Held(s.unverified)) >= MaxUnverified
  <2>1. s.calls[id] \in Tools /\ Effect[s.calls[id]] \in SideEffects \cup {"none"}
    BY <1>2, PolicyTyped, Zenon DEF States, NamedTools
  <2>. QED BY <1>2, <2>1, Zenon DEF ReleaseUnverified, States, NamedTools
<1>3. CASE s.calls[id] # NoTool /\ ~(Cardinality(Held(s.unverified)) >= MaxUnverified)
  BY <1>3, Zenon DEF ReleaseUnverified, States, NamedTools
<1>. QED BY <1>1, <1>2, <1>3, Zenon

(* record_paths only adds paths, and only some of those it is given.       *)
LEMMA RecordPathsFields ==
  ASSUME NEW s \in States, NEW paths \in PathSets, NEW t \in RecordPaths(s, paths)
  PROVE  /\ t \in States
         /\ t.known_paths \subseteq s.known_paths \cup paths
         /\ t.lists = s.lists /\ t.calls = s.calls /\ t.last = s.last
         /\ t.unverified = s.unverified /\ t.overflow = s.overflow
         /\ t.untrusted = s.untrusted
<1>1. PICK new \in SUBSET paths : t = [s EXCEPT !.known_paths = @ \cup new]
  BY Zenon DEF RecordPaths
<1>. QED BY <1>1, Zenon DEF States, PathSets

(* An admitted call is recorded under its id.                              *)
LEMMA RecordedFields ==
  ASSUME NEW s \in States, NEW id \in Ids, NEW tool \in Tools
  PROVE  LET t == Recorded(s, id, tool)
         IN /\ t \in States
            /\ t.calls = [s.calls EXCEPT ![id] = tool]
            /\ \E l \in NamedTools : t.lists = [s.lists EXCEPT ![id] = l]
            /\ t.known_paths = s.known_paths /\ t.last = s.last
            /\ t.unverified = s.unverified /\ t.overflow = s.overflow
            /\ t.untrusted = s.untrusted
<1>. DEFINE t == Recorded(s, id, tool)
            l == IF Role[tool] = "discover" THEN tool ELSE s.lists[id]
<1>1. l \in NamedTools /\ t.lists = [s.lists EXCEPT ![id] = l]
  BY Zenon DEF Recorded, States, NamedTools
<1>2. /\ t \in States
      /\ t.calls = [s.calls EXCEPT ![id] = tool]
      /\ t.known_paths = s.known_paths /\ t.last = s.last
      /\ t.unverified = s.unverified /\ t.overflow = s.overflow
      /\ t.untrusted = s.untrusted
  BY Zenon DEF Recorded, States, NamedTools
<1>. QED BY <1>1, <1>2, Zenon

(* The rollback of a call forgets its list and its pending entry; a        *)
(* tombstone goes only when nothing is pending.                            *)
LEMMA UnwoundFields ==
  ASSUME NEW s \in States, NEW id \in Ids
  PROVE  LET t == Unwound(s, id)
         IN /\ t \in States
            /\ t.calls = [s.calls EXCEPT ![id] = NoTool]
            /\ t.lists = [s.lists EXCEPT ![id] = NoTool]
            /\ t.unverified = IF s.calls[id] # NoTool THEN s.unverified
                              ELSE [s.unverified EXCEPT ![id] = NoTool]
            /\ t.known_paths = s.known_paths /\ t.last = s.last
            /\ t.overflow = s.overflow /\ t.untrusted = s.untrusted
<1>. DEFINE u == TakePendingList(s, id)
<1>1. /\ u \in States /\ u.lists = [s.lists EXCEPT ![id] = NoTool]
      /\ u.known_paths = s.known_paths /\ u.calls = s.calls /\ u.last = s.last
      /\ u.unverified = s.unverified /\ u.overflow = s.overflow
      /\ u.untrusted = s.untrusted
  BY TakeFields, Zenon
<1>2. Unwound(s, id) = Complete(u, id, FALSE)
  BY Zenon DEF Unwound
<1>3. LET t == Complete(u, id, FALSE)
      IN /\ t \in States
         /\ t.calls = [u.calls EXCEPT ![id] = NoTool]
         /\ t.unverified = IF u.calls[id] # NoTool THEN u.unverified
                           ELSE [u.unverified EXCEPT ![id] = NoTool]
         /\ t.last = u.last
         /\ t.known_paths = u.known_paths /\ t.lists = u.lists
         /\ t.overflow = u.overflow /\ t.untrusted = u.untrusted
  BY <1>1, CompleteFields, Zenon
<1>. HIDE DEF u
<1>. QED BY <1>1, <1>2, <1>3, Zenon
-----------------------------------------------------------------------------
(* The invariants.                                                         *)

(* An entry of the request table names a tool.                             *)
WireTyped ==
  \A i \in Ids : wire[i] = NoEntry \/ (wire[i].phase \in {"live", "cancelled"} /\ wire[i].tool \in Tools)

Taken(i) == s2c # IdleS2c /\ s2c.id = i
Gated(i) == c2s # IdleC2s /\ c2s.id = i

Owned(i) == Gated(i) \/ Taken(i) \/ wire[i].phase = "live"

OwnedInv ==
  /\ TypeOK
  /\ WireTyped
  /\ \A i \in Ids : state.calls[i] # NoTool \/ state.lists[i] # NoTool => Owned(i)

(* One id is in one place: between the gates and the write, in flight, or  *)
(* between the request table and the session state.                        *)
OnePlace ==
  \A i \in Ids : /\ Gated(i) => wire[i] = NoEntry /\ ~Taken(i)
                 /\ Taken(i) => wire[i] = NoEntry

(* Only an awaited answer finds a pending list, so what is known was       *)
(* reported by one.                                                        *)
DeputyInv ==
  /\ OnePlace
  /\ \A i \in Ids : wire[i].phase = "cancelled" => state.lists[i] = NoTool
  /\ \A i \in Ids : Taken(i) /\ ~s2c.awaited => state.lists[i] = NoTool
  /\ state.known_paths \subseteq hist.discovered
  /\ c2s # IdleC2s => c2s.path \subseteq hist.discovered
  /\ hist.used \subseteq hist.discovered

NoVerdictDue(i) == \A t \in Tools : <<i, t>> \notin hist.unresolved

(* A call still awaited is pending under its tool and has no tombstone; a  *)
(* cancelled one is not pending and is without a verdict.                  *)
CallsInv ==
  /\ OnePlace
  /\ \A i \in Ids : Gated(i) => state.calls[i] = c2s.tool /\ NoVerdictDue(i)
  /\ \A i \in Ids : wire[i].phase = "live" => state.calls[i] = wire[i].tool /\ NoVerdictDue(i)
  /\ \A i \in Ids : wire[i].phase = "cancelled" =>
       state.calls[i] = NoTool /\ <<i, wire[i].tool>> \in hist.unresolved
  /\ \A i \in Ids : Taken(i) /\ s2c.awaited => state.calls[i] = s2c.tool /\ NoVerdictDue(i)
  /\ \A i \in Ids : Taken(i) /\ ~s2c.awaited =>
       state.calls[i] = NoTool /\ <<i, s2c.tool>> \in hist.unresolved

(* Every call without a verdict has its tombstone, unless its side effect  *)
(* went to the overflow.  A tombstone may outlive its call: that of a call *)
(* whose id was used again.                                                *)
Remembered(t) == state.untrusted /\ EffectsOf({t}) \subseteq state.overflow

TombInv ==
  /\ \A i \in Ids, t, u \in Tools :
       <<i, t>> \in hist.unresolved /\ <<i, u>> \in hist.unresolved => t = u
  /\ \A i \in Ids, t \in Tools :
       <<i, t>> \in hist.unresolved => state.unverified[i] = t \/ Remembered(t)
  /\ MarkerIsLastSuccess

-----------------------------------------------------------------------------
(* Every pending entry has an owner.                                       *)

(* A cancel or a refused answer forgets the list and the pending call.     *)
LEMMA DroppedFields ==
  ASSUME NEW s \in States, NEW id \in Ids
  PROVE  LET t == ReleaseUnverified(TakePendingList(s, id), id)
             tool == s.calls[id]
         IN /\ t \in States
            /\ t.calls = [s.calls EXCEPT ![id] = NoTool]
            /\ t.lists = [s.lists EXCEPT ![id] = NoTool]
            /\ t.known_paths = s.known_paths /\ t.last = s.last
            /\ \/ /\ tool = NoTool /\ t.unverified = s.unverified
                  /\ t.overflow = s.overflow /\ t.untrusted = s.untrusted
               \/ /\ tool # NoTool /\ t.unverified = [s.unverified EXCEPT ![id] = tool]
                  /\ t.overflow = s.overflow /\ t.untrusted = s.untrusted
               \/ /\ tool # NoTool /\ t.unverified = s.unverified /\ t.untrusted = TRUE
                  /\ t.overflow = s.overflow \cup ({Effect[tool]} \ {"none"})
<1>. DEFINE u == TakePendingList(s, id)
            t == ReleaseUnverified(u, id)
<1>1. /\ u \in States /\ u.lists = [s.lists EXCEPT ![id] = NoTool]
      /\ u.known_paths = s.known_paths /\ u.calls = s.calls /\ u.last = s.last
      /\ u.unverified = s.unverified /\ u.overflow = s.overflow
      /\ u.untrusted = s.untrusted
  BY TakeFields, Zenon
<1>2. /\ t \in States
      /\ t.calls = [u.calls EXCEPT ![id] = NoTool]
      /\ t.known_paths = u.known_paths /\ t.lists = u.lists /\ t.last = u.last
      /\ \/ /\ u.calls[id] = NoTool /\ t.unverified = u.unverified
            /\ t.overflow = u.overflow /\ t.untrusted = u.untrusted
         \/ /\ u.calls[id] # NoTool /\ t.unverified = [u.unverified EXCEPT ![id] = u.calls[id]]
            /\ t.overflow = u.overflow /\ t.untrusted = u.untrusted
         \/ /\ u.calls[id] # NoTool /\ t.unverified = u.unverified /\ t.untrusted = TRUE
            /\ t.overflow = u.overflow \cup ({Effect[u.calls[id]]} \ {"none"})
  BY <1>1, ReleaseFields, Zenon
<1>3. t = ReleaseUnverified(TakePendingList(s, id), id)
  BY Zenon
<1>. HIDE DEF u, t
<1>4. \/ /\ s.calls[id] = NoTool /\ t.unverified = s.unverified
         /\ t.overflow = s.overflow /\ t.untrusted = s.untrusted
      \/ /\ s.calls[id] # NoTool /\ t.unverified = [s.unverified EXCEPT ![id] = s.calls[id]]
         /\ t.overflow = s.overflow /\ t.untrusted = s.untrusted
      \/ /\ s.calls[id] # NoTool /\ t.unverified = s.unverified /\ t.untrusted = TRUE
         /\ t.overflow = s.overflow \cup ({Effect[s.calls[id]]} \ {"none"})
  BY <1>1, <1>2, Zenon
<1>. QED BY <1>1, <1>2, <1>3, <1>4, Zenon

(* A success answer takes the pending list, and learns paths only if there *)
(* was one.                                                                *)
SeedsTo(s, id, paths, t) ==
  /\ t \in States
  /\ t.calls = s.calls /\ t.last = s.last
  /\ t.unverified = s.unverified /\ t.overflow = s.overflow
  /\ t.untrusted = s.untrusted
  /\ t.lists = [s.lists EXCEPT ![id] = NoTool]
  /\ t.known_paths \subseteq s.known_paths \cup paths
  /\ s.lists[id] = NoTool => t.known_paths = s.known_paths

LEMMA SeededFields ==
  ASSUME NEW s \in States, NEW id \in Ids, NEW paths \in PathSets,
         NEW seeded \in Seeded(s, id, paths)
  PROVE  SeedsTo(s, id, paths, seeded)
<1>1. CASE s.lists[id] = NoTool
  <2>1. seeded = s
    BY <1>1, Zenon DEF Seeded
  <2>2. s.lists = [s.lists EXCEPT ![id] = NoTool]
    BY <1>1, Zenon DEF States
  <2>. QED BY <2>1, <2>2, Zenon DEF SeedsTo
<1>2. CASE s.lists[id] # NoTool
  <2>. DEFINE u == TakePendingList(s, id)
  <2>1. seeded \in RecordPaths(u, paths)
    BY <1>2, Zenon DEF Seeded
  <2>2. u \in States
    BY TakeFields, Zenon
  <2>3. /\ u.lists = [s.lists EXCEPT ![id] = NoTool]
        /\ u.known_paths = s.known_paths /\ u.calls = s.calls /\ u.last = s.last
        /\ u.unverified = s.unverified /\ u.overflow = s.overflow
        /\ u.untrusted = s.untrusted
    BY TakeFields, Zenon
  <2>. HIDE DEF u
  <2>4. /\ seeded \in States
        /\ seeded.known_paths \subseteq u.known_paths \cup paths
        /\ seeded.lists = u.lists /\ seeded.calls = u.calls /\ seeded.last = u.last
        /\ seeded.unverified = u.unverified /\ seeded.overflow = u.overflow
        /\ seeded.untrusted = u.untrusted
    BY <2>1, <2>2, RecordPathsFields
  <2>. QED BY <1>2, <2>3, <2>4, Zenon DEF SeedsTo
<1>. QED BY <1>1, <1>2, Zenon

(* Then it forgets the pending call or the tombstone, and moves the marker.*)
SucceedsTo(s, id, paths, t) ==
  /\ t \in States
  /\ t.calls = [s.calls EXCEPT ![id] = NoTool]
  /\ t.lists = [s.lists EXCEPT ![id] = NoTool]
  /\ t.known_paths \subseteq s.known_paths \cup paths
  /\ s.lists[id] = NoTool => t.known_paths = s.known_paths
  /\ t.unverified = IF s.calls[id] # NoTool THEN s.unverified
                    ELSE [s.unverified EXCEPT ![id] = NoTool]
  /\ t.last = IF s.calls[id] # NoTool THEN s.calls[id]
              ELSE IF s.unverified[id] # NoTool THEN s.unverified[id]
              ELSE s.last
  /\ t.overflow = s.overflow /\ t.untrusted = s.untrusted

LEMMA SucceededFields ==
  ASSUME NEW s \in States, NEW id \in Ids, NEW paths \in PathSets,
         NEW seeded \in Seeded(s, id, paths)
  PROVE  SucceedsTo(s, id, paths, Complete(seeded, id, TRUE))
<1>. DEFINE t == Complete(seeded, id, TRUE)
<1>1. SeedsTo(s, id, paths, seeded)
  BY SeededFields, Zenon
<1>2. seeded \in States
  BY <1>1, Zenon DEF SeedsTo
<1>3. /\ t \in States
      /\ t.calls = [seeded.calls EXCEPT ![id] = NoTool]
      /\ t.unverified = IF seeded.calls[id] # NoTool THEN seeded.unverified
                        ELSE [seeded.unverified EXCEPT ![id] = NoTool]
      /\ t.last = IF seeded.calls[id] # NoTool THEN seeded.calls[id]
                  ELSE IF seeded.unverified[id] # NoTool THEN seeded.unverified[id]
                  ELSE seeded.last
      /\ t.known_paths = seeded.known_paths /\ t.lists = seeded.lists
      /\ t.overflow = seeded.overflow /\ t.untrusted = seeded.untrusted
  BY <1>2, CompleteFields, Zenon
<1>. HIDE DEF t
<1>4. SucceedsTo(s, id, paths, t)
  BY <1>1, <1>3, Zenon DEF SeedsTo, SucceedsTo
<1>. QED BY <1>4, Zenon DEF t

(* What a read tools/call changes: admitted, it is recorded and held by    *)
(* the loop; refused, its id is released.                                  *)
LEMMA CallEffect ==
  ASSUME TypeOK, NEW id \in Ids, C2sCall(id)
  PROVE  /\ c2s = IdleC2s /\ wire[id] = NoEntry /\ state' \in States
         /\ wire' = wire /\ s2c' = s2c
         /\ hist' = [hist EXCEPT !.unresolved = {u \in @ : u[1] # id}]
         /\ state'.known_paths = state.known_paths /\ state'.last = state.last
         /\ state'.overflow = state.overflow /\ state'.untrusted = state.untrusted
         /\ \/ /\ c2s' \in Gateds /\ c2s' # IdleC2s /\ c2s'.id = id
               /\ c2s'.path \subseteq state.known_paths
               /\ state'.calls = [state.calls EXCEPT ![id] = c2s'.tool]
               /\ \E l \in NamedTools : state'.lists = [state.lists EXCEPT ![id] = l]
               /\ state'.unverified = state.unverified
            \/ /\ c2s' = c2s
               /\ state'.calls = [state.calls EXCEPT ![id] = NoTool]
               /\ state'.lists = [state.lists EXCEPT ![id] = NoTool]
               /\ state'.unverified = IF state.calls[id] # NoTool THEN state.unverified
                                      ELSE [state.unverified EXCEPT ![id] = NoTool]
<1>1. PICK tool \in Tools, path \in {{p} : p \in Paths} \cup {{}}, admitted \in BOOLEAN :
        /\ admitted => DeputyAdmits(state, id, tool, path)
        /\ Role[tool] # "use" => path = {}
        /\ state' = IF admitted THEN Recorded(state, id, tool) ELSE Unwound(state, id)
        /\ c2s' = IF admitted THEN [pc |-> "gated", id |-> id, tool |-> tool, path |-> path]
                  ELSE c2s
  <2>1. PICK tool \in Tools, has_url \in BOOLEAN,
             path \in {{p} : p \in Paths} \cup {{}}, policy_allows \in BOOLEAN :
          LET admitted == /\ policy_allows
                          /\ ~TrajectoryDenies(state, tool, has_url)
                          /\ DeputyAdmits(state, id, tool, path)
                          /\ CallRecordable(state, id)
          IN /\ Role[tool] # "use" => path = {}
             /\ state' = IF admitted THEN Recorded(state, id, tool) ELSE Unwound(state, id)
             /\ c2s' = IF admitted
                       THEN [pc |-> "gated", id |-> id, tool |-> tool, path |-> path]
                       ELSE c2s
    BY Zenon DEF C2sCall
  <2>. DEFINE admitted == /\ policy_allows
                          /\ ~TrajectoryDenies(state, tool, has_url)
                          /\ DeputyAdmits(state, id, tool, path)
                          /\ CallRecordable(state, id)
  <2>2. admitted \in BOOLEAN /\ (admitted => DeputyAdmits(state, id, tool, path))
    BY Zenon
  <2>3. /\ Role[tool] # "use" => path = {}
        /\ state' = IF admitted THEN Recorded(state, id, tool) ELSE Unwound(state, id)
        /\ c2s' = IF admitted
                  THEN [pc |-> "gated", id |-> id, tool |-> tool, path |-> path]
                  ELSE c2s
    BY <2>1, Zenon
  <2>. HIDE DEF admitted
  <2>. QED BY <2>2, <2>3, Zenon
<1>2. /\ c2s = IdleC2s /\ wire[id] = NoEntry
      /\ wire' = wire /\ s2c' = s2c /\ state \in States
      /\ hist' = [hist EXCEPT !.unresolved = {u \in @ : u[1] # id}]
  BY Zenon DEF C2sCall, C2sReads, CanRegister, TypeOK, States
<1>3. CASE admitted
  <2>1. path \in SUBSET Paths /\ path \subseteq state.known_paths
    BY <1>1, <1>3, PolicyTyped, Zenon DEF DeputyAdmits, AccessKnown
  <2>2. /\ state' = Recorded(state, id, tool)
        /\ c2s' = [pc |-> "gated", id |-> id, tool |-> tool, path |-> path]
    BY <1>1, <1>3, Zenon
  <2>. DEFINE t == Recorded(state, id, tool)
  <2>3. /\ t \in States
        /\ t.calls = [state.calls EXCEPT ![id] = tool]
        /\ \E l \in NamedTools : t.lists = [state.lists EXCEPT ![id] = l]
        /\ t.known_paths = state.known_paths /\ t.last = state.last
        /\ t.unverified = state.unverified /\ t.overflow = state.overflow
        /\ t.untrusted = state.untrusted
    BY <1>2, RecordedFields, Zenon
  <2>4. /\ c2s' \in Gateds /\ c2s' # IdleC2s /\ c2s'.id = id /\ c2s'.tool = tool
        /\ c2s'.path = path
    BY <2>1, <2>2, Zenon DEF Gateds, IdleC2s
  <2>. HIDE DEF t
  <2>5. /\ state' \in States
        /\ state'.known_paths = state.known_paths /\ state'.last = state.last
        /\ state'.overflow = state.overflow /\ state'.untrusted = state.untrusted
        /\ state'.unverified = state.unverified
        /\ state'.calls = [state.calls EXCEPT ![id] = c2s'.tool]
        /\ \E l \in NamedTools : state'.lists = [state.lists EXCEPT ![id] = l]
    BY <2>2, <2>3, <2>4, Zenon DEF t
  <2>. QED BY <1>2, <2>1, <2>4, <2>5, Zenon
<1>4. CASE ~admitted
  <2>1. state' = Unwound(state, id) /\ c2s' = c2s
    BY <1>1, <1>4, Zenon
  <2>. QED BY <1>2, <2>1, UnwoundFields, Zenon
<1>. QED BY <1>3, <1>4, Zenon

(* And what it leaves in the history: the calls without a verdict under    *)
(* other ids.                                                              *)
LEMMA CallHistory ==
  ASSUME TypeOK, NEW id \in Ids, C2sCall(id)
  PROVE  /\ hist' \in Histories /\ hist'.last = hist.last
         /\ hist'.used = hist.used /\ hist'.discovered = hist.discovered
         /\ \A i \in Ids : \A t : <<i, t>> \in hist'.unresolved <=>
                                   <<i, t>> \in hist.unresolved /\ i # id
<1>1. hist' = [hist EXCEPT !.unresolved = {u \in @ : u[1] # id}]
  BY CallEffect, Zenon
<1>2. hist \in Histories
  BY Zenon DEF TypeOK, Histories
<1>3. hist'.unresolved = {u \in hist.unresolved : u[1] # id}
  BY <1>1, <1>2, Zenon DEF Histories
<1>4. hist' \in Histories /\ hist'.last = hist.last
      /\ hist'.used = hist.used /\ hist'.discovered = hist.discovered
  BY <1>1, <1>2 DEF Histories
<1>5. \A i \in Ids : \A t : <<i, t>> \in hist'.unresolved <=>
                             <<i, t>> \in hist.unresolved /\ i # id
  BY <1>3
<1>. QED BY <1>4, <1>5, Zenon

(* What the rollback of a held call changes.                               *)
LEMMA UnwindEffect ==
  ASSUME TypeOK, C2sUnwind
  PROVE  /\ c2s # IdleC2s /\ c2s.id \in Ids /\ c2s' = IdleC2s
         /\ wire' = wire /\ s2c' = s2c /\ hist' = hist /\ state' \in States
         /\ state'.calls = [state.calls EXCEPT ![c2s.id] = NoTool]
         /\ state'.lists = [state.lists EXCEPT ![c2s.id] = NoTool]
         /\ state'.unverified = IF state.calls[c2s.id] # NoTool THEN state.unverified
                                ELSE [state.unverified EXCEPT ![c2s.id] = NoTool]
         /\ state'.known_paths = state.known_paths /\ state'.last = state.last
         /\ state'.overflow = state.overflow /\ state'.untrusted = state.untrusted
<1>1. c2s.pc = "gated" /\ c2s' = IdleC2s /\ wire' = wire /\ s2c' = s2c /\ hist' = hist
  BY Zenon DEF C2sUnwind
<1>2. c2s # IdleC2s /\ c2s.id \in Ids /\ state \in States
  BY <1>1 DEF TypeOK, IdleC2s, States
<1>3. state' = Unwound(state, c2s.id)
  BY Zenon DEF C2sUnwind, UnwindGated
<1>. QED BY <1>1, <1>2, <1>3, UnwoundFields, Zenon

(* What the release of a call without a verdict changes.                   *)
LEMMA CancelEffect ==
  ASSUME OwnedInv, NEW id \in Ids, C2sCancel(id)
  PROVE  /\ c2s = IdleC2s /\ c2s' = c2s /\ s2c' = s2c
         /\ wire[id] # NoEntry /\ wire[id].tool \in Tools
         /\ wire' = [wire EXCEPT ![id] = [phase |-> "cancelled", tool |-> wire[id].tool]]
         /\ hist' = [hist EXCEPT !.unresolved = @ \cup {<<id, wire[id].tool>>}]
         /\ state' = ReleaseUnverified(TakePendingList(state, id), id)
<1>1. /\ c2s = IdleC2s /\ c2s' = c2s /\ s2c' = s2c /\ wire[id] # NoEntry
      /\ wire' = [wire EXCEPT ![id].phase = "cancelled"]
      /\ hist' = [hist EXCEPT !.unresolved = @ \cup {<<id, wire[id].tool>>}]
      /\ state' = ReleaseUnverified(TakePendingList(state, id), id)
  BY Zenon DEF C2sCancel, C2sReads
<1>2. wire \in [Ids -> Entries]
  BY Zenon DEF OwnedInv, TypeOK, Entries
<1>3. wire[id].tool \in Tools
  BY <1>1, Zenon DEF OwnedInv, WireTyped
<1>4. wire' = [wire EXCEPT ![id] = [phase |-> "cancelled", tool |-> wire[id].tool]]
  <2>1. wire[id] \in [phase : {"none", "live", "cancelled"}, tool : NamedTools]
    BY <1>2, Zenon DEF Entries
  <2>2. [wire[id] EXCEPT !.phase = "cancelled"] = [phase |-> "cancelled", tool |-> wire[id].tool]
    BY <2>1
  <2>3. wire' = [wire EXCEPT ![id] = [wire[id] EXCEPT !.phase = "cancelled"]]
    BY <1>1, <1>2, Zenon
  <2>. QED BY <2>2, <2>3, Zenon
<1>. QED BY <1>1, <1>3, <1>4, Zenon

(* What the write of a held call changes.                                  *)
LEMMA WriteEffect ==
  ASSUME TypeOK, C2sWrite
  PROVE  /\ c2s # IdleC2s /\ c2s' = IdleC2s /\ state' = state /\ s2c' = s2c
         /\ c2s.id \in Ids /\ c2s.tool \in Tools /\ c2s.path \in SUBSET Paths
         /\ wire' = [wire EXCEPT ![c2s.id] = [phase |-> "live", tool |-> c2s.tool]]
         /\ hist' = [hist EXCEPT !.used = @ \cup c2s.path]
<1>1. c2s.pc = "gated"
  BY Zenon DEF C2sWrite
<1>2. c2s # IdleC2s /\ c2s.id \in Ids /\ c2s.tool \in Tools /\ c2s.path \in SUBSET Paths
  BY <1>1 DEF TypeOK, IdleC2s
<1>. QED BY <1>2, Zenon DEF C2sWrite

(* What the consumption of a wire entry changes.                           *)
LEMMA AnswerEffect ==
  ASSUME OwnedInv, NEW id \in Ids, S2cAnswer(id)
  PROVE  /\ s2c = IdleS2c /\ wire[id] # NoEntry /\ wire[id].tool \in Tools
         /\ state' = state /\ c2s' = c2s /\ hist' = hist
         /\ wire' = [wire EXCEPT ![id] = NoEntry]
         /\ s2c' \in Takens
         /\ s2c'.id = id /\ s2c'.tool = wire[id].tool
         /\ s2c'.awaited = (wire[id].phase = "live")
<1>1. wire[id] # NoEntry /\ wire[id].tool \in Tools
  BY Zenon DEF S2cAnswer, OwnedInv, WireTyped
<1>2. PICK verdict \in {"success", "failure", "refused"}, paths \in SUBSET Paths :
        s2c' = [pc |-> "taken", id |-> id, tool |-> wire[id].tool, verdict |-> verdict,
                paths |-> paths, awaited |-> wire[id].phase = "live"]
  BY Zenon DEF S2cAnswer
<1>3. s2c' \in Takens
  BY <1>1, <1>2, Zenon DEF Takens
<1>4. /\ s2c'.id = id /\ s2c'.tool = wire[id].tool
      /\ s2c'.awaited = (wire[id].phase = "live")
  BY <1>2, Zenon
<1>. QED BY <1>1, <1>3, <1>4, Zenon DEF S2cAnswer

(* What the end of an answer changes, by its verdict.                      *)
LEMMA ApplyEffect ==
  ASSUME TypeOK, S2cApply
  PROVE  /\ s2c # IdleS2c /\ s2c' = IdleS2c /\ wire' = wire /\ c2s' = c2s
         /\ s2c.id \in Ids /\ s2c.tool \in Tools /\ s2c.paths \in PathSets
         /\ s2c.awaited \in BOOLEAN
         /\ \/ /\ \E seeded \in Seeded(state, s2c.id, s2c.paths) :
                    state' = Complete(seeded, s2c.id, TRUE)
               /\ hist' = [hist EXCEPT !.last = s2c.tool,
                                       !.unresolved = @ \ {<<s2c.id, s2c.tool>>},
                                       !.discovered = IF s2c.awaited THEN @ \cup s2c.paths ELSE @]
            \/ /\ state' = Unwound(state, s2c.id)
               /\ hist' = [hist EXCEPT !.unresolved = @ \ {<<s2c.id, s2c.tool>>}]
            \/ /\ state' = ReleaseUnverified(TakePendingList(state, s2c.id), s2c.id)
               /\ hist' = [hist EXCEPT !.unresolved = @ \cup {<<s2c.id, s2c.tool>>}]
<1>1. s2c # IdleS2c
  BY Zenon DEF S2cApply
<1>2. s2c \in Takens
  BY <1>1, Zenon DEF TypeOK, Takens
<1>3. /\ s2c.id \in Ids /\ s2c.tool \in Tools /\ s2c.paths \in PathSets
      /\ s2c.awaited \in BOOLEAN
  BY <1>2, Zenon DEF Takens, PathSets
<1>. QED BY <1>1, <1>3, Zenon DEF S2cApply, Unwound

(* And what it leaves in the history.                                      *)
LEMMA ApplyHistory ==
  ASSUME TypeOK, S2cApply
  PROVE  /\ hist' \in Histories /\ hist'.used = hist.used
         /\ \/ /\ hist'.last = s2c.tool
               /\ hist'.unresolved = hist.unresolved \ {<<s2c.id, s2c.tool>>}
               /\ hist'.discovered = IF s2c.awaited THEN hist.discovered \cup s2c.paths
                                     ELSE hist.discovered
               /\ \E seeded \in Seeded(state, s2c.id, s2c.paths) :
                    state' = Complete(seeded, s2c.id, TRUE)
            \/ /\ hist'.last = hist.last /\ hist'.discovered = hist.discovered
               /\ hist'.unresolved = hist.unresolved \ {<<s2c.id, s2c.tool>>}
               /\ state' = Unwound(state, s2c.id)
            \/ /\ hist'.last = hist.last /\ hist'.discovered = hist.discovered
               /\ hist'.unresolved = hist.unresolved \cup {<<s2c.id, s2c.tool>>}
               /\ state' = ReleaseUnverified(TakePendingList(state, s2c.id), s2c.id)
<1>1. /\ s2c.id \in Ids /\ s2c.tool \in Tools /\ s2c.paths \in SUBSET Paths
      /\ s2c.awaited \in BOOLEAN
  BY ApplyEffect, Zenon DEF PathSets
<1>2. hist \in Histories
  BY Zenon DEF TypeOK, Histories
<1>3. CASE /\ \E seeded \in Seeded(state, s2c.id, s2c.paths) :
                 state' = Complete(seeded, s2c.id, TRUE)
           /\ hist' = [hist EXCEPT !.last = s2c.tool,
                                   !.unresolved = @ \ {<<s2c.id, s2c.tool>>},
                                   !.discovered = IF s2c.awaited THEN @ \cup s2c.paths ELSE @]
  <2>1. /\ hist' \in Histories /\ hist'.used = hist.used /\ hist'.last = s2c.tool
        /\ hist'.unresolved = hist.unresolved \ {<<s2c.id, s2c.tool>>}
        /\ hist'.discovered = IF s2c.awaited THEN hist.discovered \cup s2c.paths
                              ELSE hist.discovered
    BY <1>1, <1>2, <1>3, Zenon DEF Histories, NamedTools
  <2>. QED BY <1>3, <2>1, Zenon
<1>4. CASE /\ state' = Unwound(state, s2c.id)
           /\ hist' = [hist EXCEPT !.unresolved = @ \ {<<s2c.id, s2c.tool>>}]
  <2>1. /\ hist' \in Histories /\ hist'.used = hist.used
        /\ hist'.last = hist.last /\ hist'.discovered = hist.discovered
        /\ hist'.unresolved = hist.unresolved \ {<<s2c.id, s2c.tool>>}
    BY <1>2, <1>4, Zenon DEF Histories
  <2>. QED BY <1>4, <2>1, Zenon
<1>5. CASE /\ state' = ReleaseUnverified(TakePendingList(state, s2c.id), s2c.id)
           /\ hist' = [hist EXCEPT !.unresolved = @ \cup {<<s2c.id, s2c.tool>>}]
  <2>1. /\ hist' \in Histories /\ hist'.used = hist.used
        /\ hist'.last = hist.last /\ hist'.discovered = hist.discovered
        /\ hist'.unresolved = hist.unresolved \cup {<<s2c.id, s2c.tool>>}
    BY <1>1, <1>2, <1>5 DEF Histories
  <2>. QED BY <1>5, <2>1, Zenon
<1>. QED BY <1>3, <1>4, <1>5, ApplyEffect, Zenon

LEMMA InitOwned == Init => OwnedInv
  BY DEF Init, OwnedInv, TypeOK, WireTyped, NamedTools, NoEntry, IdleC2s, IdleS2c

LEMMA NextOwned == OwnedInv /\ [Next]_vars => OwnedInv'
<1>. SUFFICES ASSUME OwnedInv, [Next]_vars PROVE OwnedInv'
  OBVIOUS
<1>. DEFINE Pending(i) == state.calls[i] # NoTool \/ state.lists[i] # NoTool
<1>1. /\ TypeOK /\ state \in States /\ wire \in [Ids -> Entries]
      /\ c2s \in {IdleC2s} \cup Gateds /\ s2c \in {IdleS2c} \cup Takens
      /\ hist \in Histories /\ WireTyped
      /\ \A i \in Ids : Pending(i) => Owned(i)
  BY Zenon DEF OwnedInv, TypeOK, States, Entries, Gateds, Takens, Histories
<1>2. SUFFICES /\ state' \in States /\ wire' \in [Ids -> Entries]
               /\ c2s' \in {IdleC2s} \cup Gateds /\ s2c' \in {IdleS2c} \cup Takens
               /\ hist' \in Histories /\ WireTyped'
               /\ \A i \in Ids : Pending(i)' => Owned(i)'
  BY Zenon DEF OwnedInv, TypeOK, States, Entries, Gateds, Takens, Histories
<1>3. state.calls \in [Ids -> NamedTools] /\ state.lists \in [Ids -> NamedTools]
  BY <1>1, Zenon DEF States
<1>11. hist \in Histories
  BY Zenon DEF OwnedInv, TypeOK, Histories
<1>4. ASSUME NEW id \in Ids, C2sCall(id)
      PROVE  /\ state' \in States /\ wire' \in [Ids -> Entries]
             /\ c2s' \in {IdleC2s} \cup Gateds /\ s2c' \in {IdleS2c} \cup Takens
             /\ hist' \in Histories /\ WireTyped'
             /\ \A i \in Ids : Pending(i)' => Owned(i)'
  <2>1. /\ c2s = IdleC2s /\ state' \in States
        /\ wire' = wire /\ s2c' = s2c /\ hist' \in Histories
    BY <1>1, <1>4, CallEffect, CallHistory, Zenon
  <2>2. WireTyped'
    BY <1>1, <2>1, Zenon DEF WireTyped
  <2>3. CASE /\ c2s' \in Gateds /\ c2s' # IdleC2s /\ c2s'.id = id
             /\ state'.calls = [state.calls EXCEPT ![id] = c2s'.tool]
             /\ \E l \in NamedTools : state'.lists = [state.lists EXCEPT ![id] = l]
    <3>2. \A i \in Ids : i # id => state'.calls[i] = state.calls[i] /\ state'.lists[i] = state.lists[i]
      BY <1>3, <2>3, Zenon
    <3>3. ASSUME NEW i \in Ids, Pending(i)' PROVE Owned(i)'
      <4>1. CASE i = id
        BY <2>3, <4>1, Zenon DEF Owned, Gated
      <4>2. CASE i # id
        <5>1. Owned(i)
          BY <1>1, <3>2, <3>3, <4>2, Zenon
        <5>. QED BY <2>1, <5>1, Zenon DEF Owned, Gated, Taken
      <4>. QED BY <4>1, <4>2, Zenon
    <3>. QED BY <1>1, <2>1, <2>2, <2>3, <3>3, Zenon
  <2>4. CASE /\ c2s' = c2s
             /\ state'.calls = [state.calls EXCEPT ![id] = NoTool]
             /\ state'.lists = [state.lists EXCEPT ![id] = NoTool]
    <3>1. \A i \in Ids : Pending(i)' => Pending(i)
      BY <1>3, <2>4, Zenon
    <3>2. \A i \in Ids : Owned(i) => Owned(i)'
      BY <2>1, <2>4, Zenon DEF Owned, Gated, Taken
    <3>. QED BY <1>1, <2>1, <2>2, <2>4, <3>1, <3>2, Zenon
  <2>. QED BY <1>1, <1>4, <2>3, <2>4, CallEffect, Zenon
<1>5. ASSUME NEW id \in Ids, C2sCancel(id)
      PROVE  /\ state' \in States /\ wire' \in [Ids -> Entries]
             /\ c2s' \in {IdleC2s} \cup Gateds /\ s2c' \in {IdleS2c} \cup Takens
             /\ hist' \in Histories /\ WireTyped'
             /\ \A i \in Ids : Pending(i)' => Owned(i)'
  <2>1. /\ c2s' = c2s /\ s2c' = s2c /\ wire[id].tool \in Tools
        /\ wire' = [wire EXCEPT ![id] = [phase |-> "cancelled", tool |-> wire[id].tool]]
        /\ hist' = [hist EXCEPT !.unresolved = @ \cup {<<id, wire[id].tool>>}]
        /\ state' = ReleaseUnverified(TakePendingList(state, id), id)
    BY <1>5, CancelEffect, Zenon
  <2>2. /\ state' \in States
        /\ state'.calls = [state.calls EXCEPT ![id] = NoTool]
        /\ state'.lists = [state.lists EXCEPT ![id] = NoTool]
    BY <1>1, <2>1, DroppedFields, Zenon
  <2>3. wire' \in [Ids -> Entries]
    BY <1>1, <2>1, Zenon DEF NamedTools, Entries
  <2>4. /\ wire'[id] = [phase |-> "cancelled", tool |-> wire[id].tool]
        /\ \A i \in Ids : i # id => wire'[i] = wire[i]
    BY <1>1, <2>1, Zenon
  <2>5. WireTyped'
    BY <1>1, <2>1, <2>4, Zenon DEF WireTyped
  <2>6. hist' \in Histories
    BY <1>11, <2>1 DEF Histories
  <2>7. \A i \in Ids : Pending(i)' => Pending(i) /\ i # id
    BY <1>3, <2>2, Zenon
  <2>8. \A i \in Ids : Owned(i) /\ i # id => Owned(i)'
    BY <2>1, <2>4, Zenon DEF Owned, Gated, Taken
  <2>. QED BY <1>1, <2>1, <2>2, <2>3, <2>5, <2>6, <2>7, <2>8, Zenon
<1>6. ASSUME NEW id \in Ids, S2cAnswer(id)
      PROVE  /\ state' \in States /\ wire' \in [Ids -> Entries]
             /\ c2s' \in {IdleC2s} \cup Gateds /\ s2c' \in {IdleS2c} \cup Takens
             /\ hist' \in Histories /\ WireTyped'
             /\ \A i \in Ids : Pending(i)' => Owned(i)'
  <2>1. /\ s2c = IdleS2c /\ state' = state /\ c2s' = c2s /\ hist' = hist
        /\ wire' = [wire EXCEPT ![id] = NoEntry]
        /\ s2c' \in Takens /\ s2c'.id = id
    BY <1>6, AnswerEffect, Zenon
  <2>2. wire' \in [Ids -> Entries] /\ wire'[id] = NoEntry /\ \A i \in Ids : i # id => wire'[i] = wire[i]
    BY <1>1, <2>1, Zenon DEF NamedTools, NoEntry, Entries
  <2>3. WireTyped'
    BY <1>1, <2>2, Zenon DEF WireTyped
  <2>4. s2c' # IdleS2c
    BY <2>1 DEF IdleS2c, Takens
  <2>5. ASSUME NEW i \in Ids, Owned(i) PROVE Owned(i)'
    <3>1. CASE i = id
      BY <2>1, <2>4, <3>1, Zenon DEF Owned, Taken
    <3>2. CASE i # id
      BY <2>1, <2>2, <2>5, <3>2, Zenon DEF Owned, Gated, Taken
    <3>. QED BY <3>1, <3>2, Zenon
  <2>. QED BY <1>1, <2>1, <2>2, <2>3, <2>5, Zenon
<1>7. CASE C2sWrite
  <2>1. /\ c2s # IdleC2s /\ c2s' = IdleC2s /\ state' = state /\ s2c' = s2c
        /\ c2s.id \in Ids /\ c2s.tool \in Tools /\ c2s.path \in SUBSET Paths
        /\ wire' = [wire EXCEPT ![c2s.id] = [phase |-> "live", tool |-> c2s.tool]]
        /\ hist' = [hist EXCEPT !.used = @ \cup c2s.path]
    BY <1>1, <1>7, WriteEffect, Zenon
  <2>2. wire' \in [Ids -> Entries]
    BY <1>1, <2>1, Zenon DEF NamedTools, Entries
  <2>3. /\ wire'[c2s.id].phase = "live" /\ wire'[c2s.id].tool \in Tools
        /\ \A i \in Ids : i # c2s.id => wire'[i] = wire[i]
    BY <1>1, <2>1, Zenon
  <2>4. WireTyped'
    BY <1>1, <2>1, <2>3, Zenon DEF WireTyped
  <2>5. hist' \in Histories
    <3>1. hist \in Histories /\ c2s.path \in SUBSET Paths
      BY <1>11, <2>1, Zenon
    <3>. QED BY <2>1, <3>1, Zenon DEF Histories
  <2>6. ASSUME NEW i \in Ids, Owned(i) PROVE Owned(i)'
    <3>1. CASE i = c2s.id
      BY <2>3, <3>1, Zenon DEF Owned
    <3>2. CASE i # c2s.id
      BY <2>1, <2>3, <2>6, <3>2, Zenon DEF Owned, Gated, Taken
    <3>. QED BY <3>1, <3>2, Zenon
  <2>. QED BY <1>1, <1>2, <2>1, <2>2, <2>4, <2>5, <2>6, Zenon
<1>8. CASE C2sUnwind
  <2>1. /\ c2s # IdleC2s /\ c2s.id \in Ids /\ c2s' = IdleC2s
        /\ wire' = wire /\ s2c' = s2c /\ hist' = hist /\ state' \in States
        /\ state'.calls = [state.calls EXCEPT ![c2s.id] = NoTool]
        /\ state'.lists = [state.lists EXCEPT ![c2s.id] = NoTool]
    BY <1>1, <1>8, UnwindEffect, Zenon
  <2>2. WireTyped'
    BY <1>1, <2>1, Zenon DEF WireTyped
  <2>3. \A i \in Ids : Pending(i)' => Pending(i) /\ i # c2s.id
    BY <1>3, <2>1, Zenon
  <2>4. \A i \in Ids : Owned(i) /\ i # c2s.id => Owned(i)'
    BY <2>1, Zenon DEF Owned, Gated, Taken
  <2>. QED BY <1>1, <1>2, <2>1, <2>2, <2>3, <2>4, Zenon
<1>9. CASE S2cApply
  <2>1. /\ s2c # IdleS2c /\ s2c' = IdleS2c /\ wire' = wire /\ c2s' = c2s
        /\ s2c.id \in Ids /\ s2c.paths \in PathSets
    BY <1>1, <1>9, ApplyEffect, Zenon
  <2>2. hist' \in Histories
    BY <1>1, <1>9, ApplyHistory, Zenon
  <2>3. /\ state' \in States
        /\ state'.calls = [state.calls EXCEPT ![s2c.id] = NoTool]
        /\ state'.lists = [state.lists EXCEPT ![s2c.id] = NoTool]
    <3>1. CASE \E seeded \in Seeded(state, s2c.id, s2c.paths) :
                 state' = Complete(seeded, s2c.id, TRUE)
      <4>1. PICK seeded \in Seeded(state, s2c.id, s2c.paths) :
             state' = Complete(seeded, s2c.id, TRUE)
        BY <3>1, Zenon
      <4>2. state \in States /\ s2c.id \in Ids /\ s2c.paths \in PathSets
        BY <1>1, <2>1, Zenon
      <4>3. SucceedsTo(state, s2c.id, s2c.paths, state')
        BY <4>1, <4>2, SucceededFields, Zenon
      <4>. QED BY <4>3, Zenon DEF SucceedsTo
    <3>2. CASE state' = Unwound(state, s2c.id)
      BY <1>1, <2>1, <3>2, UnwoundFields, Zenon
    <3>3. CASE state' = ReleaseUnverified(TakePendingList(state, s2c.id), s2c.id)
      BY <1>1, <2>1, <3>3, DroppedFields, Zenon
    <3>. QED BY <1>1, <1>9, <3>1, <3>2, <3>3, ApplyHistory, Zenon
  <2>4. WireTyped'
    BY <1>1, <2>1, Zenon DEF WireTyped
  <2>5. \A i \in Ids : Pending(i)' => Pending(i) /\ i # s2c.id
    BY <1>3, <2>1, <2>3, Zenon
  <2>6. \A i \in Ids : Owned(i) /\ i # s2c.id => Owned(i)'
    BY <2>1, Zenon DEF Owned, Gated, Taken
  <2>. QED BY <1>1, <1>2, <2>1, <2>2, <2>3, <2>4, <2>5, <2>6, Zenon
<1>10. CASE UNCHANGED vars
  BY <1>1, <1>10, Zenon DEF vars, WireTyped, Owned, Gated, Taken
<1>. QED BY <1>2, <1>4, <1>5, <1>6, <1>7, <1>8, <1>9, <1>10, Zenon DEF Next

(* PendingOwned: an entry of calls or lists belongs to a call in progress, *)
(* however the client reuses its ids.                                      *)
THEOREM PendingCallsOwned == Spec => []PendingOwned
<1>1. OwnedInv => PendingOwned
  BY Zenon DEF OwnedInv, PendingOwned, Owned, Gated, Taken
<1>. QED BY <1>1, InitOwned, NextOwned, PTL DEF Spec

-----------------------------------------------------------------------------
(* One id is in one place, when no id is reused under an answer.           *)

LEMMA NextOnePlace ==
  ASSUME Reuse # "any", OwnedInv, OnePlace, [Next]_vars
  PROVE  OnePlace'
<1>. DEFINE P(i) == /\ Gated(i) => wire[i] = NoEntry /\ ~Taken(i)
                    /\ Taken(i) => wire[i] = NoEntry
<1>1. TypeOK /\ wire \in [Ids -> Entries]
  BY Zenon DEF OwnedInv, TypeOK, Entries
<1>2. \A i \in Ids : P(i)
  BY Zenon DEF OnePlace
<1>3. SUFFICES ASSUME NEW i \in Ids PROVE P(i)'
  BY Zenon DEF OnePlace
<1>4. ASSUME NEW id \in Ids, C2sCall(id) PROVE P(i)'
  <2>1. c2s = IdleC2s /\ wire[id] = NoEntry /\ wire' = wire /\ s2c' = s2c
    BY <1>1, <1>4, CallEffect, Zenon
  <2>2. s2c # IdleS2c => s2c.id # id
    BY <1>4, PolicyTyped, Zenon DEF C2sCall, MayReuse
  <2>3. c2s' = c2s \/ c2s'.id = id
    BY <1>1, <1>4, CallEffect, Zenon
  <2>. QED BY <1>2, <2>1, <2>2, <2>3, Zenon DEF Gated, Taken
<1>5. ASSUME NEW id \in Ids, C2sCancel(id) PROVE P(i)'
  <2>1. /\ c2s = IdleC2s /\ c2s' = c2s /\ s2c' = s2c /\ wire[id] # NoEntry
        /\ wire' = [wire EXCEPT ![id] = [phase |-> "cancelled", tool |-> wire[id].tool]]
    BY <1>5, CancelEffect, Zenon
  <2>2. i # id => wire'[i] = wire[i]
    BY <1>1, <2>1, Zenon
  <2>. QED BY <1>2, <2>1, <2>2, Zenon DEF Gated, Taken
<1>6. ASSUME NEW id \in Ids, S2cAnswer(id) PROVE P(i)'
  <2>1. /\ s2c = IdleS2c /\ wire[id] # NoEntry /\ c2s' = c2s
        /\ wire' = [wire EXCEPT ![id] = NoEntry] /\ s2c'.id = id
    BY <1>6, AnswerEffect, Zenon
  <2>2. (i # id => wire'[i] = wire[i]) /\ (i = id => wire'[i] = NoEntry)
    BY <1>1, <2>1, Zenon
  <2>. QED BY <1>2, <2>1, <2>2, Zenon DEF Gated, Taken
<1>7. CASE C2sWrite
  <2>1. /\ c2s # IdleC2s /\ c2s' = IdleC2s /\ s2c' = s2c /\ c2s.id \in Ids
        /\ wire' = [wire EXCEPT ![c2s.id] = [phase |-> "live", tool |-> c2s.tool]]
    BY <1>1, <1>7, WriteEffect, Zenon
  <2>2. i # c2s.id => wire'[i] = wire[i]
    BY <1>1, <2>1, Zenon
  <2>. QED BY <1>2, <2>1, <2>2, Zenon DEF Gated, Taken
<1>8. CASE C2sUnwind
  <2>1. c2s' = IdleC2s /\ wire' = wire /\ s2c' = s2c
    BY <1>8, Zenon DEF C2sUnwind
  <2>. QED BY <1>2, <2>1, Zenon DEF Gated, Taken
<1>9. CASE S2cApply
  <2>1. s2c' = IdleS2c /\ wire' = wire /\ c2s' = c2s
    BY <1>9, Zenon DEF S2cApply
  <2>. QED BY <1>2, <2>1, Zenon DEF Gated, Taken
<1>10. CASE UNCHANGED vars
  BY <1>2, <1>10, Zenon DEF vars, Gated, Taken
<1>. QED BY <1>4, <1>5, <1>6, <1>7, <1>8, <1>9, <1>10, Zenon DEF Next

-----------------------------------------------------------------------------
(* What is used was discovered.                                            *)

LEMMA NextDeputy ==
  ASSUME Reuse # "any", OwnedInv, DeputyInv, [Next]_vars
  PROVE  DeputyInv'
<1>1. /\ TypeOK /\ state \in States /\ state.lists \in [Ids -> NamedTools]
      /\ wire \in [Ids -> Entries]
  BY Zenon DEF OwnedInv, TypeOK, States, Entries
<1>2. OnePlace'
  BY NextOnePlace, Zenon DEF DeputyInv
<1>. DEFINE Unlisted(i) ==
              /\ wire[i].phase = "cancelled" => state.lists[i] = NoTool
              /\ Taken(i) /\ ~s2c.awaited => state.lists[i] = NoTool
            Known ==
              /\ state.known_paths \subseteq hist.discovered
              /\ c2s # IdleC2s => c2s.path \subseteq hist.discovered
              /\ hist.used \subseteq hist.discovered
<1>3. (\A i \in Ids : Unlisted(i)) /\ Known /\ OnePlace
  BY Zenon DEF DeputyInv
<1>4. SUFFICES (\A i \in Ids : Unlisted(i)') /\ Known'
  BY <1>2, Zenon DEF DeputyInv
<1>5. ASSUME NEW id \in Ids, C2sCall(id) PROVE (\A i \in Ids : Unlisted(i)') /\ Known'
  <2>1. /\ c2s = IdleC2s /\ wire[id] = NoEntry /\ wire' = wire /\ s2c' = s2c
        /\ state'.known_paths = state.known_paths
        /\ hist'.used = hist.used /\ hist'.discovered = hist.discovered
    BY <1>1, <1>5, CallEffect, CallHistory, Zenon
  <2>2. s2c # IdleS2c => s2c.id # id
    BY <1>5, PolicyTyped, Zenon DEF C2sCall, MayReuse
  <2>3. \E l \in NamedTools : state'.lists = [state.lists EXCEPT ![id] = l]
    BY <1>1, <1>5, CallEffect, Zenon DEF NamedTools
  <2>4. \A i \in Ids : i # id => state'.lists[i] = state.lists[i]
    BY <1>1, <2>3, Zenon
  <2>5. wire[id].phase # "cancelled"
    BY <2>1 DEF NoEntry
  <2>6. \A i \in Ids : Unlisted(i)'
    BY <1>3, <2>1, <2>2, <2>4, <2>5, Zenon DEF Taken
  <2>7. c2s' = c2s \/ c2s'.path \subseteq state.known_paths
    BY <1>1, <1>5, CallEffect, Zenon
  <2>8. Known'
    BY <1>3, <2>1, <2>7, Zenon
  <2>. QED BY <2>6, <2>8, Zenon
<1>6. ASSUME NEW id \in Ids, C2sCancel(id) PROVE (\A i \in Ids : Unlisted(i)') /\ Known'
  <2>1. /\ c2s' = c2s /\ s2c' = s2c
        /\ wire' = [wire EXCEPT ![id] = [phase |-> "cancelled", tool |-> wire[id].tool]]
        /\ hist' = [hist EXCEPT !.unresolved = @ \cup {<<id, wire[id].tool>>}]
        /\ state' = ReleaseUnverified(TakePendingList(state, id), id)
    BY <1>6, CancelEffect, Zenon
  <2>2. /\ state'.lists = [state.lists EXCEPT ![id] = NoTool]
        /\ state'.known_paths = state.known_paths
    BY <1>1, <2>1, DroppedFields, Zenon
  <2>3. hist'.discovered = hist.discovered /\ hist'.used = hist.used
    BY <2>1 DEF TypeOK
  <2>4. \A i \in Ids : IF i = id THEN state'.lists[i] = NoTool
                       ELSE state'.lists[i] = state.lists[i] /\ wire'[i] = wire[i]
    BY <1>1, <2>1, <2>2, Zenon
  <2>5. \A i \in Ids : Unlisted(i)'
    BY <1>3, <2>1, <2>4, Zenon DEF Taken
  <2>. QED BY <1>3, <2>1, <2>2, <2>3, <2>5, Zenon
<1>7. ASSUME NEW id \in Ids, S2cAnswer(id) PROVE (\A i \in Ids : Unlisted(i)') /\ Known'
  <2>1. /\ wire[id] # NoEntry /\ wire[id].phase \in {"live", "cancelled"}
    BY <1>7, Zenon DEF S2cAnswer, OwnedInv, WireTyped
  <2>2. /\ state' = state /\ c2s' = c2s /\ hist' = hist
        /\ wire' = [wire EXCEPT ![id] = NoEntry]
        /\ s2c'.id = id /\ s2c'.awaited = (wire[id].phase = "live")
    BY <1>7, AnswerEffect, Zenon
  <2>3. \A i \in Ids : IF i = id THEN wire'[i].phase = "none" ELSE wire'[i] = wire[i]
    BY <1>1, <2>2, Zenon DEF NoEntry
  <2>4. ~s2c'.awaited => wire[id].phase = "cancelled"
    BY <2>1, <2>2, Zenon
  <2>5. ASSUME NEW i \in Ids PROVE Unlisted(i)'
    <3>1. CASE i = id
      <4>1. wire'[i].phase # "cancelled"
        BY <2>3, <3>1, Zenon
      <4>2. ~s2c'.awaited => state'.lists[i] = NoTool
        BY <1>3, <2>2, <2>4, <3>1, Zenon
      <4>. QED BY <4>1, <4>2, Zenon
    <3>2. CASE i # id
      BY <1>3, <2>2, <2>3, <3>2, Zenon DEF Taken
    <3>. QED BY <3>1, <3>2, Zenon
  <2>. QED BY <1>3, <2>2, <2>5, Zenon
<1>8. CASE C2sWrite
  <2>1. /\ c2s # IdleC2s /\ c2s' = IdleC2s /\ state' = state /\ s2c' = s2c /\ c2s.id \in Ids
        /\ wire' = [wire EXCEPT ![c2s.id] = [phase |-> "live", tool |-> c2s.tool]]
        /\ hist' = [hist EXCEPT !.used = @ \cup c2s.path]
    BY <1>1, <1>8, WriteEffect, Zenon
  <2>2. hist'.discovered = hist.discovered /\ hist'.used = hist.used \cup c2s.path
    BY <1>1, <2>1, Zenon DEF TypeOK
  <2>3. \A i \in Ids : wire'[i] = wire[i] \/ wire'[i].phase = "live"
    BY <1>1, <2>1, Zenon
  <2>4. \A i \in Ids : Unlisted(i)'
    <3>1. \A i \in Ids : wire'[i].phase = "cancelled" => wire[i].phase = "cancelled"
      BY <2>3, Zenon
    <3>. QED BY <1>3, <2>1, <3>1, Zenon DEF Taken
  <2>5. Known'
    BY <1>3, <2>1, <2>2, Zenon
  <2>. QED BY <2>4, <2>5, Zenon
<1>9. CASE C2sUnwind
  <2>1. /\ c2s.id \in Ids /\ c2s' = IdleC2s /\ wire' = wire /\ s2c' = s2c /\ hist' = hist
        /\ state'.lists = [state.lists EXCEPT ![c2s.id] = NoTool]
        /\ state'.known_paths = state.known_paths
    BY <1>1, <1>9, UnwindEffect, Zenon
  <2>2. \A i \in Ids : state.lists[i] = NoTool => state'.lists[i] = NoTool
    BY <1>1, <2>1, Zenon
  <2>. QED BY <1>3, <2>1, <2>2, Zenon DEF Taken
<1>10. CASE S2cApply
  <2>1. /\ s2c # IdleS2c /\ s2c' = IdleS2c /\ wire' = wire /\ c2s' = c2s
        /\ s2c.id \in Ids /\ s2c.paths \in PathSets /\ s2c.awaited \in BOOLEAN
    BY <1>1, <1>10, ApplyEffect, Zenon
  <2>2. hist'.used = hist.used
    BY <1>1, <1>10, ApplyHistory, Zenon
  <2>3. ~s2c.awaited => state.lists[s2c.id] = NoTool
    BY <1>3, <2>1, Zenon DEF Taken
  <2>4. /\ state'.lists = [state.lists EXCEPT ![s2c.id] = NoTool]
        /\ state'.known_paths \subseteq hist'.discovered
        /\ hist.discovered \subseteq hist'.discovered
    <3>1. CASE /\ hist'.discovered = IF s2c.awaited THEN hist.discovered \cup s2c.paths
                                     ELSE hist.discovered
               /\ \E seeded \in Seeded(state, s2c.id, s2c.paths) :
                    state' = Complete(seeded, s2c.id, TRUE)
      <4>1. PICK seeded \in Seeded(state, s2c.id, s2c.paths) :
             state' = Complete(seeded, s2c.id, TRUE)
        BY <3>1, Zenon
      <4>2. SucceedsTo(state, s2c.id, s2c.paths, state')
        BY <1>1, <2>1, <4>1, SucceededFields, Zenon
      <4>. QED BY <1>3, <2>3, <3>1, <4>2, Zenon DEF SucceedsTo
    <3>2. CASE state' = Unwound(state, s2c.id) /\ hist'.discovered = hist.discovered
      <4>1. /\ state'.lists = [state.lists EXCEPT ![s2c.id] = NoTool]
            /\ state'.known_paths = state.known_paths
        BY <1>1, <2>1, <3>2, UnwoundFields, Zenon
      <4>. QED BY <1>3, <3>2, <4>1, Zenon
    <3>3. CASE /\ state' = ReleaseUnverified(TakePendingList(state, s2c.id), s2c.id)
               /\ hist'.discovered = hist.discovered
      <4>1. /\ state'.lists = [state.lists EXCEPT ![s2c.id] = NoTool]
            /\ state'.known_paths = state.known_paths
        BY <1>1, <2>1, <3>3, DroppedFields, Zenon
      <4>. QED BY <1>3, <3>3, <4>1, Zenon
    <3>. QED BY <1>1, <1>10, <3>1, <3>2, <3>3, ApplyHistory, Zenon
  <2>5. \A i \in Ids : state.lists[i] = NoTool => state'.lists[i] = NoTool
    BY <1>1, <2>1, <2>4, Zenon
  <2>6. \A i \in Ids : Unlisted(i)'
    BY <1>3, <2>1, <2>5, Zenon DEF Taken
  <2>. QED BY <1>3, <2>1, <2>2, <2>4, <2>6, Zenon
<1>11. CASE UNCHANGED vars
  BY <1>3, <1>11, Zenon DEF vars, Taken
<1>. QED BY <1>4, <1>5, <1>6, <1>7, <1>8, <1>9, <1>10, <1>11, Zenon DEF Next

(* UsedWereDiscovered: a call that uses a path crosses only after a        *)
(* successful, uncancelled discovery reported it, if the client does not   *)
(* use the id of an answer that is still being applied.                    *)
THEOREM UsedPathsDiscovered == Reuse # "any" /\ Spec => []UsedWereDiscovered
<1>. SUFFICES ASSUME Reuse # "any" PROVE Spec => []UsedWereDiscovered
  OBVIOUS
<1>1. Init => DeputyInv
  BY DEF Init, DeputyInv, OnePlace, Gated, Taken, NoEntry
<1>2. OwnedInv /\ DeputyInv /\ [Next]_vars => DeputyInv'
  BY NextDeputy, Zenon
<1>3. DeputyInv => UsedWereDiscovered
  BY Zenon DEF DeputyInv, UsedWereDiscovered
<1>. QED BY <1>1, <1>2, <1>3, InitOwned, NextOwned, PTL DEF Spec

-----------------------------------------------------------------------------
(* The calls that are pending, when no id is reused under an answer.       *)

LEMMA NextCalls ==
  ASSUME Reuse = "answered", OwnedInv, CallsInv, [Next]_vars
  PROVE  CallsInv'
<1>1. /\ TypeOK /\ state \in States /\ state.calls \in [Ids -> NamedTools]
      /\ wire \in [Ids -> Entries] /\ hist \in Histories
  BY Zenon DEF OwnedInv, TypeOK, States, Entries, Histories
<1>2. OnePlace'
  BY NextOnePlace, Zenon DEF CallsInv
<1>. DEFINE C(i) ==
              /\ Gated(i) => state.calls[i] = c2s.tool /\ NoVerdictDue(i)
              /\ wire[i].phase = "live" => state.calls[i] = wire[i].tool /\ NoVerdictDue(i)
              /\ wire[i].phase = "cancelled" =>
                   state.calls[i] = NoTool /\ <<i, wire[i].tool>> \in hist.unresolved
              /\ Taken(i) /\ s2c.awaited => state.calls[i] = s2c.tool /\ NoVerdictDue(i)
              /\ Taken(i) /\ ~s2c.awaited =>
                   state.calls[i] = NoTool /\ <<i, s2c.tool>> \in hist.unresolved
<1>3. (\A i \in Ids : C(i)) /\ OnePlace
  BY Zenon DEF CallsInv
<1>4. SUFFICES ASSUME NEW i \in Ids PROVE C(i)'
  BY <1>2, Zenon DEF CallsInv
<1>5. ASSUME NEW id \in Ids, C2sCall(id) PROVE C(i)'
  <2>1. /\ c2s = IdleC2s /\ wire[id] = NoEntry /\ wire' = wire /\ s2c' = s2c
    BY <1>1, <1>5, CallEffect, Zenon
  <2>2. (s2c # IdleS2c => s2c.id # id) /\ NoVerdictDue(id)'
    BY <1>1, <1>5, CallHistory, Zenon DEF C2sCall, MayReuse, NoVerdictDue
  <2>3. \/ /\ c2s' # IdleC2s /\ c2s'.id = id
           /\ state'.calls = [state.calls EXCEPT ![id] = c2s'.tool]
        \/ c2s' = c2s /\ state'.calls = [state.calls EXCEPT ![id] = NoTool]
    BY <1>1, <1>5, CallEffect, Zenon
  <2>4. CASE i = id
    <3>1. wire[i].phase # "live" /\ wire[i].phase # "cancelled"
      BY <2>1, <2>4 DEF NoEntry
    <3>2. Gated(i)' => state'.calls[i] = c2s'.tool
      BY <1>1, <2>1, <2>3, <2>4, Zenon DEF Gated
    <3>. QED BY <2>1, <2>2, <2>4, <3>1, <3>2, Zenon DEF Taken
  <2>5. CASE i # id
    <3>1. state'.calls[i] = state.calls[i]
      BY <1>1, <2>3, <2>5, Zenon
    <3>2. ~Gated(i)'
      BY <2>1, <2>3, <2>5, Zenon DEF Gated
    <3>3. \A t : <<i, t>> \in hist'.unresolved <=> <<i, t>> \in hist.unresolved
      BY <1>1, <1>5, <2>5, CallHistory, Zenon
    <3>. QED BY <1>3, <2>1, <3>1, <3>2, <3>3, Zenon DEF Taken, NoVerdictDue
  <2>. QED BY <2>4, <2>5, Zenon
<1>6. ASSUME NEW id \in Ids, C2sCancel(id) PROVE C(i)'
  <2>1. /\ c2s = IdleC2s /\ c2s' = c2s /\ s2c' = s2c /\ wire[id] # NoEntry
        /\ wire' = [wire EXCEPT ![id] = [phase |-> "cancelled", tool |-> wire[id].tool]]
        /\ hist' = [hist EXCEPT !.unresolved = @ \cup {<<id, wire[id].tool>>}]
        /\ state' = ReleaseUnverified(TakePendingList(state, id), id)
    BY <1>6, CancelEffect, Zenon
  <2>2. state'.calls = [state.calls EXCEPT ![id] = NoTool]
    BY <1>1, <2>1, DroppedFields, Zenon
  <2>3. hist'.unresolved = hist.unresolved \cup {<<id, wire[id].tool>>}
    BY <1>1, <2>1, Zenon DEF Histories
  <2>4. CASE i = id
    <3>1. state'.calls[i] = NoTool /\ wire'[i] = [phase |-> "cancelled", tool |-> wire[id].tool]
      BY <1>1, <2>1, <2>2, <2>4, Zenon
    <3>2. wire'[i].phase = "cancelled" /\ <<i, wire'[i].tool>> \in hist'.unresolved
      BY <2>3, <2>4, <3>1
    <3>3. ~Gated(i)' /\ ~Taken(i)'
      BY <1>3, <2>1, <2>4, Zenon DEF OnePlace, Gated, Taken
    <3>. QED BY <3>1, <3>2, <3>3, Zenon
  <2>5. CASE i # id
    <3>1. state'.calls[i] = state.calls[i] /\ wire'[i] = wire[i]
      BY <1>1, <2>1, <2>2, <2>5, Zenon
    <3>2. \A t \in Tools : <<i, t>> \in hist'.unresolved <=> <<i, t>> \in hist.unresolved
      BY <2>3, <2>5, Zenon
    <3>3. hist.unresolved \subseteq hist'.unresolved
      BY <2>3, Zenon
    <3>. QED BY <1>3, <2>1, <3>1, <3>2, <3>3, Zenon DEF Gated, Taken, NoVerdictDue
  <2>. QED BY <2>4, <2>5, Zenon
<1>7. ASSUME NEW id \in Ids, S2cAnswer(id) PROVE C(i)'
  <2>1. wire[id].phase \in {"live", "cancelled"}
    BY <1>7, Zenon DEF S2cAnswer, OwnedInv, WireTyped
  <2>2. /\ s2c = IdleS2c /\ state' = state /\ c2s' = c2s /\ hist' = hist
        /\ wire' = [wire EXCEPT ![id] = NoEntry]
        /\ s2c'.id = id /\ s2c'.tool = wire[id].tool
        /\ s2c'.awaited = (wire[id].phase = "live")
    BY <1>7, AnswerEffect, Zenon
  <2>3. CASE i = id
    <3>1. wire'[i].phase # "live" /\ wire'[i].phase # "cancelled"
      BY <1>1, <2>2, <2>3, Zenon DEF NoEntry
    <3>2. ~Gated(i)'
      BY <1>3, <1>7, <2>2, <2>3, Zenon DEF OnePlace, Gated, S2cAnswer
    <3>3. s2c'.awaited => wire[id].phase = "live"
      BY <2>2, Zenon
    <3>4. ~s2c'.awaited => wire[id].phase = "cancelled"
      BY <2>1, <2>2, Zenon
    <3>. QED BY <1>3, <2>2, <2>3, <3>1, <3>2, <3>3, <3>4, Zenon DEF NoVerdictDue
  <2>4. CASE i # id
    <3>1. wire'[i] = wire[i]
      BY <1>1, <2>2, <2>4, Zenon
    <3>2. ~Taken(i)'
      BY <2>2, <2>4, Zenon DEF Taken
    <3>. QED BY <1>3, <2>2, <3>1, <3>2, Zenon DEF Gated, NoVerdictDue
  <2>. QED BY <2>3, <2>4, Zenon
<1>8. CASE C2sWrite
  <2>1. /\ c2s # IdleC2s /\ c2s' = IdleC2s /\ state' = state /\ s2c' = s2c /\ c2s.id \in Ids
        /\ wire' = [wire EXCEPT ![c2s.id] = [phase |-> "live", tool |-> c2s.tool]]
        /\ hist' = [hist EXCEPT !.used = @ \cup c2s.path]
    BY <1>1, <1>8, WriteEffect, Zenon
  <2>2. hist'.unresolved = hist.unresolved
    BY <1>1, <2>1, Zenon DEF Histories
  <2>3. CASE i = c2s.id
    <3>1. wire'[i].phase = "live" /\ wire'[i].tool = c2s.tool
      BY <1>1, <2>1, <2>3, Zenon
    <3>2. Gated(i) /\ ~Taken(i)
      BY <1>3, <2>1, <2>3, Zenon DEF OnePlace, Gated
    <3>3. wire'[i].phase # "cancelled"
      BY <3>1, Zenon
    <3>. QED BY <1>3, <2>1, <2>2, <3>1, <3>2, <3>3, Zenon DEF Gated, Taken, NoVerdictDue
  <2>4. CASE i # c2s.id
    <3>1. wire'[i] = wire[i]
      BY <1>1, <2>1, <2>4, Zenon
    <3>. QED BY <1>3, <2>1, <2>2, <3>1, Zenon DEF Gated, Taken, NoVerdictDue
  <2>. QED BY <2>3, <2>4, Zenon
<1>9. CASE C2sUnwind
  <2>1. /\ c2s # IdleC2s /\ c2s.id \in Ids /\ c2s' = IdleC2s
        /\ wire' = wire /\ s2c' = s2c /\ hist' = hist
        /\ state'.calls = [state.calls EXCEPT ![c2s.id] = NoTool]
    BY <1>1, <1>9, UnwindEffect, Zenon
  <2>2. CASE i = c2s.id
    <3>1. wire[i] = NoEntry /\ ~Taken(i)
      BY <1>3, <2>1, <2>2, Zenon DEF OnePlace, Gated
    <3>2. wire[i].phase # "live" /\ wire[i].phase # "cancelled"
      BY <3>1 DEF NoEntry
    <3>. QED BY <2>1, <3>1, <3>2, Zenon DEF Gated, Taken
  <2>3. CASE i # c2s.id
    <3>1. state'.calls[i] = state.calls[i]
      BY <1>1, <2>1, <2>3, Zenon
    <3>. QED BY <1>3, <2>1, <3>1, Zenon DEF Gated, Taken, NoVerdictDue
  <2>. QED BY <2>2, <2>3, Zenon
<1>10. CASE S2cApply
  <2>1. /\ s2c # IdleS2c /\ s2c' = IdleS2c /\ wire' = wire /\ c2s' = c2s
        /\ s2c.id \in Ids /\ s2c.tool \in Tools /\ s2c.paths \in PathSets
    BY <1>1, <1>10, ApplyEffect, Zenon
  <2>2. state'.calls = [state.calls EXCEPT ![s2c.id] = NoTool]
    <3>1. CASE \E seeded \in Seeded(state, s2c.id, s2c.paths) :
                 state' = Complete(seeded, s2c.id, TRUE)
      <4>1. PICK seeded \in Seeded(state, s2c.id, s2c.paths) :
             state' = Complete(seeded, s2c.id, TRUE)
        BY <3>1, Zenon
      <4>2. SucceedsTo(state, s2c.id, s2c.paths, state')
        BY <1>1, <2>1, <4>1, SucceededFields, Zenon
      <4>. QED BY <4>2, Zenon DEF SucceedsTo
    <3>2. CASE state' = Unwound(state, s2c.id)
      BY <1>1, <2>1, <3>2, UnwoundFields, Zenon
    <3>3. CASE state' = ReleaseUnverified(TakePendingList(state, s2c.id), s2c.id)
      BY <1>1, <2>1, <3>3, DroppedFields, Zenon
    <3>. QED BY <1>1, <1>10, <3>1, <3>2, <3>3, ApplyHistory, Zenon
  <2>3. \/ hist'.unresolved = hist.unresolved \ {<<s2c.id, s2c.tool>>}
        \/ hist'.unresolved = hist.unresolved \cup {<<s2c.id, s2c.tool>>}
    BY <1>1, <1>10, ApplyHistory, Zenon
  <2>4. CASE i = s2c.id
    <3>1. wire[i] = NoEntry /\ ~Gated(i)
      BY <1>3, <2>1, <2>4, Zenon DEF OnePlace, Taken
    <3>2. wire[i].phase # "live" /\ wire[i].phase # "cancelled"
      BY <3>1 DEF NoEntry
    <3>. QED BY <2>1, <3>1, <3>2, Zenon DEF Gated, Taken
  <2>5. CASE i # s2c.id
    <3>1. state'.calls[i] = state.calls[i]
      BY <1>1, <2>1, <2>2, <2>5, Zenon
    <3>2. \A t : <<i, t>> \in hist'.unresolved <=> <<i, t>> \in hist.unresolved
      BY <2>3, <2>5
    <3>. QED BY <1>3, <2>1, <3>1, <3>2, Zenon DEF Gated, Taken, NoVerdictDue
  <2>. QED BY <2>4, <2>5, Zenon
<1>11. CASE UNCHANGED vars
  BY <1>3, <1>11, Zenon DEF vars, Gated, Taken, NoVerdictDue
<1>. QED BY <1>5, <1>6, <1>7, <1>8, <1>9, <1>10, <1>11, Zenon DEF Next

-----------------------------------------------------------------------------
(* The tombstones and the marker.                                          *)

LEMMA EffectOfOne ==
  ASSUME NEW t \in Tools
  PROVE  EffectsOf({t}) = {Effect[t]} \ {"none"}
<1>1. {t} \ {NoTool} = {t}
  BY PolicyTyped, Zenon
<1>. QED BY <1>1, Zenon DEF EffectsOf

(* What is remembered stays remembered while the latch and the overflow    *)
(* only grow.                                                              *)
LEMMA MarkerKept ==
  ASSUME MarkerIsLastSuccess, state'.last = state.last, hist'.last = hist.last,
         state.untrusted => state'.untrusted, state.overflow \subseteq state'.overflow
  PROVE  MarkerIsLastSuccess'
  BY Zenon DEF MarkerIsLastSuccess, EffectsOf

(* The release of a call without a verdict, by a cancel or a refused       *)
(* answer.                                                                 *)
LEMMA ReleaseTomb ==
  ASSUME TypeOK, TombInv, NEW id \in Ids, NEW tool \in Tools,
         \/ state.calls[id] = tool /\ NoVerdictDue(id)
         \/ state.calls[id] = NoTool /\ <<id, tool>> \in hist.unresolved,
         state' = ReleaseUnverified(TakePendingList(state, id), id),
         hist'.last = hist.last,
         hist'.unresolved = hist.unresolved \cup {<<id, tool>>}
  PROVE  TombInv'
<1>1. /\ state \in States /\ state.unverified \in [Ids -> NamedTools]
      /\ hist.unresolved \subseteq Ids \X Tools
  BY Zenon DEF TypeOK, States
<1>2. /\ state'.last = state.last
      /\ \/ /\ state.calls[id] = NoTool /\ state'.unverified = state.unverified
            /\ state'.overflow = state.overflow /\ state'.untrusted = state.untrusted
         \/ /\ state.calls[id] # NoTool
            /\ state'.unverified = [state.unverified EXCEPT ![id] = state.calls[id]]
            /\ state'.overflow = state.overflow /\ state'.untrusted = state.untrusted
         \/ /\ state.calls[id] # NoTool /\ state'.unverified = state.unverified
            /\ state'.untrusted = TRUE
            /\ state'.overflow = state.overflow \cup ({Effect[state.calls[id]]} \ {"none"})
  BY <1>1, DroppedFields, Zenon
<1>3. state.untrusted => state'.untrusted
  BY <1>2, Zenon
<1>4. state.overflow \subseteq state'.overflow
  BY <1>2, Zenon
<1>5. MarkerIsLastSuccess'
  BY <1>2, <1>3, <1>4, MarkerKept, Zenon DEF TombInv
<1>6. \A t : Remembered(t) => Remembered(t)'
  BY <1>3, <1>4, Zenon DEF Remembered, EffectsOf
<1>7. CASE state.calls[id] = NoTool /\ <<id, tool>> \in hist.unresolved
  <2>1. hist'.unresolved = hist.unresolved
    BY <1>7, Zenon
  <2>2. state'.unverified = state.unverified
    BY <1>2, <1>7, Zenon
  <2>. QED BY <1>5, <1>6, <2>1, <2>2, Zenon DEF TombInv
<1>8. CASE state.calls[id] = tool /\ NoVerdictDue(id)
  <2>1. \A i \in Ids, t \in Tools : <<i, t>> \in hist'.unresolved <=>
                                      <<i, t>> \in hist.unresolved \/ (i = id /\ t = tool)
    BY SMT, Zenon
  <2>2. \A i \in Ids : i # id => state'.unverified[i] = state.unverified[i]
    BY <1>1, <1>2, Zenon
  <2>3. state'.unverified[id] = tool \/ Remembered(tool)'
    <3>1. tool # NoTool
      BY PolicyTyped, Zenon
    <3>2. CASE state'.unverified = [state.unverified EXCEPT ![id] = state.calls[id]]
      BY <1>1, <1>8, <3>2, Zenon
    <3>3. CASE /\ state'.untrusted = TRUE
               /\ state'.overflow = state.overflow \cup ({Effect[state.calls[id]]} \ {"none"})
      BY <1>8, <3>3, EffectOfOne, Zenon DEF Remembered
    <3>. QED BY <1>2, <1>8, <3>1, <3>2, <3>3, Zenon
  <2>4. \A i \in Ids, t, u \in Tools :
          <<i, t>> \in hist'.unresolved /\ <<i, u>> \in hist'.unresolved => t = u
    BY <1>8, <2>1, Zenon DEF TombInv, NoVerdictDue
  <2>5. \A i \in Ids, t \in Tools :
          <<i, t>> \in hist'.unresolved => state'.unverified[i] = t \/ Remembered(t)'
    <3>1. ASSUME NEW i \in Ids, NEW t \in Tools, <<i, t>> \in hist'.unresolved
          PROVE  state'.unverified[i] = t \/ Remembered(t)'
      <4>1. CASE i = id
        BY <1>8, <2>1, <2>3, <3>1, <4>1, Zenon DEF NoVerdictDue
      <4>2. CASE i # id
        BY <1>6, <2>1, <2>2, <3>1, <4>2, Zenon DEF TombInv
      <4>. QED BY <4>1, <4>2, Zenon
    <3>. QED BY <3>1, Zenon
  <2>. QED BY <1>5, <2>4, <2>5, Zenon DEF TombInv
<1>. QED BY <1>7, <1>8, Zenon

(* A step that leaves the tombstones and the history of the calls alone.   *)
LEMMA TombKept ==
  ASSUME TombInv, state'.unverified = state.unverified, state'.last = state.last,
         state'.untrusted = state.untrusted, state'.overflow = state.overflow,
         hist'.unresolved = hist.unresolved, hist'.last = hist.last
  PROVE  TombInv'
<1>1. MarkerIsLastSuccess'
  BY MarkerKept, Zenon DEF TombInv
<1>. QED BY <1>1, Zenon DEF TombInv, Remembered

LEMMA NextTomb ==
  ASSUME Reuse = "answered", OwnedInv, CallsInv, TombInv, [Next]_vars
  PROVE  TombInv'
<1>1. /\ TypeOK /\ state \in States /\ state.unverified \in [Ids -> NamedTools]
      /\ hist \in Histories
  BY Zenon DEF OwnedInv, TypeOK, States, Histories
<1>2. NoTool \notin Tools
  BY PolicyTyped, Zenon
<1>3. ASSUME NEW id \in Ids, C2sCall(id) PROVE TombInv'
  <2>1. /\ state'.last = state.last /\ hist'.last = hist.last
        /\ state'.overflow = state.overflow /\ state'.untrusted = state.untrusted
        /\ \A i \in Ids : \A t : <<i, t>> \in hist'.unresolved <=>
                                  <<i, t>> \in hist.unresolved /\ i # id
    BY <1>1, <1>3, CallEffect, CallHistory, Zenon
  <2>2. \/ state'.unverified = state.unverified
        \/ state'.unverified = [state.unverified EXCEPT ![id] = NoTool]
    BY <1>1, <1>3, CallEffect, Zenon
  <2>3. \A i \in Ids : i # id => state'.unverified[i] = state.unverified[i]
    BY <1>1, <2>2, Zenon
  <2>4. \A t : Remembered(t)' <=> Remembered(t)
    BY <2>1, Zenon DEF Remembered
  <2>5. MarkerIsLastSuccess'
    BY <2>1, MarkerKept, Zenon DEF TombInv
  <2>. QED BY <2>1, <2>3, <2>4, <2>5, Zenon DEF TombInv
<1>4. ASSUME NEW id \in Ids, C2sCancel(id) PROVE TombInv'
  <2>1. /\ wire[id] # NoEntry /\ wire[id].tool \in Tools
        /\ hist' = [hist EXCEPT !.unresolved = @ \cup {<<id, wire[id].tool>>}]
        /\ state' = ReleaseUnverified(TakePendingList(state, id), id)
    BY <1>4, CancelEffect, Zenon
  <2>2. /\ hist'.last = hist.last
        /\ hist'.unresolved = hist.unresolved \cup {<<id, wire[id].tool>>}
    BY <1>1, <2>1, Zenon DEF Histories
  <2>3. wire[id].phase \in {"live", "cancelled"}
    BY <2>1, Zenon DEF OwnedInv, WireTyped
  <2>4. \/ state.calls[id] = wire[id].tool /\ NoVerdictDue(id)
        \/ state.calls[id] = NoTool /\ <<id, wire[id].tool>> \in hist.unresolved
    BY <2>3, Zenon DEF CallsInv
  <2>. QED BY <1>1, <2>1, <2>2, <2>4, ReleaseTomb, Zenon
<1>5. ASSUME NEW id \in Ids, S2cAnswer(id) PROVE TombInv'
  <2>1. state' = state /\ hist' = hist
    BY <1>5, Zenon DEF S2cAnswer
  <2>. QED BY <2>1, TombKept, Zenon
<1>6. CASE C2sWrite
  <2>1. state' = state /\ hist' = [hist EXCEPT !.used = @ \cup c2s.path]
    BY <1>6, Zenon DEF C2sWrite
  <2>2. hist'.unresolved = hist.unresolved /\ hist'.last = hist.last
    BY <1>1, <2>1, Zenon DEF Histories
  <2>. QED BY <2>1, <2>2, TombKept, Zenon
<1>7. CASE C2sUnwind
  <2>1. c2s # IdleC2s /\ c2s.id \in Ids
    BY <1>1, <1>7, UnwindEffect, Zenon
  <2>2. c2s.tool \in Tools
    <3>1. c2s \in Gateds
      BY <1>1, <2>1, Zenon DEF TypeOK, Gateds
    <3>. QED BY <3>1, Zenon DEF Gateds
  <2>3. state.calls[c2s.id] # NoTool
    BY <1>2, <2>1, <2>2, Zenon DEF CallsInv, Gated
  <2>4. /\ hist' = hist /\ state'.last = state.last
        /\ state'.unverified = state.unverified
        /\ state'.overflow = state.overflow /\ state'.untrusted = state.untrusted
    BY <1>1, <1>7, <2>3, UnwindEffect, Zenon
  <2>. QED BY <2>4, TombKept, Zenon
<1>8. CASE S2cApply
  <2>. DEFINE id == s2c.id
              tool == s2c.tool
  <2>1. s2c # IdleS2c /\ id \in Ids /\ tool \in Tools /\ s2c.paths \in PathSets
    BY <1>1, <1>8, ApplyEffect, Zenon
  <2>2. \/ state.calls[id] = tool /\ NoVerdictDue(id)
        \/ state.calls[id] = NoTool /\ <<id, tool>> \in hist.unresolved
    BY <2>1, Zenon DEF CallsInv, Taken
  <2>. HIDE DEF id, tool
  <2>3. CASE /\ state' = ReleaseUnverified(TakePendingList(state, id), id)
             /\ hist'.last = hist.last
             /\ hist'.unresolved = hist.unresolved \cup {<<id, tool>>}
    BY <1>1, <2>1, <2>2, <2>3, ReleaseTomb, Zenon
  <2>4. ASSUME hist'.unresolved = hist.unresolved \ {<<id, tool>>},
               state'.overflow = state.overflow, state'.untrusted = state.untrusted,
               state'.unverified = IF state.calls[id] # NoTool THEN state.unverified
                                   ELSE [state.unverified EXCEPT ![id] = NoTool],
               \/ state'.last = state.last /\ hist'.last = hist.last
               \/ /\ state'.last = IF state.calls[id] # NoTool THEN state.calls[id]
                                   ELSE IF state.unverified[id] # NoTool
                                   THEN state.unverified[id] ELSE state.last
                  /\ hist'.last = tool
        PROVE  TombInv'
    <3>1. \A t : Remembered(t)' <=> Remembered(t)
      BY <2>4, Zenon DEF Remembered
    <3>2. \A i \in Ids : i # id => state'.unverified[i] = state.unverified[i]
      BY <1>1, <2>1, <2>4, Zenon
    <3>3. \A t \in Tools : <<id, t>> \notin hist'.unresolved
      <4>1. \A t \in Tools : <<id, t>> \in hist.unresolved => t = tool
        BY <2>1, <2>2, Zenon DEF TombInv, NoVerdictDue
      <4>. QED BY <2>4, <4>1, Zenon
    <3>4. \A i \in Ids : \A t : i # id => (<<i, t>> \in hist'.unresolved <=> <<i, t>> \in hist.unresolved)
      BY <2>4, Zenon
    <3>5. MarkerIsLastSuccess'
      <4>1. CASE state'.last = state.last /\ hist'.last = hist.last
        BY <2>4, <4>1, MarkerKept, Zenon DEF TombInv
      <4>2. CASE /\ state'.last = IF state.calls[id] # NoTool THEN state.calls[id]
                                  ELSE IF state.unverified[id] # NoTool
                                  THEN state.unverified[id] ELSE state.last
                 /\ hist'.last = tool
        <5>1. CASE state.calls[id] # NoTool
          BY <2>2, <4>2, <5>1, Zenon DEF MarkerIsLastSuccess
        <5>2. CASE state.calls[id] = NoTool /\ state.unverified[id] = tool
          BY <1>2, <2>1, <4>2, <5>2, Zenon DEF MarkerIsLastSuccess
        <5>3. CASE state.calls[id] = NoTool /\ Remembered(tool)
          BY <2>4, <4>2, <5>3, Zenon DEF MarkerIsLastSuccess, Remembered
        <5>4. \A i \in Ids, t \in Tools :
                <<i, t>> \in hist.unresolved => state.unverified[i] = t \/ Remembered(t)
          BY Zenon DEF TombInv
        <5>5. CASE state.calls[id] = NoTool
          <6>1. <<id, tool>> \in hist.unresolved
            BY <1>2, <2>1, <2>2, <5>5, Zenon
          <6>. QED BY <2>1, <5>2, <5>3, <5>4, <5>5, <6>1, Zenon
        <5>. QED BY <5>1, <5>5, Zenon
      <4>. QED BY <2>4, <4>1, <4>2, Zenon
    <3>6. \A i \in Ids, t, u \in Tools :
            <<i, t>> \in hist'.unresolved /\ <<i, u>> \in hist'.unresolved => t = u
      BY <2>4, Zenon DEF TombInv
    <3>7. \A i \in Ids, t \in Tools :
            <<i, t>> \in hist'.unresolved => state'.unverified[i] = t \/ Remembered(t)'
      BY <3>1, <3>2, <3>3, <3>4, Zenon DEF TombInv
    <3>. QED BY <3>5, <3>6, <3>7, Zenon DEF TombInv
  <2>5. CASE /\ state' = Unwound(state, id)
             /\ hist'.last = hist.last
             /\ hist'.unresolved = hist.unresolved \ {<<id, tool>>}
    <3>1. /\ state'.overflow = state.overflow /\ state'.untrusted = state.untrusted
          /\ state'.unverified = IF state.calls[id] # NoTool THEN state.unverified
                                 ELSE [state.unverified EXCEPT ![id] = NoTool]
          /\ state'.last = state.last
      BY <1>1, <2>1, <2>5, UnwoundFields, Zenon
    <3>. QED BY <2>4, <2>5, <3>1, Zenon
  <2>6. CASE /\ \E seeded \in Seeded(state, id, s2c.paths) : state' = Complete(seeded, id, TRUE)
             /\ hist'.last = tool
             /\ hist'.unresolved = hist.unresolved \ {<<id, tool>>}
    <3>1. PICK seeded \in Seeded(state, id, s2c.paths) : state' = Complete(seeded, id, TRUE)
      BY <2>6, Zenon
    <3>2. SucceedsTo(state, id, s2c.paths, state')
      BY <1>1, <2>1, <3>1, SucceededFields, Zenon
    <3>. QED BY <2>4, <2>6, <3>2, Zenon DEF SucceedsTo
  <2>. QED BY <1>1, <1>8, <2>3, <2>5, <2>6, ApplyHistory, Zenon DEF id, tool
<1>9. CASE UNCHANGED vars
  <2>1. state' = state /\ hist' = hist
    BY <1>9, Zenon DEF vars
  <2>. QED BY <2>1, TombKept, Zenon
<1>. QED BY <1>3, <1>4, <1>5, <1>6, <1>7, <1>8, <1>9, Zenon DEF Next

(* What the tombstones and the overflow remember includes every call that  *)
(* may have run.                                                           *)
LEMMA TombSound == TypeOK /\ TombInv => TrajectorySound
<1>. SUFFICES ASSUME TypeOK, TombInv, NEW next \in Tools, NEW has_url \in BOOLEAN,
                     Predecessors \subseteq {NoTool, next} => SneakUrl(next, has_url),
                     RuleDenies(EffectsOf(Predecessors), next, has_url)
              PROVE  TrajectoryDenies(state, next, has_url)
  BY Zenon DEF TrajectorySound
<1>. DEFINE known == EffectsOf({state.last} \cup Tombstoned(state)) \cup state.overflow
            same == /\ state.last \in {NoTool, next}
                    /\ ~state.untrusted
                    /\ Tombstoned(state) \subseteq {next}
<1>1. hist.unresolved \subseteq Ids \X Tools /\ hist.last \in NamedTools
  BY Zenon DEF TypeOK
<1>2. ASSUME NEW t \in Predecessors, t # NoTool
      PROVE  \/ t \in {state.last} \cup Tombstoned(state)
             \/ Remembered(t)
  <2>1. CASE t = hist.last
    BY <2>1, Zenon DEF TombInv, MarkerIsLastSuccess, Remembered
  <2>2. CASE t # hist.last
    <3>1. PICK u \in hist.unresolved : t = u[2]
      BY <2>2, Zenon DEF Predecessors
    <3>2. PICK i \in Ids, v \in Tools : u = <<i, v>>
      BY <1>1, <3>1
    <3>3. v = t
      BY <3>1, <3>2, Zenon
    <3>4. state.unverified[i] = t \/ Remembered(t)
      BY <3>1, <3>2, <3>3, Zenon DEF TombInv
    <3>5. state.unverified[i] = t => t \in Tombstoned(state)
      BY <1>2, Zenon DEF Tombstoned, Held
    <3>. QED BY <3>4, <3>5, Zenon
  <2>. QED BY <2>1, <2>2, Zenon
<1>3. EffectsOf(Predecessors) \subseteq known
  <2>1. ASSUME NEW e \in EffectsOf(Predecessors) PROVE e \in known
    <3>1. PICK t \in Predecessors \ {NoTool} : e = Effect[t] /\ e # "none"
      BY Zenon DEF EffectsOf
    <3>2. CASE t \in {state.last} \cup Tombstoned(state)
      BY <3>1, <3>2, Zenon DEF EffectsOf
    <3>3. CASE Remembered(t)
      BY <3>1, <3>3, Zenon DEF EffectsOf, Remembered
    <3>. QED BY <1>2, <3>1, <3>2, <3>3, Zenon
  <2>. QED BY <2>1, Zenon
<1>4. known # {} /\ RuleDenies(known, next, has_url)
  BY <1>3, Zenon DEF RuleDenies
<1>5. ASSUME same PROVE SneakUrl(next, has_url)
  <2>1. ASSUME NEW t \in Predecessors PROVE t \in {NoTool, next}
    <3>1. ~Remembered(t)
      BY <1>5, Zenon DEF Remembered
    <3>. QED BY <1>2, <1>5, <3>1, Zenon
  <2>. QED BY <2>1, Zenon
<1>. QED BY <1>4, <1>5, Zenon DEF TrajectoryDenies

LEMMA AnsweredInv ==
  ASSUME Reuse = "answered"
  PROVE  Spec => [](OwnedInv /\ CallsInv /\ TombInv)
<1>1. Init => CallsInv /\ TombInv
  <2>1. Init => CallsInv
    BY DEF Init, CallsInv, OnePlace, Gated, Taken, NoEntry
  <2>2. Init => TombInv
    BY DEF Init, TombInv, MarkerIsLastSuccess
  <2>. QED BY <2>1, <2>2, Zenon
<1>2. OwnedInv /\ CallsInv /\ TombInv /\ [Next]_vars => (CallsInv /\ TombInv)'
  BY NextCalls, NextTomb, Zenon
<1>. QED BY <1>1, <1>2, InitOwned, NextOwned, PTL DEF Spec

(* MarkerIsLastSuccess: the marker is the last call answered with success, *)
(* or that call's side effect is in the overflow and the exemption is off. *)
THEOREM MarkerSettled == Reuse = "answered" /\ Spec => []MarkerIsLastSuccess
<1>. SUFFICES ASSUME Reuse = "answered" PROVE Spec => []MarkerIsLastSuccess
  OBVIOUS
<1>1. TombInv => MarkerIsLastSuccess
  BY Zenon DEF TombInv
<1>2. Spec => [](OwnedInv /\ CallsInv /\ TombInv)
  BY AnsweredInv, Zenon
<1>. QED BY <1>1, <1>2, PTL

(* TrajectorySound: whatever was cancelled, refused, answered late or      *)
(* dropped from the tombstones at their cap, the trajectory check denies   *)
(* what the rules deny after the calls that may have run and whose id was  *)
(* not used again.                                                         *)
THEOREM TrajectoryChecked == Reuse = "answered" /\ Spec => []TrajectorySound
<1>. SUFFICES ASSUME Reuse = "answered" PROVE Spec => []TrajectorySound
  OBVIOUS
<1>1. OwnedInv /\ TombInv => TrajectorySound
  BY TombSound, Zenon DEF OwnedInv
<1>2. Spec => [](OwnedInv /\ CallsInv /\ TombInv)
  BY AnsweredInv, Zenon
<1>. QED BY <1>1, <1>2, PTL
=============================================================================
