------------------------ MODULE ToolsListGateProofs ------------------------
(***************************************************************************)
(* Proofs about ToolsListGate for every value of its constants.            *)
(***************************************************************************)
EXTENDS ToolsListGate, TLAPS

Ids == AllIds \cup {None}

-----------------------------------------------------------------------------
(* Lemmas about the helpers *)

\* Discarding the collected pages leaves a list state.
LEMMA DiscardType ==
    ASSUME NEW s \in ListState
    PROVE  DiscardPages(s) \in ListState
<1>1. 0 \in 0 .. MaxPages
  BY BoundsAssumption
<1>2. {} \in SUBSET Tools
  OBVIOUS
<1> QED
  BY <1>1, <1>2, Zenon DEF ListState, DiscardPages

\* So does the start of a revalidation under a fresh internal id.
LEMMA RevalidatingType ==
    ASSUME NEW s \in ListState, NEW k \in InternalIds
    PROVE  Revalidating(s, k) \in ListState
<1>1. DiscardPages(s) \in ListState
  BY DiscardType, Zenon
<1> QED
  BY <1>1, Zenon DEF ListState, Revalidating

\* Counting a response keeps the history well-typed.
LEMMA AnswerType ==
    ASSUME NEW h \in History, NEW x \in Ids
    PROVE  Answer(h, x) \in History
BY DEF Answer, History, Ids

\* The client-facing id is an id or none.
LEMMA ClientFacingType ==
    ASSUME NEW bound \in Ids, NEW id \in Ids, NEW internal \in BOOLEAN
    PROVE  ClientFacing(bound, id, internal) \in Ids
BY Zenon DEF ClientFacing, Ids

\* What the server sends has an id, a kind and tools.
LEMMA ServerFrameType ==
    ASSUME NEW f \in ServerFrames
    PROVE  /\ f.id \in AllIds
           /\ f.kind \in FrameKinds
           /\ f.tools \in SUBSET Tools
BY Zenon DEF ServerFrames, FrameKinds

\* The fields of the record variables have the types of the source's fields.
LEMMA FieldTypes ==
    ASSUME TypeOK
    PROVE  /\ st.client \in Ids
           /\ st.waiting \in InternalIds \cup {None}
           /\ st.tools \in SUBSET Tools
           /\ st.pages \in 0 .. MaxPages
           /\ st.held \in BOOLEAN /\ st.queued \in BOOLEAN
           /\ st.revalidating \in BOOLEAN
           /\ cur.id \in Ids /\ cur.emit \in Ids
           /\ cur.tools \in SUBSET Tools
           /\ cur.internal \in BOOLEAN /\ cur.revalidate \in BOOLEAN
           /\ held \in Ids
BY Zenon DEF TypeOK, ListState, Locals, Ids, AllIds

ControlTypes ==
    /\ failure \in {"none", "unanswered", "answered"}
    /\ s2c \in S2cPc
    /\ session \in {"running", "aborting", "closed"}

\* Ending the session keeps the control variables well-typed.
LEMMA AbortType ==
    ASSUME TypeOK, NEW a \in {"none", "unanswered", "answered"}, Abort(a)
    PROVE  ControlTypes'
BY Zenon DEF TypeOK, Abort, S2cPc, ControlTypes

\* So does failing the listing with a response to the client.
LEMMA FailAndEmitType ==
    ASSUME TypeOK, NEW r \in Ids, FailAndEmit(r)
    PROVE  ControlTypes' /\ hist' \in History /\ held' \in ClientIds \cup {None}
<1> DEFINE emit == IF r # None THEN r ELSE held
<1>1. emit \in Ids
  BY FieldTypes, Zenon
<1>2. hist' = Answer(hist, emit)
  BY Zenon DEF FailAndEmit
<1>3. hist' \in History
  BY <1>1, <1>2, AnswerType, Zenon DEF TypeOK
<1>4. ControlTypes'
  BY Zenon DEF FailAndEmit, TypeOK, Abort, S2cPc, ControlTypes
<1> QED
  BY <1>3, <1>4, Zenon DEF FailAndEmit, TakeHeld, TypeOK

WireType == wire \in [AllIds -> {"none", "registered", "live", "cancelled"}]

\* Sending an internal request, or failing to, keeps the types.
LEMMA SendInternalType ==
    ASSUME TypeOK, NEW k \in InternalIds,
           SendInternal(k) \/ (Abort("unanswered") /\ UNCHANGED wire)
    PROVE  ControlTypes' /\ WireType'
<1>1. CASE SendInternal(k)
  BY <1>1, Zenon DEF TypeOK, SendInternal, S2cPc, ControlTypes, WireType
<1>2. CASE Abort("unanswered") /\ UNCHANGED wire
  BY <1>2, AbortType, Zenon DEF TypeOK, WireType
<1> QED
  BY <1>1, <1>2, Zenon

\* begin_revalidation keeps the types.
LEMMA BeginRevalidationType ==
    ASSUME TypeOK, NEW s \in ListState, BeginRevalidation(s)
    PROVE  st' \in ListState /\ ControlTypes' /\ WireType'
<1>1. PICK k \in InternalIds :
        /\ st' = Revalidating(s, k)
        /\ SendInternal(k) \/ (Abort("unanswered") /\ UNCHANGED wire)
  BY Zenon DEF BeginRevalidation
<1>2. st' \in ListState
  BY <1>1, RevalidatingType, Zenon
<1> QED
  BY <1>1, <1>2, SendInternalType, Zenon

\* Discarding pages keeps what a listing is bound to and what it owes.
LEMMA DiscardKeeps ==
    ASSUME NEW s \in ListState
    PROVE  /\ DiscardPages(s).client = s.client
           /\ DiscardPages(s).held = s.held
           /\ DiscardPages(s).queued = s.queued
           /\ DiscardPages(s).revalidating = s.revalidating
BY Zenon DEF ListState, DiscardPages

\* begin_revalidation keeps the binding, the held notification and the queue.
LEMMA BeginRevalidationKeeps ==
    ASSUME NEW s \in ListState, BeginRevalidation(s)
    PROVE  /\ s2c' \in {"read", "failed"}
           /\ st'.client = s.client
           /\ st'.held = s.held
           /\ st'.queued = s.queued
<1>1. PICK k \in InternalIds :
        /\ st' = Revalidating(s, k)
        /\ SendInternal(k) \/ (Abort("unanswered") /\ UNCHANGED wire)
  BY Zenon DEF BeginRevalidation
<1>2. DiscardPages(s) \in ListState
  BY DiscardType, Zenon
<1>3. /\ st'.client = DiscardPages(s).client
      /\ st'.held = DiscardPages(s).held
      /\ st'.queued = DiscardPages(s).queued
  BY <1>1, <1>2, Zenon DEF Revalidating, ListState
<1> QED
  BY <1>1, <1>3, DiscardKeeps, Zenon DEF SendInternal, Abort

-----------------------------------------------------------------------------
(* The type invariant *)

\* The initial state is well-typed.
LEMMA InitTypes == Init => TypeOK
<1> SUFFICES ASSUME Init PROVE TypeOK
  OBVIOUS
<1>1. st \in ListState
  BY BoundsAssumption DEF Init, ListState
<1>2. cur \in Locals
  BY Zenon DEF Init, Locals, FrameKinds
<1>3. hist \in History
  BY BoundsAssumption DEF Init, History
<1>4. /\ verified \in [generation : Nat, names : SUBSET Tools]
      /\ call \in [tool : Tools \cup {None}, gen : Nat]
      /\ wire \in [AllIds -> {"none", "registered", "live", "cancelled"}]
  BY Zenon DEF Init
<1> QED
  BY <1>1, <1>2, <1>3, <1>4, Zenon DEF Init, TypeOK, S2cPc, C2sPc, C2sListPc

\* Every step of the two loops and of run_proxy keeps the type invariant.
LEMMA StepTypes == TypeOK /\ [Next]_vars => TypeOK'
<1> SUFFICES ASSUME TypeOK, [Next]_vars PROVE TypeOK'
  OBVIOUS
<1>1. CASE S2cProbe
  <2>1. st' \in ListState /\ ControlTypes' /\ WireType'
    BY <1>1, BeginRevalidationType, Zenon
    DEF TypeOK, ControlTypes, S2cPc, WireType, S2cProbe, NoRevalidation
  <2> QED
    BY <1>1, <2>1, Zenon
    DEF S2cProbe, TypeOK, c2sVars, RaiseListGate, S2cPc, ControlTypes,
        WireType
<1>2. CASE S2cKick
  <2>1. DiscardPages(st) \in ListState
    BY <1>2, DiscardType, Zenon
    DEF TypeOK
  <2>2. st' \in ListState
    BY <1>2, <2>1
    DEF TypeOK, ListState, S2cKick
  <2>3. WireType'
    BY <1>2, Zenon
    DEF TypeOK, WireType, S2cKick
  <2> QED
    BY <1>2, <2>1, <2>2, <2>3, ZenonT(30)
    DEF S2cKick, TypeOK, c2sVars, S2cPc, WireType
<1>3. CASE S2cResume
  <2>1. [st EXCEPT !.queued = FALSE] \in ListState
    BY <1>3, Zenon
    DEF TypeOK, ListState
  <2>2. st' \in ListState /\ ControlTypes' /\ WireType'
    BY <1>3, <2>1, BeginRevalidationType, Zenon
    DEF TypeOK, ControlTypes, S2cPc, WireType, S2cResume, NoRevalidation
  <2>3. [hist EXCEPT !.stale = FALSE] \in History
    BY <1>3, Zenon
    DEF TypeOK, History
  <2>4. hist' \in History
    BY <1>3, <2>3, Zenon
    DEF TypeOK, S2cResume
  <2> QED
    BY <1>3, <2>1, <2>2, <2>3, <2>4, ZenonT(30)
    DEF S2cResume, TypeOK, c2sVars, S2cPc, ControlTypes, WireType
<1>4. CASE S2cResumeDrain
  <2>1. hist' \in History
    BY <1>4, FieldTypes, AnswerType, Zenon
    DEF TypeOK, S2cResumeDrain
  <2> QED
    BY <1>4, <2>1
    DEF S2cResumeDrain, TypeOK, c2sVars, S2cPc
<1>5. CASE S2cRouteDrop
  BY <1>5
  DEF S2cRouteDrop, TypeOK, S2cUnchanged, c2sVars, S2cPc
<1>6. CASE S2cRouteInvalid
  <2>1. ClientFacing(st.client, cur.id, cur.internal) \in Ids
    BY <1>6, FieldTypes, ClientFacingType, Zenon
  <2>2. ControlTypes' /\ hist' \in History /\ held' \in ClientIds \cup {None}
    BY <1>6, <2>1, FailAndEmitType, Zenon
    DEF S2cRouteInvalid
  <2> QED
    BY <1>6, <2>1, <2>2, Zenon
    DEF S2cRouteInvalid, TypeOK, S2cUnchanged, c2sVars, PageBudgetLeft,
        ControlTypes
<1>7. CASE S2cRouteError
  <2>1. DiscardPages(st) \in ListState
    BY <1>7, DiscardType, Zenon
    DEF TypeOK
  <2>2. st' \in ListState
    <3>1. CASE st' = DiscardPages(st)
      BY <2>1, <3>1, Zenon
    <3>2. CASE st' = [DiscardPages(st) EXCEPT
                        !.revalidating = @ /\ ~InitialInternal]
      <4>1. (DiscardPages(st).revalidating /\ ~InitialInternal) \in BOOLEAN
        OBVIOUS
      <4> QED
        BY <2>1, <3>2, <4>1, Zenon DEF ListState
    <3> QED
      BY <1>7, <3>1, <3>2, Zenon DEF S2cRouteError
  <2>3. ControlTypes'
    BY <1>7, AbortType, Zenon
    DEF TypeOK, ControlTypes, S2cPc, S2cRouteError
  <2>4. hist' \in History
    BY <1>7, FieldTypes
    DEF TypeOK, History, S2cRouteError
  <2> QED
    BY <1>7, <2>1, <2>2, <2>3, <2>4, ZenonT(30)
    DEF S2cRouteError, TypeOK, S2cUnchanged, c2sVars, DropTemplates, S2cPc,
        ControlTypes
<1>8. CASE S2cErrorDrain
  <2>1. ClientFacing(st.client, cur.id, cur.internal) \in Ids
    BY <1>8, FieldTypes, ClientFacingType, Zenon
  <2>2. Answer(hist, held) \in History
    BY <1>8, FieldTypes, AnswerType, Zenon
    DEF TypeOK
  <2>3. hist' \in History
    BY <1>8, <2>1, <2>2, AnswerType, Zenon
    DEF S2cErrorDrain
  <2>4. st' \in ListState
    BY <1>8, Zenon
    DEF TypeOK, ListState, S2cErrorDrain
  <2> QED
    BY <1>8, <2>1, <2>2, <2>3, <2>4
    DEF S2cErrorDrain, TypeOK, S2cUnchanged, c2sVars, S2cPc
<1>9. CASE S2cRoutePage
  <2>1. st.tools \cup cur.tools \in SUBSET Tools
    BY <1>9, FieldTypes, Zenon
  <2>2. st.pages + 1 \in 0 .. MaxPages
    BY <1>9, FieldTypes, BoundsAssumption
    DEF S2cRoutePage, PageBudgetLeft
  <2>3. (IF NeedsClientBinding THEN cur.id ELSE st.client) \in AllIds \cup {None}
    BY <1>9, FieldTypes, Zenon
    DEF Ids
  <2>4. st' \in ListState
    BY <1>9, <2>1, <2>2, <2>3, Zenon
    DEF TypeOK, ListState, S2cRoutePage
  <2> QED
    BY <1>9, <2>1, <2>2, <2>3, <2>4
    DEF S2cRoutePage, TypeOK, S2cUnchanged, c2sVars, S2cPc, PageBudgetLeft
<1>10. CASE S2cBind
  BY <1>10
  DEF S2cBind, TypeOK, S2cUnchanged, c2sVars, RaiseListGate, S2cPc
<1>11. CASE S2cNextPage
  <2>1. ControlTypes' /\ WireType'
    BY <1>11, SendInternalType, Zenon
    DEF S2cNextPage
  <2>2. st' \in ListState
    BY <1>11
    DEF TypeOK, ListState, S2cNextPage
  <2> QED
    BY <1>11, <2>1, <2>2, Zenon
    DEF S2cNextPage, TypeOK, S2cUnchanged, c2sVars, ControlTypes, WireType
<1>12. CASE S2cRepeatedCursor
  <2>1. ClientFacing(st.client, cur.id, cur.internal) \in Ids
    BY <1>12, FieldTypes, ClientFacingType, Zenon
  <2>2. ControlTypes' /\ hist' \in History /\ held' \in ClientIds \cup {None}
    BY <1>12, <2>1, FailAndEmitType, Zenon
    DEF S2cRepeatedCursor
  <2> QED
    BY <1>12, <2>1, <2>2, Zenon
    DEF S2cRepeatedCursor, TypeOK, S2cUnchanged, c2sVars, ControlTypes
<1>13. CASE S2cCompletePages
  <2>1. DiscardPages(st) \in ListState
    BY <1>13, DiscardType, Zenon
    DEF TypeOK
  <2>2. st' \in ListState
    BY <1>13, <2>1, Zenon
    DEF ListState, S2cCompletePages
  <2>3. cur' \in Locals
    BY <1>13, FieldTypes, Zenon
    DEF TypeOK, Locals, Ids, S2cCompletePages
  <2> QED
    BY <1>13, <2>1, <2>2, <2>3
    DEF S2cCompletePages, TypeOK, S2cUnchanged, c2sVars, S2cPc
<1>14. CASE S2cVerifyBlocked
  <2>1. ClientFacing(cur.emit, cur.id, cur.internal) \in Ids
    BY <1>14, FieldTypes, ClientFacingType, Zenon
  <2>2. ControlTypes' /\ hist' \in History /\ held' \in ClientIds \cup {None}
    BY <1>14, <2>1, FailAndEmitType, Zenon
    DEF S2cVerifyBlocked
  <2> QED
    BY <1>14, <2>1, <2>2, Zenon
    DEF S2cVerifyBlocked, TypeOK, S2cUnchanged, c2sVars, ControlTypes
<1>15. CASE S2cPublish
  <2>1. verified' \in [generation : Nat, names : SUBSET Tools]
    BY <1>15, FieldTypes
    DEF TypeOK, S2cPublish
  <2> QED
    BY <1>15, <2>1
    DEF S2cPublish, TypeOK, S2cUnchanged, c2sVars, S2cPc
<1>16. CASE S2cRelease
  <2>1. cur' \in Locals
    BY <1>16, FieldTypes, Zenon
    DEF TypeOK, Locals, S2cRelease, RevalidationQueued
  <2>2. st' \in ListState
    BY <1>16, Zenon
    DEF TypeOK, ListState, S2cRelease, RevalidationQueued
  <2> QED
    BY <1>16, <2>1, <2>2
    DEF S2cRelease, TypeOK, S2cUnchanged, c2sVars, S2cPc
<1>17. CASE S2cEmit
  <2>1. st' \in ListState /\ ControlTypes' /\ WireType'
    BY <1>17, BeginRevalidationType, Zenon
    DEF TypeOK, ControlTypes, S2cPc, WireType, S2cEmit, NoRevalidation
  <2>2. Answer(hist, cur.emit) \in History
    BY <1>17, FieldTypes, AnswerType, Zenon
    DEF TypeOK
  <2>3. [Answer(hist, cur.emit) EXCEPT !.stale = FALSE] \in History
    BY <1>17, <2>2, Zenon
    DEF History
  <2>4. hist' \in History
    BY <1>17, <2>2, <2>3, Zenon
    DEF S2cEmit
  <2> QED
    BY <1>17, <2>1, <2>2, <2>3, <2>4, Zenon
    DEF S2cEmit, TypeOK, S2cUnchanged, c2sVars, S2cPc, ControlTypes,
        WireType
<1>18. CASE S2cDrain
  <2>1. hist' \in History
    BY <1>18, FieldTypes, AnswerType, Zenon
    DEF TypeOK, S2cDrain
  <2>2. st' \in ListState
    BY <1>18, Zenon
    DEF TypeOK, ListState, S2cDrain
  <2> QED
    BY <1>18, <2>1, <2>2
    DEF S2cDrain, TypeOK, S2cUnchanged, c2sVars, S2cPc
<1>19. CASE S2cRejectedInternal
  <2>1. st' \in ListState
    BY <1>19, DiscardType, Zenon
    DEF TypeOK, S2cRejectedInternal
  <2>2. ControlTypes'
    BY <1>19, AbortType, Zenon
    DEF S2cRejectedInternal
  <2> QED
    BY <1>19, <2>1, <2>2, Zenon
    DEF S2cRejectedInternal, TypeOK, S2cUnchanged, c2sVars, RaiseListGate,
        ControlTypes
<1>20. CASE S2cRejected
  <2>1. st' \in ListState
    BY <1>20, DiscardType, Zenon
    DEF TypeOK, S2cRejected
  <2> QED
    BY <1>20, <2>1
    DEF S2cRejected, TypeOK, S2cUnchanged, c2sVars, DropTemplates, S2cPc
<1>21. CASE S2cRejectRelease
  <2>1. ClientFacing(st.client, cur.id, FALSE) \in Ids
    BY <1>21, FieldTypes, ClientFacingType, Zenon
  <2>2. hist' \in History
    BY <1>21, <2>1, AnswerType, Zenon
    DEF TypeOK, S2cRejectRelease
  <2>3. st' \in ListState
    BY <1>21, Zenon
    DEF TypeOK, ListState, S2cRejectRelease
  <2>4. ControlTypes'
    BY <1>21, AbortType, Zenon
    DEF TypeOK, ControlTypes, S2cPc, S2cRejectRelease
  <2> QED
    BY <1>21, <2>1, <2>2, <2>3, <2>4, Zenon
    DEF S2cRejectRelease, TypeOK, S2cUnchanged, c2sVars, RaiseListGate,
        S2cPc, ControlTypes
<1>22. CASE C2sArmLost
  BY <1>22
  DEF C2sArmLost, TypeOK, C2sUnchanged, s2cVars, C2sPc, C2sListPc, C2sAt
<1>23. CASE C2sHold
  BY <1>23, ZenonT(30)
  DEF C2sHold, TypeOK, C2sUnchanged, s2cVars, Kick, C2sPc, C2sListPc, C2sAt
<1>24. CASE C2sArmRetry
  BY <1>24, ZenonT(60), ZenonT(30)
  DEF C2sArmRetry, TypeOK, C2sUnchanged, s2cVars, C2sPc, C2sListPc, C2sAt
<1>25. CASE C2sArmRefuse
  <2>1. hist' \in History
    BY <1>25, AnswerType, Zenon
    DEF TypeOK, Ids, AllIds, C2sArmRefuse
  <2> QED
    BY <1>25, <2>1
    DEF C2sArmRefuse, TypeOK, C2sUnchanged, s2cVars, Kick, C2sPc, C2sListPc,
        C2sAt
<1>26. CASE C2sRegister
  <2>1. hist' \in History
    BY <1>26, AnswerType
    DEF TypeOK, Ids, AllIds, C2sRegister
  <2>2. WireType'
    BY <1>26, Zenon
    DEF TypeOK, WireType, C2sRegister
  <2> QED
    BY <1>26, <2>1, <2>2, ZenonT(60), ZenonT(30)
    DEF C2sRegister, TypeOK, C2sUnchanged, s2cVars, Kick, C2sPc, C2sListPc,
        C2sAt, WireType
<1>27. CASE C2sSend
  <2>1. WireType'
    BY <1>27, Zenon
    DEF TypeOK, WireType, C2sSend
  <2> QED
    BY <1>27, <2>1
    DEF C2sSend, TypeOK, C2sUnchanged, s2cVars, C2sPc, C2sListPc, C2sAt,
        WireType
<1>28. CASE C2sCancelRelease
  BY <1>28, Zenon
  DEF C2sCancelRelease, TypeOK, C2sUnchanged, s2cVars, Kick, DropTemplates,
      C2sPc, C2sListPc, C2sAt
<1>29. CASE C2sCallCheck
  BY <1>29
  DEF C2sCallCheck, TypeOK, C2sUnchanged, C2sCallUnchanged, s2cVars, C2sPc,
      C2sListPc, C2sAt
<1>30. CASE C2sCallRegister
  BY <1>30
  DEF C2sCallRegister, TypeOK, C2sUnchanged, C2sCallUnchanged, s2cVars,
      C2sPc, C2sListPc, C2sAt
<1>31. CASE C2sCallEpoch
  BY <1>31, ZenonT(60), ZenonT(30)
  DEF C2sCallEpoch, TypeOK, C2sUnchanged, C2sCallUnchanged, s2cVars, C2sPc,
      C2sListPc, C2sAt
<1>32. CASE C2sCallWritten
  BY <1>32, ZenonT(30)
  DEF C2sCallWritten, TypeOK, C2sUnchanged, C2sCallUnchanged, s2cVars,
      C2sPc, C2sListPc, C2sAt
<1>33. CASE S2cListChanged
  <2>1. [st EXCEPT !.held = TRUE] \in ListState
    BY <1>33, Zenon
    DEF TypeOK, ListState
  <2>2. [st EXCEPT !.held = TRUE, !.queued = TRUE] \in ListState
    BY <1>33, Zenon
    DEF TypeOK, ListState
  <2>3. st' \in ListState /\ ControlTypes' /\ WireType'
    BY <1>33, <2>1, <2>2, BeginRevalidationType
    DEF TypeOK, ControlTypes, S2cPc, WireType, S2cListChanged,
        NoRevalidation
  <2>4. InFlight(list_busy) \in BOOLEAN
    BY <1>33, Zenon
    DEF TypeOK, InFlight
  <2>5. hist.changes + 1 \in 0 .. MaxListChanged
    BY <1>33, BoundsAssumption
    DEF TypeOK, History, S2cListChanged
  <2>6. hist' \in History
    BY <1>33, <2>4, <2>5, Zenon
    DEF TypeOK, History, S2cListChanged
  <2> QED
    BY <1>33, <2>1, <2>2, <2>3, <2>4, <2>5, <2>6, Zenon
    DEF S2cListChanged, TypeOK, c2sVars, RaiseListGate, ControlTypes,
        WireType
<1>34. CASE S2cResponse
  <2>1. PICK f \in ServerFrames :
          /\ wire' = [wire EXCEPT ![f.id] = "none"]
          /\ \/ UNCHANGED s2cVars
             \/ /\ s2c' = IF f.kind = "rejected" THEN "rejected" ELSE "route"
                /\ cur' = [cur EXCEPT !.id = f.id, !.kind = f.kind,
                                      !.tools = f.tools,
                                      !.internal = (f.id = st.waiting)]
    BY <1>34, Zenon DEF S2cResponse
  <2>2. cur' \in Locals
    BY <2>1, ServerFrameType, ZenonT(30) DEF TypeOK, Locals, s2cVars
  <2>3. WireType' /\ s2c' \in S2cPc
    BY <2>1, Zenon DEF TypeOK, WireType, s2cVars, S2cPc
  <2> QED
    BY <1>34, <2>2, <2>3 DEF S2cResponse, TypeOK, WireType, c2sVars
<1>35. CASE S2cMalformed
  <2>1. PICK id \in AllIds :
          \/ /\ FailAndEmit(ClientFacing(st.client, id, id = st.waiting))
             /\ UNCHANGED wire
          \/ /\ wire' = [wire EXCEPT ![id] = "none"]
             /\ hist' = Answer(hist, id)
             /\ UNCHANGED <<held, failure, s2c, session>>
    BY <1>35, Zenon DEF S2cMalformed
  <2>2. ClientFacing(st.client, id, id = st.waiting) \in Ids
    BY FieldTypes, ClientFacingType, Zenon DEF Ids
  <2>3. ControlTypes' /\ hist' \in History /\ held' \in ClientIds \cup {None}
    BY <2>1, <2>2, FailAndEmitType, AnswerType DEF TypeOK, ControlTypes, Ids
  <2>4. WireType'
    BY <2>1, Zenon DEF TypeOK, WireType
  <2> QED
    BY <1>35, <2>3, <2>4, Zenon DEF S2cMalformed, TypeOK, ControlTypes, WireType, c2sVars
<1>36. CASE S2cEof
  <2>1. ControlTypes'
    BY <1>36, AbortType
    DEF TypeOK, ControlTypes, S2cPc, S2cEof
  <2> QED
    BY <1>36, <2>1, Zenon
    DEF S2cEof, TypeOK, c2sVars, ControlTypes
<1>37. CASE C2sArm
  <2>1. PICK id \in ClientIds :
          \/ /\ pending' = pending \cup {id}
             /\ list_busy' = TRUE
             /\ c2s' = IF list_busy THEN "arm_lost" ELSE "register"
             /\ req' = id
             /\ hist' = [hist EXCEPT !.sent = @ \cup {id}]
          \/ /\ hist' = Answer([hist EXCEPT !.sent = @ \cup {id}], id)
             /\ UNCHANGED <<pending, list_busy, c2s, req>>
    BY <1>37, Zenon DEF C2sArm
  <2>2. [hist EXCEPT !.sent = @ \cup {id}] \in History
    BY Zenon DEF TypeOK, History
  <2>3. hist' \in History
    BY <2>1, <2>2, AnswerType, Zenon DEF Ids, AllIds
  <2> QED
    BY <1>37, <2>1, <2>3, ZenonT(60), ZenonT(30)
    DEF C2sArm, C2sReads, C2sUnchanged, TypeOK, C2sPc, C2sListPc, s2cVars
<1>38. CASE C2sCancel
  <2>1. PICK id \in hist.sent :
          \/ /\ wire' = [wire EXCEPT ![id] = "cancelled"]
             /\ req' = id
             /\ c2s' = "cancel"
             /\ UNCHANGED hist
          \/ /\ hist' = [hist EXCEPT !.dropped = @ \cup ({id} \cap {held})]
             /\ UNCHANGED <<wire, req, c2s>>
    BY <1>38, Zenon DEF C2sCancel
  <2>2. id \in ClientIds
    BY Zenon DEF TypeOK, History
  <2>3. hist' \in History
    BY <2>1, <2>2 DEF TypeOK, History
  <2>4. WireType'
    BY <2>1, Zenon DEF TypeOK, WireType
  <2> QED
    BY <1>38, <2>1, <2>2, <2>3, <2>4
    DEF C2sCancel, C2sUnchanged, TypeOK, WireType, C2sPc, C2sListPc, s2cVars
<1>39. CASE C2sCall
  <2>1. call' \in [tool : Tools \cup {None}, gen : Nat]
    BY <1>39
    DEF TypeOK, C2sCall
  <2> QED
    BY <1>39, <2>1
    DEF C2sCall, TypeOK, C2sUnchanged, C2sCallUnchanged, s2cVars, C2sPc,
        C2sListPc
<1>40. CASE C2sEof
  BY <1>40
  DEF C2sEof, TypeOK, C2sUnchanged, C2sCallUnchanged, s2cVars, C2sPc,
      C2sListPc
<1>41. CASE AbortDrain
  <2>1. PICK transit \in SUBSET (ClientIds \ hist.sent) :
          hist' = [Answer(hist, held) EXCEPT
                     !.sent = @ \cup transit,
                     !.answers = [id \in AllIds |->
                                    IF id \in transit THEN 1
                                    ELSE Answer(hist, held).answers[id]]]
    BY <1>41, Zenon DEF AbortDrain
  <2> DEFINE h == Answer(hist, held)
             ans == [id \in AllIds |-> IF id \in transit THEN 1
                                       ELSE h.answers[id]]
  <2>2. h \in History
    BY FieldTypes, AnswerType, Zenon DEF TypeOK
  <2>3. h.sent \cup transit \in SUBSET ClientIds
    BY <2>2, Zenon DEF History
  <2>4. ans \in [AllIds -> 0 .. 2]
    BY <2>2 DEF History
  <2>5. hist' = [h EXCEPT !.sent = @ \cup transit, !.answers = ans]
    BY <2>1, Zenon
  <2> HIDE DEF h, ans
  <2>6. hist' \in History
    BY <2>2, <2>3, <2>4, <2>5, Zenon DEF History
  <2> QED
    BY <1>41, <2>6, Zenon DEF AbortDrain, TypeOK, s2cVars, c2sVars
<1>42. CASE AbortTimeout
  BY <1>42
  DEF AbortTimeout, TypeOK, c2sVars, s2cVars
<1>43. CASE Closed
  BY <1>43 DEF Closed, vars, TypeOK, s2cVars, c2sVars
<1>44. CASE UNCHANGED vars
  BY <1>44 DEF vars, TypeOK, s2cVars, c2sVars
<1> QED
  BY <1>1, <1>2, <1>3, <1>4, <1>5, <1>6, <1>7, <1>8, <1>9, <1>10,
     <1>11, <1>12, <1>13, <1>14, <1>15, <1>16, <1>17, <1>18, <1>19, <1>20,
     <1>21, <1>22, <1>23, <1>24, <1>25, <1>26, <1>27, <1>28, <1>29, <1>30,
     <1>31, <1>32, <1>33, <1>34, <1>35, <1>36, <1>37, <1>38, <1>39, <1>40,
     <1>41, <1>42, <1>43, <1>44
  DEF Next, S2cStep, C2sStep, Reads

\* The state of the gate, of the listings and of both loops keeps the shape
\* the code gives it, for any number of ids, tools, pages and notifications.
THEOREM TypeCorrect == Spec => []TypeOK
<1>1. Init => TypeOK
  BY InitTypes, Zenon
<1>2. TypeOK /\ [Next]_vars => TypeOK'
  BY StepTypes, Zenon
<1> QED
  BY <1>1, <1>2, PTL DEF Spec

-----------------------------------------------------------------------------
(* The verified dispatch of tools/call *)

\* Every step keeps the invariant behind DispatchVerified.
LEMMA StepDispatch == TypeOK /\ DispatchInv /\ [Next]_vars => DispatchInv'
<1> SUFFICES ASSUME TypeOK, DispatchInv, [Next]_vars PROVE DispatchInv'
  OBVIOUS
<1>1. CASE S2cProbe
  <2>1. s2c' \in {"read", "failed"} /\ st'.client = st.client
        /\ st'.held = st.held /\ st'.queued = st.queued
    BY <1>1, BeginRevalidationKeeps, Zenon DEF S2cProbe, TypeOK
  <2>2. \/ list_busy'
        \/ UNCHANGED <<list_busy, st>>
    BY <1>1, Zenon DEF S2cProbe, RaiseListGate
  <2>3. CollectionInv'
    BY <1>1, <2>1, <2>2, Zenon
    DEF S2cProbe, S2cAt, DispatchInv, CollectionInv, Collecting, Guarded
  <2>4. AdmissionInv' /\ DispatchVerified'
    BY <1>1
    DEF S2cProbe, RaiseListGate, c2sVars, DispatchInv, AdmissionInv,
        DispatchVerified
  <2> QED
    BY <2>3, <2>4, Zenon DEF DispatchInv
<1>2. CASE S2cKick
  <2>1. /\ st'.client \in {st.client, None}
        /\ st'.held = st.held /\ st'.queued = st.queued
        /\ st'.revalidating = st.revalidating
    <3>1. CASE st' = [DiscardPages(st) EXCEPT !.client = None]
      BY <3>1, DiscardType, DiscardKeeps DEF TypeOK, ListState
    <3>2. CASE UNCHANGED st
      BY <3>2, Zenon
    <3> QED
      BY <1>2, <3>1, <3>2, Zenon DEF S2cKick
  <2>2. CollectionInv'
    BY <1>2, <2>1, Zenon
    DEF S2cKick, S2cAt, DispatchInv, CollectionInv, Collecting, Guarded
  <2>3. AdmissionInv' /\ DispatchVerified'
    BY <1>2, Zenon DEF S2cKick, c2sVars, DispatchInv, AdmissionInv, DispatchVerified
  <2> QED
    BY <2>2, <2>3, Zenon DEF DispatchInv
<1>3. CASE S2cResume
  <2>1. ASSUME s2c' = "read", UNCHANGED <<list_busy, st>>
        PROVE  CollectionInv'
    BY <1>3, <2>1, Zenon
    DEF S2cResume, S2cAt, DispatchInv, CollectionInv, Collecting, Guarded
  <2>2. ASSUME st.queued, UNCHANGED list_busy,
               BeginRevalidation([st EXCEPT !.queued = FALSE])
        PROVE  CollectionInv'
    <3>1. [st EXCEPT !.queued = FALSE] \in ListState
      BY Zenon DEF TypeOK, ListState
    <3>2. s2c' \in {"read", "failed"} /\ st'.queued = FALSE
      BY <2>2, <3>1, BeginRevalidationKeeps, Zenon DEF TypeOK, ListState
    <3> QED
      BY <1>3, <2>2, <3>2, Zenon
      DEF S2cResume, S2cAt, DispatchInv, CollectionInv, Collecting, Guarded
  <2>3. ASSUME Idle, ~st.queued, s2c' = "resume_drain", UNCHANGED st
        PROVE  CollectionInv'
    BY <1>3, <2>3, Zenon
    DEF S2cResume, S2cAt, Idle, DispatchInv, CollectionInv, Collecting, Guarded
  <2>4. CollectionInv'
    BY <1>3, <2>1, <2>2, <2>3, Zenon DEF S2cResume, ListingInProgress
  <2>5. list_busy' => list_busy
    BY <1>3, Zenon DEF S2cResume
  <2>6. AdmissionInv' /\ DispatchVerified'
    BY <1>3, <2>5, Zenon
    DEF S2cResume, c2sVars, DispatchInv, AdmissionInv, DispatchVerified
  <2> QED
    BY <2>4, <2>6, Zenon DEF DispatchInv
<1>4. CASE S2cResumeDrain
  <2>1. CollectionInv'
    BY <1>4, FieldTypes, Zenon
    DEF S2cResumeDrain, S2cAt, c2sVars, DispatchInv, CollectionInv,
        Collecting, Guarded, TypeOK, ListState
  <2>2. AdmissionInv' /\ DispatchVerified'
    BY <1>4, FieldTypes, Zenon
    DEF S2cResumeDrain, S2cAt, c2sVars, DispatchInv, AdmissionInv,
        DispatchVerified, TypeOK, CollectionInv, Guarded
  <2> QED
    BY <2>1, <2>2, Zenon DEF DispatchInv
<1>5. CASE S2cRouteDrop
  <2>1. CollectionInv'
    BY <1>5, FieldTypes, Zenon
    DEF S2cRouteDrop, S2cAt, S2cUnchanged, c2sVars, DispatchInv,
        CollectionInv, Collecting, Guarded, TypeOK, ListState
  <2>2. AdmissionInv' /\ DispatchVerified'
    BY <1>5, FieldTypes, Zenon
    DEF S2cRouteDrop, S2cAt, S2cUnchanged, c2sVars, DispatchInv,
        AdmissionInv, DispatchVerified, TypeOK, CollectionInv, Guarded
  <2> QED
    BY <2>1, <2>2, Zenon DEF DispatchInv
<1>6. CASE S2cRouteInvalid
  <2>1. CollectionInv'
    BY <1>6, FieldTypes, Zenon
    DEF S2cRouteInvalid, S2cAt, FailAndEmit, S2cUnchanged, Abort, c2sVars,
        DispatchInv, CollectionInv, Collecting, Guarded, TypeOK, ListState
  <2>2. AdmissionInv' /\ DispatchVerified'
    BY <1>6, FieldTypes, Zenon
    DEF S2cRouteInvalid, S2cAt, FailAndEmit, S2cUnchanged, Abort, c2sVars,
        DispatchInv, AdmissionInv, DispatchVerified, TypeOK, CollectionInv,
        Guarded
  <2> QED
    BY <2>1, <2>2, Zenon DEF DispatchInv
<1>7. CASE S2cRouteError
  <2>1. CollectionInv'
    BY <1>7, FieldTypes, ZenonT(60), ZenonT(30)
    DEF S2cRouteError, S2cAt, RequiresAbortOnError, InitialInternal, Abort,
        DiscardPages, S2cUnchanged, c2sVars, DispatchInv, CollectionInv,
        Collecting, Guarded, TypeOK, ListState
  <2>2. AdmissionInv' /\ DispatchVerified'
    BY <1>7, FieldTypes, Zenon
    DEF S2cRouteError, S2cAt, RequiresAbortOnError, InitialInternal, Abort,
        DiscardPages, S2cUnchanged, c2sVars, DispatchInv, AdmissionInv,
        DispatchVerified, TypeOK, CollectionInv, Guarded
  <2> QED
    BY <2>1, <2>2, Zenon DEF DispatchInv
<1>8. CASE S2cErrorDrain
  <2>1. CollectionInv'
    BY <1>8, FieldTypes, Zenon
    DEF S2cErrorDrain, S2cAt, S2cUnchanged, c2sVars, DispatchInv,
        CollectionInv, Collecting, Guarded, TypeOK, ListState
  <2>2. AdmissionInv' /\ DispatchVerified'
    BY <1>8, FieldTypes, Zenon
    DEF S2cErrorDrain, S2cAt, S2cUnchanged, c2sVars, DispatchInv,
        AdmissionInv, DispatchVerified, TypeOK, CollectionInv, Guarded
  <2> QED
    BY <2>1, <2>2, Zenon DEF DispatchInv
<1>9. CASE S2cRoutePage
  <2>1. CollectionInv'
    BY <1>9, FieldTypes, Zenon
    DEF S2cRoutePage, S2cAt, NeedsClientBinding, S2cUnchanged, c2sVars,
        DispatchInv, CollectionInv, Collecting, Guarded, TypeOK, ListState
  <2>2. AdmissionInv' /\ DispatchVerified'
    BY <1>9, FieldTypes, Zenon
    DEF S2cRoutePage, S2cAt, NeedsClientBinding, S2cUnchanged, c2sVars,
        DispatchInv, AdmissionInv, DispatchVerified, TypeOK, CollectionInv,
        Guarded
  <2> QED
    BY <2>1, <2>2, Zenon DEF DispatchInv
<1>10. CASE S2cBind
  <2>1. CollectionInv'
    BY <1>10, FieldTypes, Zenon
    DEF S2cBind, S2cAt, RaiseListGate, S2cUnchanged, c2sVars, DispatchInv,
        CollectionInv, Collecting, Guarded, TypeOK, ListState
  <2>2. AdmissionInv' /\ DispatchVerified'
    BY <1>10, FieldTypes, Zenon
    DEF S2cBind, S2cAt, RaiseListGate, S2cUnchanged, c2sVars, DispatchInv,
        AdmissionInv, DispatchVerified, TypeOK, CollectionInv, Guarded
  <2> QED
    BY <2>1, <2>2, Zenon DEF DispatchInv
<1>11. CASE S2cNextPage
  <2>1. CollectionInv'
    BY <1>11, FieldTypes, Zenon
    DEF S2cNextPage, S2cAt, SendInternal, Abort, S2cUnchanged, c2sVars,
        DispatchInv, CollectionInv, Collecting, Guarded, TypeOK, ListState
  <2>2. AdmissionInv' /\ DispatchVerified'
    BY <1>11, FieldTypes, Zenon
    DEF S2cNextPage, S2cAt, SendInternal, Abort, S2cUnchanged, c2sVars,
        DispatchInv, AdmissionInv, DispatchVerified, TypeOK, CollectionInv,
        Guarded
  <2> QED
    BY <2>1, <2>2, Zenon DEF DispatchInv
<1>12. CASE S2cRepeatedCursor
  <2>1. CollectionInv'
    BY <1>12, FieldTypes, Zenon
    DEF S2cRepeatedCursor, S2cAt, FailAndEmit, S2cUnchanged, Abort, c2sVars,
        DispatchInv, CollectionInv, Collecting, Guarded, TypeOK, ListState
  <2>2. AdmissionInv' /\ DispatchVerified'
    BY <1>12, FieldTypes, Zenon
    DEF S2cRepeatedCursor, S2cAt, FailAndEmit, S2cUnchanged, Abort, c2sVars,
        DispatchInv, AdmissionInv, DispatchVerified, TypeOK, CollectionInv,
        Guarded
  <2> QED
    BY <2>1, <2>2, Zenon DEF DispatchInv
<1>13. CASE S2cCompletePages
  <2>1. CollectionInv'
    BY <1>13, FieldTypes, Zenon
    DEF S2cCompletePages, S2cAt, DiscardPages, S2cUnchanged, c2sVars,
        DispatchInv, CollectionInv, Collecting, Guarded, TypeOK, ListState
  <2>2. AdmissionInv' /\ DispatchVerified'
    BY <1>13, FieldTypes, Zenon
    DEF S2cCompletePages, S2cAt, DiscardPages, S2cUnchanged, c2sVars,
        DispatchInv, AdmissionInv, DispatchVerified, TypeOK, CollectionInv,
        Guarded
  <2> QED
    BY <2>1, <2>2, Zenon DEF DispatchInv
<1>14. CASE S2cVerifyBlocked
  <2>1. CollectionInv'
    BY <1>14, FieldTypes, Zenon
    DEF S2cVerifyBlocked, S2cAt, FailAndEmit, S2cUnchanged, Abort, c2sVars,
        DispatchInv, CollectionInv, Collecting, Guarded, TypeOK, ListState
  <2>2. AdmissionInv' /\ DispatchVerified'
    BY <1>14, FieldTypes, Zenon
    DEF S2cVerifyBlocked, S2cAt, FailAndEmit, S2cUnchanged, Abort, c2sVars,
        DispatchInv, AdmissionInv, DispatchVerified, TypeOK, CollectionInv,
        Guarded
  <2> QED
    BY <2>1, <2>2, Zenon DEF DispatchInv
<1>15. CASE S2cPublish
  <2>1. CollectionInv'
    BY <1>15, FieldTypes, Zenon
    DEF S2cPublish, S2cAt, S2cUnchanged, c2sVars, DispatchInv,
        CollectionInv, Collecting, Guarded, TypeOK, ListState
  <2>2. AdmissionInv' /\ DispatchVerified'
    BY <1>15, FieldTypes, SMTT(60)
    DEF S2cPublish, S2cAt, S2cUnchanged, c2sVars, DispatchInv, AdmissionInv,
        DispatchVerified, TypeOK, CollectionInv, Guarded
  <2> QED
    BY <2>1, <2>2, Zenon DEF DispatchInv
<1>16. CASE S2cRelease
  <2>1. CollectionInv'
    BY <1>16, FieldTypes
    DEF S2cRelease, S2cAt, RevalidationQueued, S2cUnchanged, c2sVars,
        DispatchInv, CollectionInv, Collecting, Guarded, TypeOK, ListState
  <2>2. AdmissionInv' /\ DispatchVerified'
    BY <1>16, FieldTypes, ZenonT(30)
    DEF S2cRelease, S2cAt, RevalidationQueued, S2cUnchanged, c2sVars,
        DispatchInv, AdmissionInv, DispatchVerified, TypeOK, CollectionInv,
        Guarded
  <2> QED
    BY <2>1, <2>2, Zenon DEF DispatchInv
<1>17. CASE S2cEmit
  <2>1. CollectionInv'
    BY <1>17, FieldTypes, ZenonT(30)
    DEF S2cEmit, S2cAt, BeginRevalidation, NoRevalidation, S2cUnchanged,
        Revalidating, SendInternal, Abort, c2sVars, DiscardPages,
        DispatchInv, CollectionInv, Collecting, Guarded, TypeOK, ListState
  <2>2. AdmissionInv' /\ DispatchVerified'
    BY <1>17, FieldTypes, Zenon
    DEF S2cEmit, S2cAt, BeginRevalidation, NoRevalidation, S2cUnchanged,
        Revalidating, SendInternal, Abort, c2sVars, DiscardPages,
        DispatchInv, AdmissionInv, DispatchVerified, TypeOK, CollectionInv,
        Guarded
  <2> QED
    BY <2>1, <2>2, Zenon DEF DispatchInv
<1>18. CASE S2cDrain
  <2>1. CollectionInv'
    BY <1>18, FieldTypes, Zenon
    DEF S2cDrain, S2cAt, S2cUnchanged, c2sVars, DispatchInv, CollectionInv,
        Collecting, Guarded, TypeOK, ListState
  <2>2. AdmissionInv' /\ DispatchVerified'
    BY <1>18, FieldTypes, Zenon
    DEF S2cDrain, S2cAt, S2cUnchanged, c2sVars, DispatchInv, AdmissionInv,
        DispatchVerified, TypeOK, CollectionInv, Guarded
  <2> QED
    BY <2>1, <2>2, Zenon DEF DispatchInv
<1>19. CASE S2cRejectedInternal
  <2>1. CollectionInv'
    BY <1>19, FieldTypes, Zenon
    DEF S2cRejectedInternal, S2cAt, RaiseListGate, DiscardPages, Abort,
        S2cUnchanged, c2sVars, DispatchInv, CollectionInv, Collecting,
        Guarded, TypeOK, ListState
  <2>2. AdmissionInv' /\ DispatchVerified'
    BY <1>19, FieldTypes, Zenon
    DEF S2cRejectedInternal, S2cAt, RaiseListGate, DiscardPages, Abort,
        S2cUnchanged, c2sVars, DispatchInv, AdmissionInv, DispatchVerified,
        TypeOK, CollectionInv, Guarded
  <2> QED
    BY <2>1, <2>2, Zenon DEF DispatchInv
<1>20. CASE S2cRejected
  <2>1. CollectionInv'
    BY <1>20, FieldTypes, Zenon
    DEF S2cRejected, S2cAt, DiscardPages, S2cUnchanged, c2sVars,
        DispatchInv, CollectionInv, Collecting, Guarded, TypeOK, ListState
  <2>2. AdmissionInv' /\ DispatchVerified'
    BY <1>20, FieldTypes, Zenon
    DEF S2cRejected, S2cAt, DiscardPages, S2cUnchanged, c2sVars,
        DispatchInv, AdmissionInv, DispatchVerified, TypeOK, CollectionInv,
        Guarded
  <2> QED
    BY <2>1, <2>2, Zenon DEF DispatchInv
<1>21. CASE S2cRejectRelease
  <2>1. CollectionInv'
    BY <1>21, FieldTypes, Zenon
    DEF S2cRejectRelease, S2cAt, RequiresAbortOnError, RaiseListGate, Abort,
        S2cUnchanged, c2sVars, DispatchInv, CollectionInv, Collecting,
        Guarded, TypeOK, ListState
  <2>2. AdmissionInv' /\ DispatchVerified'
    BY <1>21, FieldTypes, Zenon
    DEF S2cRejectRelease, S2cAt, RequiresAbortOnError, RaiseListGate, Abort,
        S2cUnchanged, c2sVars, DispatchInv, AdmissionInv, DispatchVerified,
        TypeOK, CollectionInv, Guarded
  <2> QED
    BY <2>1, <2>2, Zenon DEF DispatchInv
<1>22. CASE C2sArmLost
  <2>1. CollectionInv'
    BY <1>22, FieldTypes, Zenon
    DEF C2sArmLost, C2sAt, C2sUnchanged, s2cVars, DispatchInv,
        CollectionInv, Collecting, Guarded, TypeOK, ListState
  <2>2. AdmissionInv' /\ DispatchVerified'
    BY <1>22, FieldTypes, Zenon
    DEF C2sArmLost, C2sAt, C2sUnchanged, s2cVars, DispatchInv, AdmissionInv,
        DispatchVerified, TypeOK
  <2> QED
    BY <2>1, <2>2, Zenon DEF DispatchInv
<1>23. CASE C2sHold
  <2>1. CollectionInv'
    BY <1>23, FieldTypes, Zenon
    DEF C2sHold, C2sAt, C2sUnchanged, s2cVars, DispatchInv, CollectionInv,
        Collecting, Guarded, TypeOK, ListState
  <2>2. AdmissionInv' /\ DispatchVerified'
    BY <1>23, FieldTypes, Zenon
    DEF C2sHold, C2sAt, C2sUnchanged, s2cVars, DispatchInv, AdmissionInv,
        DispatchVerified, TypeOK
  <2> QED
    BY <2>1, <2>2, Zenon DEF DispatchInv
<1>24. CASE C2sArmRetry
  <2>1. CollectionInv'
    BY <1>24, FieldTypes, Zenon
    DEF C2sArmRetry, C2sAt, C2sUnchanged, s2cVars, DispatchInv,
        CollectionInv, Collecting, Guarded, TypeOK, ListState
  <2>2. AdmissionInv' /\ DispatchVerified'
    BY <1>24, FieldTypes, Zenon
    DEF C2sArmRetry, C2sAt, C2sUnchanged, s2cVars, DispatchInv,
        AdmissionInv, DispatchVerified, TypeOK
  <2> QED
    BY <2>1, <2>2, Zenon DEF DispatchInv
<1>25. CASE C2sArmRefuse
  <2>1. CollectionInv'
    BY <1>25, FieldTypes, Zenon
    DEF C2sArmRefuse, C2sAt, C2sUnchanged, s2cVars, DispatchInv,
        CollectionInv, Collecting, Guarded, TypeOK, ListState
  <2>2. AdmissionInv' /\ DispatchVerified'
    BY <1>25, FieldTypes, Zenon
    DEF C2sArmRefuse, C2sAt, C2sUnchanged, s2cVars, DispatchInv,
        AdmissionInv, DispatchVerified, TypeOK
  <2> QED
    BY <2>1, <2>2, Zenon DEF DispatchInv
<1>26. CASE C2sRegister
  <2>1. CollectionInv'
    BY <1>26, FieldTypes, Zenon
    DEF C2sRegister, C2sAt, C2sUnchanged, s2cVars, DispatchInv,
        CollectionInv, Collecting, Guarded, TypeOK, ListState
  <2>2. AdmissionInv' /\ DispatchVerified'
    BY <1>26, FieldTypes, Zenon
    DEF C2sRegister, C2sAt, C2sUnchanged, s2cVars, DispatchInv,
        AdmissionInv, DispatchVerified, TypeOK
  <2> QED
    BY <2>1, <2>2, Zenon DEF DispatchInv
<1>27. CASE C2sSend
  <2>1. CollectionInv'
    BY <1>27, FieldTypes, Zenon
    DEF C2sSend, C2sAt, C2sUnchanged, s2cVars, DispatchInv, CollectionInv,
        Collecting, Guarded, TypeOK, ListState
  <2>2. AdmissionInv' /\ DispatchVerified'
    BY <1>27, FieldTypes, Zenon
    DEF C2sSend, C2sAt, C2sUnchanged, s2cVars, DispatchInv, AdmissionInv,
        DispatchVerified, TypeOK
  <2> QED
    BY <2>1, <2>2, Zenon DEF DispatchInv
<1>28. CASE C2sCancelRelease
  <2>1. CollectionInv'
    BY <1>28, FieldTypes, Zenon
    DEF C2sCancelRelease, C2sAt, C2sUnchanged, s2cVars, DispatchInv,
        CollectionInv, Collecting, Guarded, TypeOK, ListState
  <2>2. AdmissionInv' /\ DispatchVerified'
    BY <1>28, FieldTypes, Zenon
    DEF C2sCancelRelease, C2sAt, C2sUnchanged, s2cVars, DispatchInv,
        AdmissionInv, DispatchVerified, TypeOK
  <2> QED
    BY <2>1, <2>2, Zenon DEF DispatchInv
<1>29. CASE C2sCallCheck
  <2>1. CollectionInv'
    BY <1>29, FieldTypes, Zenon
    DEF C2sCallCheck, C2sAt, C2sCallUnchanged, C2sUnchanged, s2cVars,
        DispatchInv, CollectionInv, Collecting, Guarded, TypeOK, ListState
  <2>2. AdmissionInv' /\ DispatchVerified'
    BY <1>29, FieldTypes
    DEF C2sCallCheck, C2sAt, C2sCallUnchanged, C2sUnchanged, s2cVars,
        DispatchInv, AdmissionInv, DispatchVerified, TypeOK
  <2> QED
    BY <2>1, <2>2, Zenon DEF DispatchInv
<1>30. CASE C2sCallRegister
  <2>1. CollectionInv'
    BY <1>30, FieldTypes, Zenon
    DEF C2sCallRegister, C2sAt, C2sCallUnchanged, C2sUnchanged, s2cVars,
        DispatchInv, CollectionInv, Collecting, Guarded, TypeOK, ListState
  <2>2. AdmissionInv' /\ DispatchVerified'
    BY <1>30, FieldTypes, Zenon
    DEF C2sCallRegister, C2sAt, C2sCallUnchanged, C2sUnchanged, s2cVars,
        DispatchInv, AdmissionInv, DispatchVerified, TypeOK
  <2> QED
    BY <2>1, <2>2, Zenon DEF DispatchInv
<1>31. CASE C2sCallEpoch
  <2>1. CollectionInv'
    BY <1>31, FieldTypes
    DEF C2sCallEpoch, C2sAt, AdmissionStale, C2sCallUnchanged, C2sUnchanged,
        s2cVars, DispatchInv, CollectionInv, Collecting, Guarded, TypeOK,
        ListState
  <2>2. AdmissionInv' /\ DispatchVerified'
    BY <1>31, FieldTypes, Zenon
    DEF C2sCallEpoch, C2sAt, AdmissionStale, C2sCallUnchanged, C2sUnchanged,
        s2cVars, DispatchInv, AdmissionInv, DispatchVerified, TypeOK
  <2> QED
    BY <2>1, <2>2, Zenon DEF DispatchInv
<1>32. CASE C2sCallWritten
  <2>1. CollectionInv'
    BY <1>32, FieldTypes, Zenon
    DEF C2sCallWritten, C2sAt, C2sCallUnchanged, C2sUnchanged, s2cVars,
        DispatchInv, CollectionInv, Collecting, Guarded, TypeOK, ListState
  <2>2. AdmissionInv' /\ DispatchVerified'
    BY <1>32, FieldTypes, ZenonT(30)
    DEF C2sCallWritten, C2sAt, C2sCallUnchanged, C2sUnchanged, s2cVars,
        DispatchInv, AdmissionInv, DispatchVerified, TypeOK
  <2> QED
    BY <2>1, <2>2, Zenon DEF DispatchInv
<1>33. CASE S2cListChanged
  <2>1. CollectionInv'
    BY <1>33, FieldTypes, ZenonT(30)
    DEF S2cListChanged, S2cAt, RaiseListGate, NoRevalidation,
        BeginRevalidation, c2sVars, Revalidating, SendInternal, Abort,
        DiscardPages, DispatchInv, CollectionInv, Collecting, Guarded,
        TypeOK, ListState
  <2>2. AdmissionInv' /\ DispatchVerified'
    BY <1>33, FieldTypes, Zenon
    DEF S2cListChanged, S2cAt, RaiseListGate, NoRevalidation,
        BeginRevalidation, c2sVars, Revalidating, SendInternal, Abort,
        DiscardPages, DispatchInv, AdmissionInv, DispatchVerified, TypeOK,
        CollectionInv, Guarded
  <2> QED
    BY <2>1, <2>2, Zenon DEF DispatchInv
<1>34. CASE S2cResponse
  <2>1. CollectionInv'
    BY <1>34, FieldTypes, Zenon
    DEF S2cResponse, S2cAt, s2cVars, c2sVars, DispatchInv, CollectionInv,
        Collecting, Guarded, TypeOK, ListState
  <2>2. AdmissionInv' /\ DispatchVerified'
    BY <1>34, FieldTypes
    DEF S2cResponse, S2cAt, s2cVars, c2sVars, DispatchInv, AdmissionInv,
        DispatchVerified, TypeOK, CollectionInv, Guarded
  <2> QED
    BY <2>1, <2>2, Zenon DEF DispatchInv
<1>35. CASE S2cMalformed
  <2>1. CollectionInv'
    BY <1>35, FieldTypes, Zenon
    DEF S2cMalformed, S2cAt, FailAndEmit, c2sVars, Abort, DispatchInv,
        CollectionInv, Collecting, Guarded, TypeOK, ListState
  <2>2. AdmissionInv' /\ DispatchVerified'
    BY <1>35, FieldTypes, Zenon
    DEF S2cMalformed, S2cAt, FailAndEmit, c2sVars, Abort, DispatchInv,
        AdmissionInv, DispatchVerified, TypeOK, CollectionInv, Guarded
  <2> QED
    BY <2>1, <2>2, Zenon DEF DispatchInv
<1>36. CASE S2cEof
  <2>1. CollectionInv'
    BY <1>36, FieldTypes
    DEF S2cEof, S2cAt, Abort, c2sVars, DispatchInv, CollectionInv,
        Collecting, Guarded, TypeOK, ListState
  <2>2. AdmissionInv' /\ DispatchVerified'
    BY <1>36, FieldTypes
    DEF S2cEof, S2cAt, Abort, c2sVars, DispatchInv, AdmissionInv,
        DispatchVerified, TypeOK, CollectionInv, Guarded
  <2> QED
    BY <2>1, <2>2, Zenon DEF DispatchInv
<1>37. CASE C2sArm
  <2>1. CollectionInv'
    BY <1>37, FieldTypes
    DEF C2sArm, C2sReads, C2sUnchanged, s2cVars, DispatchInv, CollectionInv,
        Collecting, Guarded, TypeOK, ListState
  <2>2. AdmissionInv' /\ DispatchVerified'
    BY <1>37, FieldTypes, Zenon
    DEF C2sArm, C2sReads, C2sUnchanged, s2cVars, DispatchInv, AdmissionInv,
        DispatchVerified, TypeOK
  <2> QED
    BY <2>1, <2>2, Zenon DEF DispatchInv
<1>38. CASE C2sCancel
  <2>1. CollectionInv'
    BY <1>38, FieldTypes, Zenon
    DEF C2sCancel, C2sReads, C2sUnchanged, s2cVars, DispatchInv,
        CollectionInv, Collecting, Guarded, TypeOK, ListState
  <2>2. AdmissionInv' /\ DispatchVerified'
    BY <1>38, FieldTypes
    DEF C2sCancel, C2sReads, C2sUnchanged, s2cVars, DispatchInv,
        AdmissionInv, DispatchVerified, TypeOK
  <2> QED
    BY <2>1, <2>2, Zenon DEF DispatchInv
<1>39. CASE C2sCall
  <2>1. CollectionInv'
    BY <1>39, FieldTypes, Zenon
    DEF C2sCall, C2sReads, C2sCallUnchanged, C2sUnchanged, s2cVars,
        DispatchInv, CollectionInv, Collecting, Guarded, TypeOK, ListState
  <2>2. AdmissionInv' /\ DispatchVerified'
    BY <1>39, FieldTypes, SMTT(60)
    DEF C2sCall, C2sReads, C2sCallUnchanged, C2sUnchanged, s2cVars,
        DispatchInv, AdmissionInv, DispatchVerified, TypeOK
  <2> QED
    BY <2>1, <2>2, Zenon DEF DispatchInv
<1>40. CASE C2sEof
  <2>1. CollectionInv'
    BY <1>40, FieldTypes, Zenon
    DEF C2sEof, C2sReads, C2sCallUnchanged, C2sUnchanged, s2cVars,
        DispatchInv, CollectionInv, Collecting, Guarded, TypeOK, ListState
  <2>2. AdmissionInv' /\ DispatchVerified'
    BY <1>40, FieldTypes, Zenon
    DEF C2sEof, C2sReads, C2sCallUnchanged, C2sUnchanged, s2cVars,
        DispatchInv, AdmissionInv, DispatchVerified, TypeOK
  <2> QED
    BY <2>1, <2>2, Zenon DEF DispatchInv
<1>41. CASE AbortDrain
  <2>1. CollectionInv'
    BY <1>41, FieldTypes, Zenon
    DEF AbortDrain, s2cVars, c2sVars, DispatchInv, CollectionInv,
        Collecting, Guarded, TypeOK, ListState
  <2>2. AdmissionInv' /\ DispatchVerified'
    BY <1>41, FieldTypes, Zenon
    DEF AbortDrain, s2cVars, c2sVars, DispatchInv, AdmissionInv,
        DispatchVerified, TypeOK
  <2> QED
    BY <2>1, <2>2, Zenon DEF DispatchInv
<1>42. CASE AbortTimeout
  <2>1. CollectionInv'
    BY <1>42, FieldTypes, Zenon
    DEF AbortTimeout, s2cVars, c2sVars, DispatchInv, CollectionInv,
        Collecting, Guarded, TypeOK, ListState
  <2>2. AdmissionInv' /\ DispatchVerified'
    BY <1>42, FieldTypes, Zenon
    DEF AbortTimeout, s2cVars, c2sVars, DispatchInv, AdmissionInv,
        DispatchVerified, TypeOK
  <2> QED
    BY <2>1, <2>2, Zenon DEF DispatchInv
<1>43. CASE Closed
  BY <1>43 DEF Closed, vars, s2cVars, c2sVars, DispatchInv, CollectionInv,
     Collecting, Guarded, AdmissionInv, DispatchVerified
<1>44. CASE UNCHANGED vars
  BY <1>44 DEF vars, s2cVars, c2sVars, DispatchInv, CollectionInv, Collecting,
     Guarded, AdmissionInv, DispatchVerified
<1> QED
  BY <1>1, <1>2, <1>3, <1>4, <1>5, <1>6, <1>7, <1>8, <1>9, <1>10,
     <1>11, <1>12, <1>13, <1>14, <1>15, <1>16, <1>17, <1>18, <1>19, <1>20,
     <1>21, <1>22, <1>23, <1>24, <1>25, <1>26, <1>27, <1>28, <1>29, <1>30,
     <1>31, <1>32, <1>33, <1>34, <1>35, <1>36, <1>37, <1>38, <1>39, <1>40,
     <1>41, <1>42, <1>43, <1>44, Zenon
  DEF Next, S2cStep, C2sStep, Reads

\* A tools/call that is being written to the child was admitted against the
\* verified set that is still current, behind a lowered gate, whatever the
\* interleaving of the two loops (register_and_forward_impl's recheck under
\* the dispatch epoch).
THEOREM DispatchCorrect == Spec => []DispatchVerified
<1>1. Init => DispatchInv
  BY SMTT(60) DEF Init, DispatchInv, CollectionInv, Collecting, Guarded, AdmissionInv,
         DispatchVerified
<1>2. TypeOK /\ DispatchInv /\ [Next]_vars => DispatchInv'
  BY StepDispatch, Zenon
<1>3. DispatchInv => DispatchVerified
  BY Zenon DEF DispatchInv
<1> QED
  BY <1>1, <1>2, <1>3, TypeCorrect, PTL DEF Spec

-----------------------------------------------------------------------------
(* Where a client listing can be.  An id is sent once; until it is answered  *)
(* it is at most at one of these places, and each answer takes it away.      *)

\* The request handler of C2S has it in hand.
AtArm(id) ==
    /\ c2s \in {"arm_lost", "arm_hold", "arm_retry", "arm_refuse", "register"}
    /\ req = id

\* S2C has a frame with its id in hand.
FrameInHand ==
    s2c \in {"route", "rejected", "reject_release", "error_drain", "bind",
             "next", "verify"}
InHand(id) == FrameInHand /\ cur.id = id

\* The collection, or the verified result not yet emitted, is bound to it.
ToEmit == s2c \in {"verify", "release", "emit"}
BoundTo(id) == st.client = id \/ (ToEmit /\ cur.emit = id)

OnWire(id) == wire[id] # "none"

Answered(id) == hist.answers[id] # 0

Placed(id) ==
    \/ AtArm(id) \/ held = id \/ OnWire(id) \/ InHand(id) \/ BoundTo(id)
    \/ Answered(id)

OnePlace(id) ==
    /\ Placed(id) => id \in hist.sent
    /\ AtArm(id) => held # id
    /\ AtArm(id) \/ held = id =>
         ~OnWire(id) /\ ~InHand(id) /\ ~BoundTo(id) /\ ~Answered(id)
    /\ s2c # "failed" /\ OnWire(id) =>
         ~InHand(id) /\ ~BoundTo(id) /\ ~Answered(id)
    /\ s2c # "failed" /\ (InHand(id) \/ BoundTo(id)) => ~Answered(id)
    /\ hist.answers[id] < 2

\* The inductive invariant behind the client half of AtMostOneAnswer.
AnswerInv ==
    /\ pending \subseteq hist.sent
    /\ c2s = "send" => wire[req] = "registered"
    /\ \A id \in ClientIds : OnePlace(id)

-----------------------------------------------------------------------------
(* Who owns the gate.  At any time one party at most does: a client listing  *)
(* that took it and waits for its first page, or the collection.             *)

NoCollection == st.client = None /\ st.waiting = None /\ ~st.revalidating

\* The listing took the gate; a loser of the CAS is listed in two windows.
Armed(id) ==
    id \in pending /\ ~(c2s \in {"arm_lost", "arm_refuse"} /\ req = id)

NoneArmed == \A id \in ClientIds : ~Armed(id)

\* The gate is up while anybody owns it, and a held notification has an owner
\* until its listing is verified.
BusyInv ==
    /\ s2c \in {"route", "bind", "next", "verify", "release", "rejected",
                "reject_release"} => list_busy
    /\ s2c = "emit" /\ cur.revalidate => list_busy
    /\ s2c = "drain" => ~cur.revalidate
    /\ ~list_busy => NoneArmed
    /\ st.client # None /\ s2c # "error_drain" => list_busy
    /\ st.waiting # None => list_busy
    /\ st.revalidating \/ st.queued => list_busy
    /\ st.held => st.queued \/ st.revalidating \/ s2c \in {"emit", "drain"}

\* There is one owner.
ArmInv ==
    /\ \A a, b \in ClientIds : Armed(a) /\ Armed(b) => a = b
    /\ s2c \in {"bind", "next", "verify", "release", "reject_release"} =>
         NoneArmed
    /\ s2c = "emit" /\ cur.revalidate => NoneArmed
    /\ s2c \in {"route", "rejected"} =>
         \A id \in ClientIds : Armed(id) => cur.id = id
    /\ s2c = "error_drain" \/ NoneArmed \/ NoCollection

\* What the state of the collection says at each await of S2C.
BindingInv ==
    /\ st.waiting # None => Collecting
    /\ st.client # None => ~st.revalidating
    /\ s2c \in {"bind", "next"} => Collecting
    /\ s2c \in {"route", "rejected"} /\ cur.internal => st.waiting = cur.id
    /\ s2c \in {"route", "rejected"} /\ ~cur.internal => NoCollection
    /\ s2c \in {"probe", "resume_drain"} => NoCollection
    /\ s2c \in {"bind", "verify", "release", "emit", "drain", "error_drain",
                "reject_release"} => st.waiting = None
    /\ s2c = "reject_release" => st.client = None
    /\ FrameInHand => cur.id # None

\* An internal id is on the wire only as the one waited for, and nothing that
\* is emitted to the client carries one.
InternalUnseen(k) ==
    /\ OnWire(k) => st.waiting = k /\ s2c \in {"read", "resume", "failed"}
    /\ st.client # k
    /\ ToEmit => cur.emit # k
    /\ FrameInHand /\ cur.id = k => cur.internal
    /\ s2c = "reject_release" => cur.id # k
    /\ hist.answers[k] = 0

InternalInv == \A k \in InternalIds : InternalUnseen(k)

\* Until an initial listing was unwound under a held notification, the gate
\* has one owner.
OwnerInv ==
    ~hist.unwound => BusyInv /\ ArmInv /\ BindingInv /\ InternalInv

ListingInv == AnswerInv /\ OwnerInv

-----------------------------------------------------------------------------
(* What the shared pieces of the handlers do *)

\* From history h to g one response was counted, on id x if it is one.
Counted(h, g, x) ==
    /\ g.sent = h.sent /\ g.unwound = h.unwound
    /\ \A id \in AllIds : id # x => g.answers[id] = h.answers[id]
    /\ \A id \in AllIds : h.answers[id] = 0 => g.answers[id] < 2

\* Answer counts one response.
LEMMA AnswerCounts ==
    ASSUME NEW h \in History, NEW x \in Ids
    PROVE  Counted(h, Answer(h, x), x)
BY DEF Answer, History, Ids, Counted

\* Two responses, on ids x and y if they are ids.
CountedTwice(h, g, x, y) ==
    /\ g.sent = h.sent /\ g.unwound = h.unwound
    /\ \A id \in AllIds : id # x /\ id # y => g.answers[id] = h.answers[id]
    /\ \A id \in AllIds : h.answers[id] = 0 => g.answers[id] < 2

LEMMA AnswerTwice ==
    ASSUME NEW h \in History, NEW x \in Ids, NEW y \in Ids, x = None \/ x # y
    PROVE  CountedTwice(h, Answer(Answer(h, x), y), x, y)
BY DEF Answer, History, Ids, CountedTwice

\* What a started revalidation, or the request for a page, has done with the
\* wire table.
SentUnder(k) ==
    \/ s2c' = "failed" /\ wire' = wire
    \/ /\ s2c' = "read"
       /\ \A id \in AllIds : id # k => wire'[id] = wire[id]

Begun(s) ==
    \E k \in InternalIds :
        /\ st'.client = s.client /\ st'.waiting = k /\ st'.revalidating
        /\ st'.queued = s.queued /\ st'.held = s.held
        /\ SentUnder(k)

LEMMA SendEffect ==
    ASSUME TypeOK, NEW k \in InternalIds,
           SendInternal(k) \/ (Abort("unanswered") /\ UNCHANGED wire)
    PROVE  SentUnder(k)
BY DEF SendInternal, Abort, SentUnder, TypeOK, AllIds

\* A revalidation waits for a fresh internal id.
LEMMA BeginEffect ==
    ASSUME TypeOK, NEW s \in ListState, BeginRevalidation(s)
    PROVE  Begun(s)
<1>1. PICK k \in InternalIds :
          /\ st' = Revalidating(s, k)
          /\ SendInternal(k) \/ (Abort("unanswered") /\ UNCHANGED wire)
  BY Zenon DEF BeginRevalidation
<1>2. SentUnder(k)
  BY <1>1, SendEffect, Zenon
<1>3. /\ st'.client = s.client /\ st'.waiting = k /\ st'.revalidating
      /\ st'.queued = s.queued /\ st'.held = s.held
  BY <1>1, Zenon DEF Revalidating, DiscardPages, ListState
<1> QED
  BY <1>2, <1>3, Zenon DEF Begun

\* A failure answers its own id, or the held listing, which it takes.
FailedOn(r) ==
    /\ s2c' = "failed"
    /\ r # None => held' = held /\ Counted(hist, hist', r)
    /\ r = None => held' = None /\ Counted(hist, hist', held)

LEMMA FailEffect ==
    ASSUME TypeOK, NEW r \in Ids, FailAndEmit(r)
    PROVE  FailedOn(r)
<1>1. hist \in History /\ held \in Ids
  BY Zenon DEF TypeOK, Ids, AllIds
<1>2. CASE r # None
  <2>1. hist' = Answer(hist, r) /\ held' = held /\ s2c' = "failed"
    BY <1>2, Zenon DEF FailAndEmit, TakeHeld, Abort
  <2> QED
    BY <1>1, <1>2, <2>1, AnswerCounts, Zenon DEF FailedOn
<1>3. CASE r = None
  <2>1. hist' = Answer(hist, held) /\ held' = None /\ s2c' = "failed"
    BY <1>3, Zenon DEF FailAndEmit, TakeHeld, Abort
  <2> QED
    BY <1>1, <1>3, <2>1, AnswerCounts, Zenon DEF FailedOn
<1> QED
  BY <1>2, <1>3, Zenon

\* Client ids, internal ids and none are apart.
LEMMA IdsApart ==
    /\ \A id \in ClientIds : id \in AllIds /\ id # None /\ id \notin InternalIds
    /\ \A k \in InternalIds : k \in AllIds /\ k # None /\ k \notin ClientIds
BY IdsAssumption, Zenon DEF AllIds

-----------------------------------------------------------------------------
(* How a step moves a listing *)

\* An id that is at no new place, and not answered again, keeps its place.
Kept(id) ==
    /\ AtArm(id)' => AtArm(id)
    /\ held' = id => held = id
    /\ OnWire(id)' => OnWire(id)
    /\ InHand(id)' \/ BoundTo(id)' => InHand(id) \/ BoundTo(id)
    /\ hist'.answers[id] = hist.answers[id]
    /\ id \in hist.sent => id \in hist'.sent
    /\ s2c = "failed" => s2c' = "failed"

LEMMA KeptPlace ==
    ASSUME NEW id, OnePlace(id), Kept(id)
    PROVE  OnePlace(id)'
BY Zenon DEF OnePlace, Kept, Placed, Answered

\* The frame that answers a tracked listing is in hand now.
LEMMA MovedPlace ==
    ASSUME NEW id, OnePlace(id), OnWire(id), s2c # "failed",
           id \in hist'.sent, hist'.answers[id] = hist.answers[id],
           ~AtArm(id)', held' # id, ~OnWire(id)'
    PROVE  OnePlace(id)'
BY Zenon DEF OnePlace, Placed, Answered

\* A listing that had no answer gets one and is at no place any more, or S2C
\* has failed.
LEMMA AnsweredPlace ==
    ASSUME NEW id, id \in hist'.sent, hist'.answers[id] < 2,
           ~AtArm(id)', held' # id,
           s2c' = "failed" \/ (~OnWire(id)' /\ ~InHand(id)' /\ ~BoundTo(id)')
    PROVE  OnePlace(id)'
BY Zenon DEF OnePlace, Placed

\* What is left to show of AnswerInv for a step of S2C.
S2cFrame ==
    /\ c2s' = c2s /\ req' = req /\ pending' \subseteq pending
    /\ hist'.sent = hist.sent
    /\ \A id \in ClientIds : wire[id] = "registered" => wire'[id] = wire[id]

LEMMA S2cAnswer ==
    ASSUME TypeOK, AnswerInv, S2cFrame, \A id \in ClientIds : OnePlace(id)'
    PROVE  AnswerInv'
<1>1. c2s = "send" => req \in ClientIds
  BY Zenon DEF TypeOK, C2sListPc
<1> QED
  BY <1>1, Zenon DEF AnswerInv, S2cFrame

-----------------------------------------------------------------------------
(* The C2S loop *)

\* A step that leaves the listings alone.
ListingFrame ==
    /\ list_busy' = list_busy /\ held' = held /\ pending' = pending
    /\ wire' = wire /\ st' = st /\ s2c' = s2c /\ cur' = cur /\ req' = req
    /\ hist' = hist
    /\ c2s' = c2s \/ (c2s \notin C2sListPc /\ c2s' \notin C2sListPc)

\* It keeps the invariant.
LEMMA FrameKeeps ==
    ASSUME ListingInv, ListingFrame
    PROVE  ListingInv'
<1>1. AnswerInv'
  <2>1. \A id \in ClientIds : Kept(id)
    BY Zenon DEF ListingFrame, Kept, AtArm, InHand, FrameInHand, BoundTo,
       ToEmit, OnWire, C2sListPc
  <2>2. \A id \in ClientIds : OnePlace(id)'
    BY <2>1, KeptPlace, Zenon DEF ListingInv, AnswerInv
  <2> QED
    BY <2>2, Zenon DEF ListingInv, ListingFrame, AnswerInv, OnWire, C2sListPc
<1>2. \A id \in ClientIds : Armed(id)' <=> Armed(id)
  BY Zenon DEF ListingFrame, Armed, C2sListPc
<1>3. hist'.unwound = hist.unwound
  BY Zenon DEF ListingFrame
<1>4. BusyInv => BusyInv'
  BY <1>2, Zenon DEF ListingFrame, BusyInv, NoneArmed
<1>5. ArmInv => ArmInv'
  BY <1>2, Zenon DEF ListingFrame, ArmInv, NoneArmed, NoCollection
<1>6. (BindingInv => BindingInv') /\ (InternalInv => InternalInv')
  BY Zenon DEF ListingFrame, BindingInv, InternalInv, InternalUnseen,
     NoCollection, Collecting, OnWire, ToEmit, FrameInHand
<1> QED
  BY <1>1, <1>3, <1>4, <1>5, <1>6, Zenon DEF ListingInv, OwnerInv

\* The steps of a tools/call, and the ends of the session.
LEMMA CallKeeps ==
    ASSUME ListingInv,
           \/ C2sCall \/ C2sCallCheck \/ C2sCallRegister \/ C2sCallEpoch
           \/ C2sCallWritten \/ C2sEof \/ AbortTimeout \/ Closed
           \/ UNCHANGED vars
    PROVE  ListingInv'
<1>1. CASE C2sCall \/ C2sCallCheck \/ C2sCallRegister
  <2>1. ListingFrame
    BY <1>1 DEF C2sCall, C2sCallCheck, C2sCallRegister, C2sReads, C2sAt,
       C2sCallUnchanged, C2sUnchanged, s2cVars, ListingFrame, C2sListPc
  <2> QED
    BY <2>1, FrameKeeps, Zenon
<1>2. CASE C2sCallEpoch \/ C2sCallWritten \/ C2sEof
  <2>1. ListingFrame
    BY <1>2 DEF C2sCallEpoch, C2sCallWritten, C2sEof, C2sReads, C2sAt,
       C2sCallUnchanged, C2sUnchanged, s2cVars, ListingFrame, C2sListPc
  <2> QED
    BY <2>1, FrameKeeps, Zenon
<1>3. CASE AbortTimeout \/ Closed \/ UNCHANGED vars
  <2>1. ListingFrame
    BY <1>3, Zenon DEF AbortTimeout, Closed, vars, s2cVars, c2sVars,
       ListingFrame
  <2> QED
    BY <2>1, FrameKeeps, Zenon
<1> QED
  BY <1>1, <1>2, <1>3, Zenon

\* A listing step of C2S leaves S2C and the internal ids alone.
C2sFrame ==
    /\ st' = st /\ s2c' = s2c /\ cur' = cur
    /\ hist'.unwound = hist.unwound
    /\ \A k \in InternalIds :
         wire'[k] = wire[k] /\ hist'.answers[k] = hist.answers[k]

LEMMA C2sFrameKeeps ==
    ASSUME C2sFrame
    PROVE  /\ BindingInv => BindingInv'
           /\ InternalInv => InternalInv'
BY Zenon DEF C2sFrame, BindingInv, InternalInv, InternalUnseen, NoCollection,
   Collecting, OnWire, ToEmit, FrameInHand

\* What is left to show of a listing step of C2S.
LEMMA C2sOwner ==
    ASSUME OwnerInv, C2sFrame,
           BusyInv /\ ArmInv => BusyInv' /\ ArmInv'
    PROVE  OwnerInv'
BY C2sFrameKeeps, Zenon DEF OwnerInv, C2sFrame

\* arm_tools_list reserves a fresh id, or refuses the request.
LEMMA ArmKeeps ==
    ASSUME TypeOK, ListingInv, C2sArm
    PROVE  ListingInv'
<1>1. PICK x \in ClientIds \ hist.sent :
        IF Cardinality(pending) < MaxPending
        THEN /\ pending' = pending \cup {x}
             /\ list_busy' = TRUE
             /\ c2s' = IF list_busy THEN "arm_lost" ELSE "register"
             /\ req' = x
             /\ hist' = [hist EXCEPT !.sent = @ \cup {x}]
        ELSE /\ hist' = Answer([hist EXCEPT !.sent = @ \cup {x}], x)
             /\ UNCHANGED <<pending, list_busy, c2s, req>>
  BY Zenon DEF C2sArm
<1>2. /\ held' = held /\ wire' = wire /\ st' = st /\ s2c' = s2c /\ cur' = cur
      /\ c2s = "idle"
  BY Zenon DEF C2sArm, C2sReads, C2sUnchanged, s2cVars
<1>3. hist \in History /\ pending \subseteq ClientIds
  BY Zenon DEF TypeOK
<1>4. x \in ClientIds /\ x \in AllIds /\ x \in Ids
  BY Zenon DEF AllIds, Ids
<1>5. ~Placed(x) /\ x \notin pending
  BY <1>1, <1>4, Zenon DEF ListingInv, AnswerInv, OnePlace
<1>6. CASE Cardinality(pending) < MaxPending
  <2>1. /\ pending' = pending \cup {x} /\ list_busy' /\ req' = x
        /\ list_busy => c2s' = "arm_lost"
        /\ ~list_busy => c2s' = "register"
    BY <1>1, <1>6, Zenon
  <2>2. /\ hist'.sent = hist.sent \cup {x} /\ hist'.unwound = hist.unwound
        /\ hist'.answers = hist.answers
    BY <1>1, <1>3, <1>6, Zenon DEF History
  <2>3. \A id \in ClientIds : id # x => Kept(id)
    BY <1>2, <2>1, <2>2, Zenon DEF Kept, AtArm, InHand, FrameInHand, BoundTo,
       ToEmit, OnWire
  <2>4. ~Answered(x)' /\ hist'.answers[x] < 2
    <3>1. hist.answers[x] = 0
      BY <1>5, Zenon DEF Placed, Answered
    <3> QED
      BY <2>2, <3>1 DEF Answered
  <2>5. OnePlace(x)'
    BY <1>2, <1>5, <2>2, <2>4, Zenon DEF OnePlace, Placed, AtArm, InHand,
       FrameInHand, BoundTo, ToEmit, OnWire
  <2>6. AnswerInv'
    BY <1>2, <2>1, <2>2, <2>3, <2>5, KeptPlace, Zenon
    DEF ListingInv, AnswerInv
  <2>7. C2sFrame
    BY <1>2, <2>2, Zenon DEF C2sFrame
  <2>8. \A id \in ClientIds : Armed(id)' =>
            (list_busy /\ Armed(id)) \/ (~list_busy /\ (id = x \/ Armed(id)))
    BY <1>2, <1>5, <2>1, Zenon DEF Armed
  <2>9. BusyInv /\ ArmInv => BusyInv' /\ ArmInv'
    <3>1. BusyInv => BusyInv'
      BY <1>2, <2>1, Zenon DEF BusyInv
    <3>2. CASE list_busy
      BY <1>2, <2>8, <3>1, <3>2, Zenon DEF ArmInv, NoneArmed, NoCollection
    <3>3. CASE ~list_busy
      BY <1>2, <2>8, <3>1, <3>3, Zenon DEF ArmInv, BusyInv, NoneArmed, NoCollection
    <3> QED
      BY <3>2, <3>3, Zenon
  <2> QED
    BY <2>6, <2>7, <2>9, C2sOwner, Zenon DEF ListingInv
<1>7. CASE ~(Cardinality(pending) < MaxPending)
  <2>1. /\ pending' = pending /\ list_busy' = list_busy /\ c2s' = c2s
        /\ req' = req
    BY <1>1, <1>7, Zenon
  <2> DEFINE h == [hist EXCEPT !.sent = @ \cup {x}]
  <2>2. /\ h \in History /\ h.sent = hist.sent \cup {x}
        /\ h.unwound = hist.unwound /\ h.answers = hist.answers
    BY <1>3, <1>4, Zenon DEF History
  <2>3. hist' = Answer(h, x)
    BY <1>1, <1>7, Zenon
  <2> HIDE DEF h
  <2>4. Counted(h, hist', x)
    BY <1>4, <2>2, <2>3, AnswerCounts, Zenon
  <2>5. \A id \in ClientIds : id # x => Kept(id)
    BY <1>2, <2>1, <2>2, <2>4, Zenon DEF Kept, AtArm, InHand, FrameInHand,
       BoundTo, ToEmit, OnWire, Counted, AllIds
  <2>6. hist'.answers[x] < 2
    BY <1>4, <1>5, <2>2, <2>4, Zenon DEF Counted, Placed, Answered
  <2>7. OnePlace(x)'
    BY <1>2, <1>5, <2>1, <2>2, <2>4, <2>6, Zenon DEF OnePlace, Placed, AtArm,
       InHand, FrameInHand, BoundTo, ToEmit, OnWire, Counted
  <2>8. AnswerInv'
    BY <1>2, <2>1, <2>2, <2>4, <2>5, <2>7, KeptPlace, Zenon
    DEF ListingInv, AnswerInv, OnWire, Counted
  <2>9. C2sFrame
    BY <1>2, <1>4, <2>2, <2>4, IdsApart, Zenon DEF C2sFrame, Counted
  <2>10. BusyInv /\ ArmInv => BusyInv' /\ ArmInv'
    BY <1>2, <2>1, Zenon DEF BusyInv, ArmInv, Armed, NoneArmed, NoCollection
  <2> QED
    BY <2>8, <2>9, <2>10, C2sOwner, Zenon DEF ListingInv
<1> QED
  BY <1>6, <1>7, Zenon

\* The loser of the CAS takes its reservation back.
LEMMA ArmLostKeeps ==
    ASSUME TypeOK, ListingInv, C2sArmLost
    PROVE  ListingInv'
<1>1. /\ list_busy' = list_busy /\ held' = held /\ wire' = wire /\ st' = st
      /\ s2c' = s2c /\ cur' = cur /\ hist' = hist /\ req' = req
      /\ c2s = "arm_lost" /\ c2s' = "arm_hold" /\ pending' = pending \ {req}
  BY Zenon DEF C2sArmLost, C2sAt, C2sUnchanged, s2cVars
<1>2. \A id \in ClientIds : Kept(id)
  BY <1>1, Zenon DEF Kept, AtArm, InHand, FrameInHand, BoundTo, ToEmit, OnWire
<1>3. AnswerInv'
  BY <1>1, <1>2, KeptPlace, Zenon DEF ListingInv, AnswerInv
<1>4. \A id \in ClientIds : Armed(id)' => Armed(id)
  BY <1>1, Zenon DEF Armed
<1>5. BusyInv /\ ArmInv => BusyInv' /\ ArmInv'
  BY <1>1, <1>4, Zenon DEF BusyInv, ArmInv, NoneArmed, NoCollection
<1>6. C2sFrame
  BY <1>1, Zenon DEF C2sFrame
<1> QED
  BY <1>3, <1>5, <1>6, C2sOwner, Zenon DEF ListingInv

\* A listing is parked, or tries once more.
LEMMA HoldKeeps ==
    ASSUME TypeOK, ListingInv, C2sHold
    PROVE  ListingInv'
<1>1. /\ list_busy' = list_busy /\ pending' = pending /\ wire' = wire
      /\ st' = st /\ s2c' = s2c /\ cur' = cur /\ hist' = hist /\ req' = req
      /\ c2s = "arm_hold" /\ c2s' \in {"idle", "arm_retry"}
      /\ \/ held' = req /\ held = None /\ c2s' = "idle"
         \/ held' = held /\ c2s' = "arm_retry"
  BY Zenon DEF C2sHold, C2sAt, C2sUnchanged, s2cVars
<1>2. req \in ClientIds /\ AtArm(req)
  BY <1>1, Zenon DEF TypeOK, C2sListPc, AtArm
<1>3. \A id \in ClientIds : id # req => Kept(id)
  BY <1>1, Zenon DEF Kept, AtArm, InHand, FrameInHand, BoundTo, ToEmit, OnWire
<1>4. OnePlace(req)'
  <2>1. OnePlace(req)
    BY <1>2, Zenon DEF ListingInv, AnswerInv
  <2>2. /\ OnWire(req)' <=> OnWire(req)
        /\ InHand(req)' <=> InHand(req)
        /\ BoundTo(req)' <=> BoundTo(req)
        /\ Answered(req)' <=> Answered(req)
    BY <1>1, Zenon DEF InHand, FrameInHand, BoundTo, ToEmit, OnWire, Answered
  <2>3. CASE held' = req /\ held = None /\ c2s' = "idle"
    <3>1. ~AtArm(req)'
      BY <2>3, Zenon DEF AtArm
    <3> QED
      BY <1>1, <1>2, <2>1, <2>2, <3>1, Zenon DEF OnePlace, Placed
  <2>4. CASE held' = held /\ c2s' = "arm_retry"
    BY <1>1, <1>2, <2>1, <2>2, <2>4, Zenon DEF OnePlace, Placed
  <2> QED
    BY <1>1, <2>3, <2>4, Zenon
<1>5. AnswerInv'
  BY <1>1, <1>3, <1>4, KeptPlace, Zenon DEF ListingInv, AnswerInv
<1>6. \A id \in ClientIds : Armed(id)' => Armed(id)
  BY <1>1, Zenon DEF Armed
<1>7. BusyInv /\ ArmInv => BusyInv' /\ ArmInv'
  BY <1>1, <1>6, Zenon DEF BusyInv, ArmInv, NoneArmed, NoCollection
<1>8. C2sFrame
  BY <1>1, Zenon DEF C2sFrame
<1> QED
  BY <1>5, <1>7, <1>8, C2sOwner, Zenon DEF ListingInv

\* The second try takes the gate, or leaves it to its owner.
LEMMA ArmRetryKeeps ==
    ASSUME TypeOK, ListingInv, C2sArmRetry
    PROVE  ListingInv'
<1>1. /\ held' = held /\ wire' = wire /\ st' = st /\ s2c' = s2c
      /\ cur' = cur /\ hist' = hist /\ req' = req /\ c2s = "arm_retry"
      /\ \/ /\ pending' = pending \cup {req} /\ list_busy' /\ ~list_busy
            /\ c2s' = "register"
         \/ /\ list_busy' = list_busy /\ c2s' = "arm_refuse"
            /\ pending' \subseteq pending \cup {req}
  BY Zenon DEF C2sArmRetry, C2sAt, C2sUnchanged, s2cVars, TypeOK
<1>2. req \in ClientIds /\ AtArm(req)
  BY <1>1, Zenon DEF TypeOK, C2sListPc, AtArm
<1>3. \A id \in ClientIds : Kept(id)
  BY <1>1, Zenon DEF Kept, AtArm, InHand, FrameInHand, BoundTo, ToEmit, OnWire
<1>4. req \in hist.sent
  BY <1>2, Zenon DEF ListingInv, AnswerInv, OnePlace, Placed
<1>5. AnswerInv'
  BY <1>1, <1>3, <1>4, KeptPlace, Zenon DEF ListingInv, AnswerInv
<1>6. C2sFrame
  BY <1>1, Zenon DEF C2sFrame
<1>7. CASE list_busy' /\ ~list_busy /\ c2s' = "register"
  <2>1. \A id \in ClientIds : Armed(id)' => id = req \/ Armed(id)
    BY <1>1, <1>7, Zenon DEF Armed
  <2>2. BusyInv /\ ArmInv => BusyInv'
    BY <1>1, <1>7, Zenon DEF BusyInv
  <2>3. BusyInv /\ ArmInv => ArmInv'
    BY <1>1, <1>7, <2>1, Zenon DEF BusyInv, ArmInv, NoneArmed, NoCollection
  <2> QED
    BY <1>5, <1>6, <2>2, <2>3, C2sOwner, Zenon DEF ListingInv
<1>8. CASE list_busy' = list_busy /\ c2s' = "arm_refuse"
  <2>1. \A id \in ClientIds : Armed(id)' => Armed(id)
    BY <1>1, <1>8, Zenon DEF Armed
  <2>2. BusyInv /\ ArmInv => BusyInv' /\ ArmInv'
    BY <1>1, <1>8, <2>1, Zenon DEF BusyInv, ArmInv, NoneArmed, NoCollection
  <2> QED
    BY <1>5, <1>6, <2>2, C2sOwner, Zenon DEF ListingInv
<1> QED
  BY <1>1, <1>7, <1>8, Zenon

\* A listing in hand is refused.
Refused ==
    /\ list_busy' = list_busy /\ held' = held /\ wire' = wire /\ st' = st
    /\ s2c' = s2c /\ cur' = cur /\ req' = req
    /\ c2s \in {"arm_refuse", "register"} /\ c2s' = "idle"
    /\ pending' = pending \ {req}
    /\ Counted(hist, hist', req)

LEMMA RefuseKeeps ==
    ASSUME TypeOK, ListingInv, Refused
    PROVE  ListingInv'
<1>1. req \in ClientIds /\ AtArm(req)
  BY Zenon DEF Refused, TypeOK, C2sListPc, AtArm
<1>2. OnePlace(req)
  BY <1>1, Zenon DEF ListingInv, AnswerInv
<1>3. \A id \in ClientIds : id # req => Kept(id)
  BY IdsApart, Zenon DEF Refused, Kept, AtArm, InHand, FrameInHand, BoundTo,
     ToEmit, OnWire, Counted
<1>4. OnePlace(req)'
  <2>1. /\ OnWire(req)' <=> OnWire(req)
        /\ InHand(req)' <=> InHand(req)
        /\ BoundTo(req)' <=> BoundTo(req)
        /\ ~AtArm(req)'
    BY Zenon DEF Refused, AtArm, InHand, FrameInHand, BoundTo, ToEmit, OnWire
  <2>2. hist'.answers[req] < 2 /\ req \in hist'.sent
    BY <1>1, <1>2, IdsApart, Zenon DEF Refused, OnePlace, Placed, Answered,
       Counted
  <2>3. held' # req /\ req' = req
    BY <1>1, <1>2, Zenon DEF Refused, OnePlace
  <2> QED
    BY <1>1, <1>2, <2>1, <2>2, <2>3, Zenon DEF OnePlace, Placed
<1>5. AnswerInv'
  BY <1>3, <1>4, KeptPlace, Zenon DEF ListingInv, AnswerInv, Refused, Counted
<1>6. C2sFrame
  BY <1>1, IdsApart, Zenon DEF Refused, C2sFrame, Counted
<1>7. \A id \in ClientIds : Armed(id)' => Armed(id)
  BY Zenon DEF Refused, Armed
<1>8. BusyInv /\ ArmInv => BusyInv' /\ ArmInv'
  BY <1>7, Zenon DEF Refused, BusyInv, ArmInv, NoneArmed, NoCollection
<1> QED
  BY <1>5, <1>6, <1>8, C2sOwner, Zenon DEF ListingInv

\* The contended listing is refused.
LEMMA ArmRefuseKeeps ==
    ASSUME TypeOK, ListingInv, C2sArmRefuse
    PROVE  ListingInv'
<1>1. hist \in History /\ req \in Ids
  BY Zenon DEF TypeOK, Ids, AllIds
<1>2. Counted(hist, hist', req)
  BY <1>1, AnswerCounts, Zenon DEF C2sArmRefuse
<1>3. Refused
  BY <1>2, Zenon DEF C2sArmRefuse, C2sAt, C2sUnchanged, s2cVars, Refused
<1> QED
  BY <1>3, RefuseKeeps, Zenon

\* The armed listing enters the wire table, or is refused.
LEMMA RegisterKeeps ==
    ASSUME TypeOK, ListingInv, C2sRegister
    PROVE  ListingInv'
<1>1. hist \in History /\ req \in Ids /\ req \in ClientIds /\ req \in AllIds
  BY Zenon DEF C2sRegister, C2sAt, TypeOK, C2sListPc, Ids, AllIds
<1>2. /\ list_busy' = list_busy /\ held' = held /\ st' = st
      /\ s2c' = s2c /\ cur' = cur /\ req' = req /\ c2s = "register"
  BY Zenon DEF C2sRegister, C2sAt, C2sUnchanged, s2cVars
<1>3. CASE /\ wire' = [wire EXCEPT ![req] = "registered"]
           /\ c2s' = "send" /\ pending' = pending /\ hist' = hist
  <2>1. /\ wire'[req] = "registered"
        /\ \A id \in AllIds : id # req => wire'[id] = wire[id]
    BY <1>1, <1>3, Zenon DEF TypeOK
  <2>2. AtArm(req) /\ OnePlace(req)
    BY <1>1, <1>2, Zenon DEF AtArm, ListingInv, AnswerInv
  <2>3. \A id \in ClientIds : id # req => Kept(id)
    BY <1>2, <1>3, <2>1, IdsApart, Zenon DEF Kept, AtArm, InHand, FrameInHand,
       BoundTo, ToEmit, OnWire
  <2>4. OnePlace(req)'
    <3>1. /\ InHand(req)' <=> InHand(req)
          /\ BoundTo(req)' <=> BoundTo(req)
          /\ Answered(req)' <=> Answered(req)
          /\ ~AtArm(req)'
      BY <1>2, <1>3, Zenon DEF InHand, FrameInHand, BoundTo, ToEmit, Answered,
         AtArm
    <3> QED
      BY <1>2, <1>3, <2>2, <3>1, Zenon DEF OnePlace, Placed
  <2>5. AnswerInv'
    BY <1>2, <1>3, <2>1, <2>3, <2>4, KeptPlace, Zenon
    DEF ListingInv, AnswerInv
  <2>6. C2sFrame
    BY <1>1, <1>2, <1>3, <2>1, IdsApart, Zenon DEF C2sFrame
  <2>7. \A id \in ClientIds : Armed(id)' => Armed(id)
    BY <1>2, <1>3, Zenon DEF Armed
  <2>8. BusyInv /\ ArmInv => BusyInv' /\ ArmInv'
    BY <1>2, <2>7, Zenon DEF BusyInv, ArmInv, NoneArmed, NoCollection
  <2> QED
    BY <2>5, <2>6, <2>8, C2sOwner, Zenon DEF ListingInv
<1>4. CASE /\ pending' = pending \ {req} /\ hist' = Answer(hist, req)
           /\ c2s' = "idle" /\ wire' = wire
  <2>1. Counted(hist, hist', req)
    BY <1>1, <1>4, AnswerCounts, Zenon
  <2>2. Refused
    BY <1>2, <1>4, <2>1, Zenon DEF Refused
  <2> QED
    BY <2>2, RefuseKeeps, Zenon
<1> QED
  BY <1>3, <1>4, Zenon DEF C2sRegister

\* A tracked listing stays tracked: it is written, or marked cancelled.
Marked(x) ==
    /\ list_busy' = list_busy /\ held' = held /\ st' = st /\ s2c' = s2c
    /\ cur' = cur /\ pending' = pending /\ hist' = hist
    /\ OnWire(x)
    /\ \A id \in AllIds : id # x => wire'[id] = wire[id]
    /\ c2s \in {"send", "idle"} /\ c2s' \in {"idle", "cancel"}

LEMMA MarkKeeps ==
    ASSUME ListingInv, NEW x \in ClientIds, Marked(x)
    PROVE  ListingInv'
<1>1. \A id \in ClientIds : Kept(id)
  BY IdsApart, Zenon DEF Marked, Kept, AtArm, InHand, FrameInHand, BoundTo,
     ToEmit, OnWire
<1>2. AnswerInv'
  BY <1>1, KeptPlace, Zenon DEF ListingInv, AnswerInv, Marked
<1>3. C2sFrame
  BY IdsApart, Zenon DEF Marked, C2sFrame
<1>4. \A id \in ClientIds : Armed(id)' => Armed(id)
  BY Zenon DEF Marked, Armed
<1>5. BusyInv /\ ArmInv => BusyInv' /\ ArmInv'
  BY <1>4, Zenon DEF Marked, BusyInv, ArmInv, NoneArmed, NoCollection
<1> QED
  BY <1>2, <1>3, <1>5, C2sOwner, Zenon DEF ListingInv

\* The registered listing is written to the child.
LEMMA SendKeeps ==
    ASSUME TypeOK, ListingInv, C2sSend
    PROVE  ListingInv'
<1>1. req \in ClientIds /\ req \in AllIds
  BY Zenon DEF C2sSend, C2sAt, TypeOK, C2sListPc, AllIds
<1>2. \A id \in AllIds : id # req => wire'[id] = wire[id]
  BY <1>1, Zenon DEF C2sSend, TypeOK
<1>3. OnWire(req)
  <2>1. "registered" # "none"
    OBVIOUS
  <2> QED
    BY <2>1, Zenon DEF C2sSend, C2sAt, ListingInv, AnswerInv, OnWire
<1>4. Marked(req)
  BY <1>2, <1>3, Zenon DEF C2sSend, C2sAt, C2sUnchanged, s2cVars, Marked
<1> QED
  BY <1>1, <1>4, MarkKeeps, Zenon

\* A cancellation marks the tracked listing it names; one that names none
\* changes nothing here.
LEMMA CancelKeeps ==
    ASSUME TypeOK, ListingInv, C2sCancel
    PROVE  ListingInv'
<1>1. PICK x \in hist.sent :
        IF wire[x] # "none"
        THEN /\ wire' = [wire EXCEPT ![x] = "cancelled"]
             /\ req' = x
             /\ c2s' = "cancel"
             /\ UNCHANGED hist
        ELSE /\ hist' = [hist EXCEPT !.dropped = @ \cup ({x} \cap {held})]
             /\ UNCHANGED <<wire, req, c2s>>
  BY Zenon DEF C2sCancel
<1>2. x \in ClientIds /\ x \in AllIds /\ hist \in History
  BY Zenon DEF TypeOK, History, AllIds
<1>3. /\ list_busy' = list_busy /\ held' = held /\ st' = st /\ s2c' = s2c
      /\ cur' = cur /\ pending' = pending /\ c2s = "idle"
  BY Zenon DEF C2sCancel, C2sReads, C2sUnchanged, s2cVars
<1>4. CASE wire[x] # "none"
  <2>1. \A id \in AllIds : id # x => wire'[id] = wire[id]
    BY <1>1, <1>2, <1>4, Zenon DEF TypeOK
  <2>2. Marked(x)
    BY <1>1, <1>3, <1>4, <2>1, Zenon DEF Marked, OnWire
  <2> QED
    BY <1>2, <2>2, MarkKeeps, Zenon
<1>5. CASE wire[x] = "none"
  <2>1. wire' = wire /\ req' = req /\ c2s' = c2s
    BY <1>1, <1>5, Zenon
  <2>2. /\ hist'.sent = hist.sent /\ hist'.answers = hist.answers
        /\ hist'.unwound = hist.unwound
    BY <1>1, <1>2, <1>5, Zenon DEF History
  <2>3. \A id \in ClientIds : Kept(id)
    BY <1>3, <2>1, <2>2, Zenon DEF Kept, AtArm, InHand, FrameInHand, BoundTo,
       ToEmit, OnWire
  <2>4. AnswerInv'
    BY <1>3, <2>1, <2>2, <2>3, KeptPlace, Zenon DEF ListingInv, AnswerInv
  <2>5. C2sFrame
    BY <1>3, <2>1, <2>2, Zenon DEF C2sFrame
  <2>6. BusyInv /\ ArmInv => BusyInv' /\ ArmInv'
    BY <1>3, <2>1, Zenon DEF BusyInv, ArmInv, Armed, NoneArmed, NoCollection
  <2> QED
    BY <2>4, <2>5, <2>6, C2sOwner, Zenon DEF ListingInv
<1> QED
  BY <1>4, <1>5, Zenon

\* release_cancelled_bookkeeping drops the listing and a hold on its id.
LEMMA CancelReleaseKeeps ==
    ASSUME TypeOK, ListingInv, C2sCancelRelease
    PROVE  ListingInv'
<1>1. /\ list_busy' = list_busy /\ wire' = wire /\ st' = st /\ s2c' = s2c
      /\ cur' = cur /\ hist' = hist /\ req' = req /\ c2s = "cancel"
      /\ c2s' = "idle" /\ pending' = pending \ {req}
      /\ held' \in {held, None}
  BY Zenon DEF C2sCancelRelease, C2sAt, C2sUnchanged, s2cVars
<1>2. \A id \in ClientIds : Kept(id)
  BY <1>1, IdsApart, Zenon DEF Kept, AtArm, InHand, FrameInHand, BoundTo,
     ToEmit, OnWire
<1>3. AnswerInv'
  BY <1>1, <1>2, KeptPlace, Zenon DEF ListingInv, AnswerInv
<1>4. C2sFrame
  BY <1>1, Zenon DEF C2sFrame
<1>5. \A id \in ClientIds : Armed(id)' => Armed(id)
  BY <1>1, Zenon DEF Armed
<1>6. BusyInv /\ ArmInv => BusyInv' /\ ArmInv'
  BY <1>1, <1>5, Zenon DEF BusyInv, ArmInv, NoneArmed, NoCollection
<1> QED
  BY <1>3, <1>4, <1>6, C2sOwner, Zenon DEF ListingInv

-----------------------------------------------------------------------------
(* The S2C loop *)

\* A frame that is no listing any more is dropped.
LEMMA RouteDropKeeps ==
    ASSUME TypeOK, DispatchInv, ListingInv, S2cRouteDrop
    PROVE  ListingInv'
<1>1. /\ c2s' = c2s /\ req' = req
      /\ pending' = pending /\ held' = held /\ wire' = wire /\ hist' = hist
      /\ st' = st /\ cur' = cur /\ list_busy' = list_busy
      /\ s2c = "route" /\ s2c' = "read" /\ cur.id \notin pending /\ ~cur.internal
  BY Zenon DEF S2cRouteDrop, S2cAt, S2cUnchanged, c2sVars, IsToolsListResponse
<1>2. \A id \in ClientIds : Kept(id)
  BY <1>1, Zenon DEF Kept, AtArm, InHand, FrameInHand, BoundTo, ToEmit, OnWire
<1>3. AnswerInv'
  BY <1>1, <1>2, KeptPlace, S2cAnswer, Zenon
  DEF ListingInv, AnswerInv, S2cFrame
<1>4. ASSUME BusyInv, ArmInv, BindingInv, InternalInv
      PROVE  BusyInv' /\ ArmInv' /\ BindingInv' /\ InternalInv'
  <2>1. BusyInv'
    BY <1>1, <1>4, Zenon DEF BusyInv, NoneArmed, Armed, ArmInv, BindingInv,
       NoCollection
  <2>2. ArmInv'
    BY <1>1, <1>4, Zenon DEF ArmInv, NoneArmed, NoCollection, Armed,
       BindingInv
  <2>3. BindingInv'
    BY <1>1, <1>4, Zenon DEF BindingInv, NoCollection, Collecting, FrameInHand
  <2>4. InternalInv'
    BY <1>1, <1>4, Zenon DEF InternalInv, InternalUnseen, OnWire, ToEmit,
       FrameInHand
  <2> QED
    BY <2>1, <2>2, <2>3, <2>4, Zenon
<1> QED
  BY <1>1, <1>3, <1>4, Zenon DEF ListingInv, OwnerInv

\* The first page of a client listing raises the gate.
LEMMA BindKeeps ==
    ASSUME TypeOK, DispatchInv, ListingInv, S2cBind
    PROVE  ListingInv'
<1>1. /\ c2s' = c2s /\ req' = req
      /\ pending' = pending /\ held' = held /\ wire' = wire /\ hist' = hist
      /\ st' = st /\ cur' = cur /\ list_busy'
      /\ s2c = "bind" /\ s2c' = "next"
  BY Zenon DEF S2cBind, S2cAt, S2cUnchanged, c2sVars, RaiseListGate
<1>2. \A id \in ClientIds : Kept(id)
  BY <1>1, Zenon DEF Kept, AtArm, InHand, FrameInHand, BoundTo, ToEmit, OnWire
<1>3. AnswerInv'
  BY <1>1, <1>2, KeptPlace, S2cAnswer, Zenon
  DEF ListingInv, AnswerInv, S2cFrame
<1>4. ASSUME BusyInv, ArmInv, BindingInv, InternalInv
      PROVE  BusyInv' /\ ArmInv' /\ BindingInv' /\ InternalInv'
  <2>1. BusyInv'
    BY <1>1, <1>4, Zenon DEF BusyInv, NoneArmed, Armed
  <2>2. ArmInv'
    BY <1>1, <1>4, Zenon DEF ArmInv, NoneArmed, NoCollection, Armed
  <2>3. BindingInv'
    BY <1>1, <1>4, Zenon DEF BindingInv, NoCollection, Collecting, FrameInHand
  <2>4. InternalInv'
    BY <1>1, <1>4, Zenon DEF InternalInv, InternalUnseen, OnWire, ToEmit,
       FrameInHand
  <2> QED
    BY <2>1, <2>2, <2>3, <2>4, Zenon
<1> QED
  BY <1>1, <1>3, <1>4, Zenon DEF ListingInv, OwnerInv

\* The verified set is published.
LEMMA PublishKeeps ==
    ASSUME TypeOK, DispatchInv, ListingInv, S2cPublish
    PROVE  ListingInv'
<1>1. /\ c2s' = c2s /\ req' = req
      /\ pending' = pending /\ held' = held /\ wire' = wire /\ hist' = hist
      /\ st' = st /\ cur' = cur /\ list_busy' = list_busy
      /\ s2c = "verify" /\ s2c' = "release"
  BY Zenon DEF S2cPublish, S2cAt, S2cUnchanged, c2sVars, TypeOK
<1>2. \A id \in ClientIds : Kept(id)
  BY <1>1, Zenon DEF Kept, AtArm, InHand, FrameInHand, BoundTo, ToEmit, OnWire
<1>3. AnswerInv'
  BY <1>1, <1>2, KeptPlace, S2cAnswer, Zenon
  DEF ListingInv, AnswerInv, S2cFrame
<1>4. ASSUME BusyInv, ArmInv, BindingInv, InternalInv
      PROVE  BusyInv' /\ ArmInv' /\ BindingInv' /\ InternalInv'
  <2>1. BusyInv'
    BY <1>1, <1>4, Zenon DEF BusyInv, NoneArmed, Armed
  <2>2. ArmInv'
    BY <1>1, <1>4, Zenon DEF ArmInv, NoneArmed, NoCollection, Armed
  <2>3. BindingInv'
    BY <1>1, <1>4, Zenon DEF BindingInv, NoCollection, Collecting, FrameInHand
  <2>4. InternalInv'
    BY <1>1, <1>4, Zenon DEF InternalInv, InternalUnseen, OnWire, ToEmit,
       FrameInHand
  <2> QED
    BY <2>1, <2>2, <2>3, <2>4, Zenon
<1> QED
  BY <1>1, <1>3, <1>4, Zenon DEF ListingInv, OwnerInv

\* The assembled set goes to verification.
LEMMA CompletePagesKeeps ==
    ASSUME TypeOK, DispatchInv, ListingInv, S2cCompletePages
    PROVE  ListingInv'
<1>1. /\ c2s' = c2s /\ req' = req
      /\ pending' = pending /\ held' = held /\ wire' = wire /\ hist' = hist
      /\ list_busy' = list_busy
      /\ s2c = "next" /\ s2c' = "verify"
      /\ st'.client = None /\ st'.waiting = None
      /\ st'.revalidating = st.revalidating /\ st'.queued = st.queued
      /\ st'.held = st.held
      /\ cur'.emit = st.client /\ cur'.id = cur.id
      /\ cur'.internal = cur.internal
  BY Zenon DEF S2cCompletePages, S2cAt, S2cUnchanged, c2sVars, DiscardPages,
     TypeOK, ListState, Locals
<1>2. \A id \in ClientIds : Kept(id)
  BY <1>1, IdsApart, Zenon DEF Kept, AtArm, InHand, FrameInHand, BoundTo,
     ToEmit, OnWire
<1>3. AnswerInv'
  BY <1>1, <1>2, KeptPlace, S2cAnswer, Zenon
  DEF ListingInv, AnswerInv, S2cFrame
<1>4. ASSUME BusyInv, ArmInv, BindingInv, InternalInv
      PROVE  BusyInv' /\ ArmInv' /\ BindingInv' /\ InternalInv'
  <2>1. BusyInv'
    BY <1>1, <1>4, Zenon DEF BusyInv, NoneArmed, Armed
  <2>2. ArmInv'
    BY <1>1, <1>4, Zenon DEF ArmInv, NoneArmed, NoCollection, Armed
  <2>3. BindingInv'
    BY <1>1, <1>4, Zenon DEF BindingInv, NoCollection, Collecting,
       FrameInHand, NoCollection
  <2>4. InternalInv'
    <3>1. \A k \in InternalIds : ~OnWire(k)'
      BY <1>1, <1>4, Zenon DEF InternalInv, InternalUnseen, OnWire
    <3>2. \A k \in InternalIds : st'.client # k /\ cur'.emit # k
      BY <1>1, <1>4, IdsApart, Zenon DEF InternalInv, InternalUnseen
    <3>3. \A k \in InternalIds : cur'.id = k => cur'.internal
      BY <1>1, <1>4, Zenon DEF InternalInv, InternalUnseen, FrameInHand
    <3> QED
      BY <1>1, <1>4, <3>1, <3>2, <3>3, Zenon DEF InternalInv, InternalUnseen
  <2> QED
    BY <2>1, <2>2, <2>3, <2>4, Zenon
<1> QED
  BY <1>1, <1>3, <1>4, Zenon DEF ListingInv, OwnerInv

\* The queued revalidation decides whether the gate drops.
LEMMA ReleaseKeeps ==
    ASSUME TypeOK, DispatchInv, ListingInv, S2cRelease
    PROVE  ListingInv'
<1>1. /\ c2s' = c2s /\ req' = req
      /\ pending' = pending /\ held' = held /\ wire' = wire /\ hist' = hist
      /\ list_busy' <=> list_busy /\ st.queued
      /\ s2c = "release" /\ s2c' = "emit"
      /\ st'.client = st.client /\ st'.waiting = st.waiting
      /\ st'.revalidating <=> st.revalidating /\ st.queued
      /\ ~st'.queued /\ st'.held = st.held
      /\ st.client = None
      /\ cur'.emit = cur.emit /\ cur'.id = cur.id
      /\ cur'.revalidate <=> st.queued
  BY Zenon DEF S2cRelease, S2cAt, S2cUnchanged, c2sVars, RevalidationQueued,
     TypeOK, ListState, Locals, DispatchInv, CollectionInv
<1>2. \A id \in ClientIds : Kept(id)
  BY <1>1, Zenon DEF Kept, AtArm, InHand, FrameInHand, BoundTo, ToEmit, OnWire
<1>3. AnswerInv'
  BY <1>1, <1>2, KeptPlace, S2cAnswer, Zenon
  DEF ListingInv, AnswerInv, S2cFrame
<1>4. ASSUME BusyInv, ArmInv, BindingInv, InternalInv
      PROVE  BusyInv' /\ ArmInv' /\ BindingInv' /\ InternalInv'
  <2>1. BusyInv'
    BY <1>1, <1>4, Zenon DEF BusyInv, NoneArmed, Armed, ArmInv, BindingInv
  <2>2. ArmInv'
    BY <1>1, <1>4, Zenon DEF ArmInv, NoneArmed, NoCollection, Armed
  <2>3. BindingInv'
    BY <1>1, <1>4, Zenon DEF BindingInv, NoCollection, Collecting, FrameInHand
  <2>4. InternalInv'
    BY <1>1, <1>4, Zenon DEF InternalInv, InternalUnseen, OnWire, ToEmit,
       FrameInHand
  <2> QED
    BY <2>1, <2>2, <2>3, <2>4, Zenon
<1> QED
  BY <1>1, <1>3, <1>4, Zenon DEF ListingInv, OwnerInv

\* A page is accumulated; the first one binds the collection.
LEMMA RoutePageKeeps ==
    ASSUME TypeOK, DispatchInv, ListingInv, S2cRoutePage
    PROVE  ListingInv'
<1>1. /\ c2s' = c2s /\ req' = req
      /\ pending' = pending \ {cur.id} /\ held' = held /\ wire' = wire
      /\ hist' = hist /\ cur' = cur /\ list_busy' = list_busy
      /\ s2c = "route"
      /\ st'.waiting = st.waiting /\ st'.revalidating = st.revalidating
      /\ st'.queued = st.queued /\ st'.held = st.held
      /\ NeedsClientBinding => st'.client = cur.id /\ s2c' = "bind"
      /\ ~NeedsClientBinding => st'.client = st.client /\ s2c' = "next"
      /\ s2c' \in {"bind", "next"}
  BY Zenon DEF S2cRoutePage, S2cAt, S2cUnchanged, c2sVars, TypeOK, ListState
<1>2. \A id \in ClientIds : Kept(id)
  BY <1>1, Zenon DEF Kept, AtArm, InHand, FrameInHand, BoundTo, ToEmit, OnWire
<1>3. AnswerInv'
  BY <1>1, <1>2, KeptPlace, S2cAnswer, Zenon
  DEF ListingInv, AnswerInv, S2cFrame
<1>4. ASSUME BusyInv, ArmInv, BindingInv, InternalInv
      PROVE  BusyInv' /\ ArmInv' /\ BindingInv' /\ InternalInv'
  <2>1. BusyInv'
    BY <1>1, <1>4, Zenon DEF BusyInv, NoneArmed, Armed, NeedsClientBinding,
       ArmInv
  <2>2. ArmInv'
    BY <1>1, <1>4, Zenon DEF ArmInv, NoneArmed, NoCollection, Armed
  <2>3. BindingInv'
    BY <1>1, <1>4, FieldTypes, IdsApart, Zenon DEF BindingInv, NoCollection,
       Collecting, FrameInHand, NeedsClientBinding
  <2>4. InternalInv'
    BY <1>1, <1>4, FieldTypes, IdsApart, Zenon DEF InternalInv,
       InternalUnseen, OnWire, ToEmit, FrameInHand, NeedsClientBinding,
       BindingInv, NoCollection, Collecting
  <2> QED
    BY <2>1, <2>2, <2>3, <2>4, Zenon
<1> QED
  BY <1>1, <1>3, <1>4, Zenon DEF ListingInv, OwnerInv

\* The response to an internal request is denied: the session ends.
LEMMA RejectedInternalKeeps ==
    ASSUME TypeOK, DispatchInv, ListingInv, S2cRejectedInternal
    PROVE  ListingInv'
<1>1. /\ c2s' = c2s /\ req' = req
      /\ pending' = pending /\ held' = held /\ wire' = wire /\ hist' = hist
      /\ cur' = cur /\ list_busy'
      /\ s2c = "rejected" /\ s2c' = "failed"
      /\ st'.client = st.client /\ st'.waiting = None
      /\ st'.revalidating = st.revalidating /\ st'.queued = st.queued
      /\ st'.held = st.held
      /\ cur.id \in InternalIds
  BY Zenon DEF S2cRejectedInternal, S2cAt, S2cUnchanged, c2sVars,
     RaiseListGate, Abort, DiscardPages, TypeOK, ListState
<1>2. \A id \in ClientIds : Kept(id)
  BY <1>1, Zenon DEF Kept, AtArm, InHand, FrameInHand, BoundTo, ToEmit, OnWire
<1>3. AnswerInv'
  BY <1>1, <1>2, KeptPlace, S2cAnswer, Zenon
  DEF ListingInv, AnswerInv, S2cFrame
<1>4. ASSUME BusyInv, ArmInv, BindingInv, InternalInv
      PROVE  BusyInv' /\ ArmInv' /\ BindingInv' /\ InternalInv'
  <2>1. BusyInv'
    BY <1>1, <1>4, Zenon DEF BusyInv, NoneArmed, Armed
  <2>2. ArmInv'
    BY <1>1, <1>4, IdsApart, Zenon DEF ArmInv, NoneArmed, NoCollection, Armed,
       BindingInv
  <2>3. BindingInv'
    BY <1>1, <1>4, Zenon DEF BindingInv, NoCollection, Collecting, FrameInHand
  <2>4. InternalInv'
    BY <1>1, <1>4, IdsApart, Zenon DEF InternalInv, InternalUnseen, OnWire,
       ToEmit, FrameInHand, BindingInv, NoCollection
  <2> QED
    BY <2>1, <2>2, <2>3, <2>4, Zenon
<1> QED
  BY <1>1, <1>3, <1>4, Zenon DEF ListingInv, OwnerInv

\* The response to a client listing is denied: its bookkeeping goes.
LEMMA RejectedKeeps ==
    ASSUME TypeOK, DispatchInv, ListingInv, S2cRejected
    PROVE  ListingInv'
<1>1. /\ c2s' = c2s /\ req' = req
      /\ pending' = pending \ {cur.id} /\ held' = held /\ wire' = wire
      /\ hist' = hist /\ cur' = cur /\ list_busy' = list_busy
      /\ s2c = "rejected" /\ s2c' = "reject_release"
      /\ st'.client = st.client /\ st'.waiting = None
      /\ st'.revalidating = st.revalidating /\ st'.queued = st.queued
      /\ st'.held = st.held
      /\ cur.id \in ClientIds
  BY Zenon DEF S2cRejected, S2cAt, S2cUnchanged, c2sVars, DiscardPages,
     TypeOK, ListState
<1>2. \A id \in ClientIds : Kept(id)
  BY <1>1, Zenon DEF Kept, AtArm, InHand, FrameInHand, BoundTo, ToEmit, OnWire
<1>3. AnswerInv'
  BY <1>1, <1>2, KeptPlace, S2cAnswer, Zenon
  DEF ListingInv, AnswerInv, S2cFrame
<1>4. ASSUME BusyInv, ArmInv, BindingInv, InternalInv
      PROVE  BusyInv' /\ ArmInv' /\ BindingInv' /\ InternalInv'
  <2>1. BusyInv'
    BY <1>1, <1>4, Zenon DEF BusyInv, NoneArmed, Armed
  <2>2. ArmInv'
    BY <1>1, <1>4, Zenon DEF ArmInv, NoneArmed, NoCollection, Armed
  <2>3. BindingInv'
    BY <1>1, <1>4, FieldTypes, IdsApart, Zenon DEF BindingInv, NoCollection,
       Collecting, FrameInHand, NoCollection
  <2>4. InternalInv'
    BY <1>1, <1>4, FieldTypes, IdsApart, Zenon DEF InternalInv,
       InternalUnseen, OnWire, ToEmit, FrameInHand, BindingInv, NoCollection
  <2> QED
    BY <2>1, <2>2, <2>3, <2>4, Zenon
<1> QED
  BY <1>1, <1>3, <1>4, Zenon DEF ListingInv, OwnerInv

\* An error unwinds a collection and lowers the gate, or ends the session.
LEMMA RouteErrorKeeps ==
    ASSUME TypeOK, DispatchInv, ListingInv, S2cRouteError
    PROVE  ListingInv'
<1>1. /\ c2s' = c2s /\ req' = req /\ pending' = pending \ {cur.id}
      /\ held' = held /\ wire' = wire /\ cur' = cur /\ s2c = "route"
      /\ s2c' \in {"failed", "error_drain"}
  BY Zenon DEF S2cRouteError, S2cAt, S2cUnchanged, c2sVars, Abort
<1>2. /\ st'.client = st.client /\ st'.waiting = None
      /\ st'.queued = st.queued /\ st'.held = st.held
  BY Zenon DEF S2cRouteError, DiscardPages, TypeOK, ListState
<1>3. \/ /\ s2c' = "failed" /\ list_busy' = list_busy /\ hist' = hist
         /\ st'.revalidating = st.revalidating
      \/ /\ s2c' = "error_drain" /\ ~list_busy'
         /\ hist'.sent = hist.sent /\ hist'.answers = hist.answers
         /\ hist'.unwound <=> hist.unwound \/ st.held
         /\ st'.revalidating <=> st.revalidating /\ ~InitialInternal
         /\ ~RequiresAbortOnError \/ InitialInternal
  <2>1. CASE RequiresAbortOnError /\ ~InitialInternal
    BY <2>1, Zenon DEF S2cRouteError, Abort, DiscardPages, TypeOK, ListState
  <2>2. CASE ~(RequiresAbortOnError /\ ~InitialInternal)
    BY <2>2, Zenon DEF S2cRouteError, DiscardPages, TypeOK, ListState, History
  <2> QED
    BY <2>1, <2>2, Zenon
<1>4. hist'.sent = hist.sent /\ hist'.answers = hist.answers
  BY <1>3, Zenon
<1>5. \A id \in ClientIds : Kept(id)
  BY <1>1, <1>2, <1>4, Zenon DEF Kept, AtArm, InHand, FrameInHand, BoundTo,
     ToEmit, OnWire
<1>6. AnswerInv'
  BY <1>1, <1>4, <1>5, KeptPlace, S2cAnswer, Zenon
  DEF ListingInv, AnswerInv, S2cFrame
<1>7. ASSUME BusyInv, ArmInv, BindingInv, InternalInv, ~hist'.unwound
      PROVE  BusyInv' /\ ArmInv' /\ BindingInv' /\ InternalInv'
  <2>1. NoneArmed'
    BY <1>1, <1>7, Zenon DEF ArmInv, NoneArmed, Armed
  <2>2. s2c' = "error_drain" => ~st'.revalidating /\ ~st'.queued /\ ~st'.held
    BY <1>2, <1>3, <1>7, Zenon DEF RequiresAbortOnError, InitialInternal,
       DispatchInv, CollectionInv
  <2>3. BusyInv'
    BY <1>1, <1>2, <1>3, <1>7, <2>1, <2>2, Zenon DEF BusyInv
  <2>4. ArmInv'
    BY <1>1, <2>1, Zenon DEF ArmInv, NoneArmed
  <2>5. BindingInv'
    BY <1>1, <1>2, <1>3, <1>7, <2>2, Zenon DEF BindingInv, FrameInHand
  <2>6. InternalInv'
    BY <1>1, <1>2, <1>4, <1>7, Zenon DEF InternalInv, InternalUnseen, OnWire,
       ToEmit, FrameInHand
  <2> QED
    BY <2>3, <2>4, <2>5, <2>6, Zenon
<1>8. hist.unwound => hist'.unwound
  BY <1>3, Zenon
<1> QED
  BY <1>6, <1>7, <1>8, Zenon DEF ListingInv, OwnerInv

\* A wake-up releases the collection of a cancelled listing.
LEMMA KickKeeps ==
    ASSUME TypeOK, DispatchInv, ListingInv, S2cKick
    PROVE  ListingInv'
<1>1. /\ c2s' = c2s /\ req' = req /\ pending' = pending /\ held' = held
      /\ hist' = hist /\ cur' = cur /\ list_busy' = list_busy
      /\ s2c = "read" /\ s2c' = "resume"
  BY Zenon DEF S2cKick, S2cAt, c2sVars
<1>2. \/ st' = st /\ wire' = wire
      \/ /\ st'.client = None /\ st'.waiting = None
         /\ st'.revalidating = st.revalidating /\ st'.queued = st.queued
         /\ st'.held = st.held
         /\ \A id \in AllIds : id # st.waiting => wire'[id] = wire[id]
         /\ \A id \in AllIds : id = st.waiting => wire'[id] = "none"
         /\ st.client # None
  <2>1. CASE cancelled # None /\ st.client = cancelled
    <3>1. /\ st' = [DiscardPages(st) EXCEPT !.client = None]
          /\ wire' = [id \in AllIds |-> IF id = st.waiting THEN "none"
                                        ELSE wire[id]]
      BY <2>1, Zenon DEF S2cKick
    <3>2. \A id \in AllIds :
            /\ id # st.waiting => wire'[id] = wire[id]
            /\ id = st.waiting => wire'[id] = "none"
      BY <3>1
    <3> QED
      BY <2>1, <3>1, <3>2, Zenon DEF DiscardPages, TypeOK, ListState
  <2>2. CASE ~(cancelled # None /\ st.client = cancelled)
    BY <2>2, Zenon DEF S2cKick
  <2> QED
    BY <2>1, <2>2, Zenon
<1>3. \A id \in ClientIds : wire'[id] = wire[id]
  BY <1>2, FieldTypes, IdsApart, Zenon
<1>4. \A id \in ClientIds : Kept(id)
  BY <1>1, <1>2, <1>3, IdsApart, Zenon DEF Kept, AtArm, InHand, FrameInHand,
     BoundTo, ToEmit, OnWire
<1>5. AnswerInv'
  BY <1>1, <1>3, <1>4, KeptPlace, S2cAnswer, Zenon
  DEF ListingInv, AnswerInv, S2cFrame
<1>6. ASSUME BusyInv, ArmInv, BindingInv, InternalInv
      PROVE  BusyInv' /\ ArmInv' /\ BindingInv' /\ InternalInv'
  <2>1. BusyInv'
    BY <1>1, <1>2, <1>6, Zenon DEF BusyInv, NoneArmed, Armed
  <2>2. ArmInv'
    BY <1>1, <1>2, <1>6, Zenon DEF ArmInv, NoneArmed, NoCollection, Armed
  <2>3. BindingInv'
    BY <1>1, <1>2, <1>6, Zenon DEF BindingInv, Collecting, FrameInHand
  <2>4. InternalInv'
    BY <1>1, <1>2, <1>6, IdsApart, Zenon DEF InternalInv, InternalUnseen,
       OnWire, ToEmit, FrameInHand
  <2> QED
    BY <2>1, <2>2, <2>3, <2>4, Zenon
<1> QED
  BY <1>1, <1>5, <1>6, Zenon DEF ListingInv, OwnerInv

\* The server's end of file ends the session.
LEMMA ServerEofKeeps ==
    ASSUME TypeOK, DispatchInv, ListingInv, S2cEof
    PROVE  ListingInv'
<1>1. /\ c2s' = c2s /\ req' = req /\ pending' = pending /\ held' = held
      /\ wire' = wire /\ hist' = hist /\ st' = st /\ cur' = cur
      /\ list_busy' = list_busy
      /\ s2c = "read" /\ s2c' \in {"read", "failed"}
  BY Zenon DEF S2cEof, S2cAt, c2sVars, Abort
<1>2. \A id \in ClientIds : Kept(id)
  BY <1>1, Zenon DEF Kept, AtArm, InHand, FrameInHand, BoundTo, ToEmit, OnWire
<1>3. AnswerInv'
  BY <1>1, <1>2, KeptPlace, S2cAnswer, Zenon
  DEF ListingInv, AnswerInv, S2cFrame
<1>4. ASSUME BusyInv, ArmInv, BindingInv, InternalInv
      PROVE  BusyInv' /\ ArmInv' /\ BindingInv' /\ InternalInv'
  <2>1. BusyInv'
    BY <1>1, <1>4, Zenon DEF BusyInv, NoneArmed, Armed
  <2>2. ArmInv'
    BY <1>1, <1>4, Zenon DEF ArmInv, NoneArmed, NoCollection, Armed
  <2>3. BindingInv'
    BY <1>1, <1>4, Zenon DEF BindingInv, Collecting, FrameInHand
  <2>4. InternalInv'
    BY <1>1, <1>4, Zenon DEF InternalInv, InternalUnseen, OnWire, ToEmit,
       FrameInHand
  <2> QED
    BY <2>1, <2>2, <2>3, <2>4, Zenon
<1> QED
  BY <1>1, <1>3, <1>4, Zenon DEF ListingInv, OwnerInv

\* A revalidation that starts behind the raised gate, when nobody owns it.
Starts(s) ==
    /\ c2s' = c2s /\ req' = req /\ pending' = pending /\ held' = held
    /\ cur' = cur
    /\ hist'.sent = hist.sent /\ hist'.answers = hist.answers
    /\ hist'.unwound = hist.unwound
    /\ s2c \in {"probe", "read", "resume"}
    /\ s.client = None /\ st.client = None
    /\ Begun(s)

LEMMA StartKeeps ==
    ASSUME TypeOK, ListingInv, NEW s, Starts(s),
           ~hist.unwound => NoneArmed /\ st.waiting = None /\ list_busy'
    PROVE  ListingInv'
<1>1. PICK k \in InternalIds :
        /\ st'.client = s.client /\ st'.waiting = k /\ st'.revalidating
        /\ st'.queued = s.queued /\ st'.held = s.held
        /\ SentUnder(k)
  BY Zenon DEF Starts, Begun
<1>2. /\ s2c' \in {"read", "failed"}
      /\ \A id \in AllIds : id # k => wire'[id] = wire[id]
      /\ s2c' = "failed" => wire' = wire
  BY <1>1, Zenon DEF SentUnder
<1>3. \A id \in ClientIds : wire'[id] = wire[id]
  BY <1>2, IdsApart, Zenon
<1>4. \A id \in ClientIds : Kept(id)
  BY <1>1, <1>2, <1>3, IdsApart, Zenon DEF Starts, Kept, AtArm, InHand,
     FrameInHand, BoundTo, ToEmit, OnWire
<1>5. AnswerInv'
  BY <1>3, <1>4, KeptPlace, S2cAnswer, Zenon
  DEF ListingInv, AnswerInv, S2cFrame, Starts
<1>6. ASSUME BusyInv, ArmInv, BindingInv, InternalInv, ~hist.unwound
      PROVE  BusyInv' /\ ArmInv' /\ BindingInv' /\ InternalInv'
  <2>1. NoneArmed'
    BY <1>6, Zenon DEF Starts, NoneArmed, Armed
  <2>2. BusyInv'
    BY <1>1, <1>2, <1>6, <2>1, Zenon DEF BusyInv
  <2>3. ArmInv'
    BY <1>1, <1>2, <2>1, Zenon DEF ArmInv, NoneArmed
  <2>4. BindingInv'
    BY <1>1, <1>2, Zenon DEF Starts, BindingInv, Collecting, FrameInHand
  <2>5. InternalInv'
    <3>1. \A i \in InternalIds : ~OnWire(i)
      BY <1>6, IdsApart, Zenon DEF InternalInv, InternalUnseen
    <3>2. \A i \in InternalIds : OnWire(i)' => st'.waiting = i
      BY <1>1, <1>2, <3>1, IdsApart, Zenon DEF OnWire
    <3> QED
      BY <1>1, <1>2, <1>6, <3>2, IdsApart, Zenon
      DEF Starts, InternalInv, InternalUnseen, ToEmit, FrameInHand
  <2> QED
    BY <2>2, <2>3, <2>4, <2>5, Zenon
<1> QED
  BY <1>5, <1>6, Zenon DEF ListingInv, OwnerInv, Starts

\* A step of S2C back to reading that changes no listing, with the gate up or
\* as it was.
Resumes ==
    /\ c2s' = c2s /\ req' = req /\ pending' = pending /\ held' = held
    /\ wire' = wire /\ hist' = hist /\ st' = st /\ cur' = cur
    /\ list_busy => list_busy'
    /\ s2c \in {"probe", "resume"} /\ s2c' = "read"

LEMMA ResumesKeep ==
    ASSUME TypeOK, ListingInv, Resumes
    PROVE  ListingInv'
<1>1. \A id \in ClientIds : Kept(id)
  BY Zenon DEF Resumes, Kept, AtArm, InHand, FrameInHand, BoundTo, ToEmit,
     OnWire
<1>2. AnswerInv'
  BY <1>1, KeptPlace, S2cAnswer, Zenon
  DEF ListingInv, AnswerInv, S2cFrame, Resumes
<1>3. ASSUME BusyInv, ArmInv, BindingInv, InternalInv
      PROVE  BusyInv' /\ ArmInv' /\ BindingInv' /\ InternalInv'
  <2>1. BusyInv'
    BY <1>3, Zenon DEF Resumes, BusyInv, NoneArmed, Armed
  <2>2. ArmInv'
    BY <1>3, Zenon DEF Resumes, ArmInv, NoneArmed, NoCollection, Armed
  <2>3. BindingInv'
    BY <1>3, Zenon DEF Resumes, BindingInv, Collecting, FrameInHand
  <2>4. InternalInv'
    BY <1>3, Zenon DEF Resumes, InternalInv, InternalUnseen, OnWire, ToEmit,
       FrameInHand
  <2> QED
    BY <2>1, <2>2, <2>3, <2>4, Zenon
<1> QED
  BY <1>2, <1>3, Zenon DEF ListingInv, OwnerInv, Resumes

\* The initial internal listing takes a free gate.
LEMMA ProbeKeeps ==
    ASSUME TypeOK, DispatchInv, ListingInv, S2cProbe
    PROVE  ListingInv'
<1>1. /\ c2s' = c2s /\ req' = req /\ pending' = pending /\ held' = held
      /\ hist' = hist /\ cur' = cur /\ s2c = "probe"
  BY Zenon DEF S2cProbe, S2cAt, c2sVars
<1>2. CASE Idle /\ list_busy' /\ ~list_busy /\ BeginRevalidation(st)
  <2>1. Begun(st)
    BY <1>2, BeginEffect, Zenon DEF TypeOK
  <2>2. Starts(st)
    BY <1>1, <1>2, <2>1, Zenon DEF Starts, Idle
  <2>3. ~hist.unwound => NoneArmed /\ st.waiting = None /\ list_busy'
    BY <1>2, Zenon DEF ListingInv, OwnerInv, BusyInv, Idle
  <2> QED
    BY <2>2, <2>3, StartKeeps, Zenon
<1>3. CASE /\ s2c' = "read" /\ wire' = wire /\ st' = st
           /\ list_busy => list_busy'
  <2>1. Resumes
    BY <1>1, <1>3, Zenon DEF Resumes
  <2> QED
    BY <2>1, ResumesKeep, Zenon
<1> QED
  BY <1>2, <1>3 DEF S2cProbe, RaiseListGate, NoRevalidation, TypeOK

\* A wake-up leaves the gate to its owner, starts the queued revalidation, or
\* lowers the gate nobody owns.
LEMMA ResumeKeeps ==
    ASSUME TypeOK, DispatchInv, ListingInv, S2cResume
    PROVE  ListingInv'
<1>1. /\ c2s' = c2s /\ req' = req /\ pending' = pending /\ held' = held
      /\ cur' = cur /\ s2c = "resume"
  BY Zenon DEF S2cResume, S2cAt, c2sVars
<1>2. CASE /\ s2c' = "read" /\ wire' = wire /\ st' = st /\ hist' = hist
           /\ list_busy' = list_busy
  <2>1. Resumes
    BY <1>1, <1>2, Zenon DEF Resumes
  <2> QED
    BY <2>1, ResumesKeep, Zenon
<1>3. CASE /\ ~ListingInProgress /\ st.queued
           /\ BeginRevalidation([st EXCEPT !.queued = FALSE])
           /\ hist' = [hist EXCEPT !.stale = FALSE]
           /\ list_busy' = list_busy
  <2> DEFINE s == [st EXCEPT !.queued = FALSE]
  <2>1. s \in ListState /\ s.client = st.client /\ s.held = st.held
    BY Zenon DEF TypeOK, ListState
  <2>2. BeginRevalidation(s)
    BY <1>3, Zenon
  <2> HIDE DEF s
  <2>3. Begun(s)
    BY <2>1, <2>2, BeginEffect, Zenon
  <2>4. /\ hist'.sent = hist.sent /\ hist'.answers = hist.answers
        /\ hist'.unwound = hist.unwound
    BY <1>3, Zenon DEF TypeOK, History
  <2>5. st.client = None /\ st.waiting = None /\ pending = {}
    BY <1>3, Zenon DEF ListingInProgress, Idle
  <2>6. Starts(s)
    BY <1>1, <2>1, <2>3, <2>4, <2>5, Zenon DEF Starts
  <2>7. ~hist.unwound => NoneArmed /\ st.waiting = None /\ list_busy'
    BY <1>3, <2>5, Zenon DEF ListingInv, OwnerInv, BusyInv, NoneArmed, Armed
  <2> QED
    BY <2>6, <2>7, StartKeeps, Zenon
<1>4. CASE /\ ~ListingInProgress /\ ~st.queued /\ list_busy' = FALSE
           /\ s2c' = "resume_drain" /\ wire' = wire /\ st' = st
           /\ hist' = hist
  <2>1. NoCollection /\ pending = {}
    BY <1>4, Zenon DEF ListingInProgress, Idle, NoCollection
  <2>2. NoneArmed'
    BY <1>1, <2>1, Zenon DEF NoneArmed, Armed
  <2>3. \A id \in ClientIds : Kept(id)
    BY <1>1, <1>4, Zenon DEF Kept, AtArm, InHand, FrameInHand, BoundTo,
       ToEmit, OnWire
  <2>4. AnswerInv'
    BY <1>1, <1>4, <2>3, KeptPlace, S2cAnswer, Zenon
    DEF ListingInv, AnswerInv, S2cFrame
  <2>5. ASSUME BusyInv, ArmInv, BindingInv, InternalInv
        PROVE  BusyInv' /\ ArmInv' /\ BindingInv' /\ InternalInv'
    <3>1. BusyInv'
      BY <1>1, <1>4, <2>1, <2>2, <2>5, Zenon DEF BusyInv, NoCollection
    <3>2. ArmInv'
      BY <1>1, <1>4, <2>2, Zenon DEF ArmInv, NoneArmed
    <3>3. BindingInv'
      BY <1>1, <1>4, <2>1, Zenon DEF BindingInv, NoCollection, FrameInHand
    <3>4. InternalInv'
      BY <1>1, <1>4, <2>1, <2>5, IdsApart, Zenon DEF InternalInv,
         InternalUnseen, OnWire, ToEmit, FrameInHand, NoCollection
    <3> QED
      BY <3>1, <3>2, <3>3, <3>4, Zenon
  <2> QED
    BY <1>4, <2>4, <2>5, Zenon DEF ListingInv, OwnerInv
<1> QED
  BY <1>2, <1>3, <1>4, Zenon DEF S2cResume, NoRevalidation

\* A list_changed notification raises the gate and starts a revalidation, or
\* queues it behind the owner of the gate.
LEMMA ListChangedKeeps ==
    ASSUME TypeOK, DispatchInv, ListingInv, S2cListChanged
    PROVE  ListingInv'
<1>1. /\ c2s' = c2s /\ req' = req /\ pending' = pending /\ held' = held
      /\ cur' = cur /\ s2c = "read" /\ list_busy'
  BY Zenon DEF S2cListChanged, S2cAt, c2sVars, RaiseListGate
<1>2. /\ hist'.sent = hist.sent /\ hist'.answers = hist.answers
      /\ hist'.unwound = hist.unwound
  BY Zenon DEF S2cListChanged, TypeOK, History
<1>3. CASE InFlight(list_busy)
  <2>1. st' = [st EXCEPT !.held = TRUE, !.queued = TRUE]
    BY <1>3, Zenon DEF S2cListChanged
  <2>2. /\ wire' = wire /\ s2c' = s2c
        /\ st'.client = st.client /\ st'.waiting = st.waiting
        /\ st'.revalidating = st.revalidating /\ st'.queued /\ st'.held
    BY <1>3, <2>1, Zenon DEF S2cListChanged, NoRevalidation, TypeOK, ListState
  <2>3. \A id \in ClientIds : Kept(id)
    BY <1>1, <1>2, <2>2, Zenon DEF Kept, AtArm, InHand, FrameInHand, BoundTo,
       ToEmit, OnWire
  <2>4. AnswerInv'
    BY <1>1, <1>2, <2>2, <2>3, KeptPlace, S2cAnswer, Zenon
    DEF ListingInv, AnswerInv, S2cFrame
  <2>5. ASSUME BusyInv, ArmInv, BindingInv, InternalInv
        PROVE  BusyInv' /\ ArmInv' /\ BindingInv' /\ InternalInv'
    <3>1. BusyInv'
      BY <1>1, <2>2, Zenon DEF BusyInv
    <3>2. ArmInv'
      BY <1>1, <2>2, <2>5, Zenon DEF ArmInv, NoneArmed, NoCollection, Armed
    <3>3. BindingInv'
      BY <1>1, <2>2, <2>5, Zenon DEF BindingInv, Collecting, FrameInHand
    <3>4. InternalInv'
      BY <1>1, <1>2, <2>2, <2>5, Zenon DEF InternalInv, InternalUnseen,
         OnWire, ToEmit, FrameInHand
    <3> QED
      BY <3>1, <3>2, <3>3, <3>4, Zenon
  <2> QED
    BY <1>2, <2>4, <2>5, Zenon DEF ListingInv, OwnerInv
<1>4. CASE ~InFlight(list_busy)
  <2> DEFINE s == [st EXCEPT !.held = TRUE]
  <2>1. s \in ListState /\ s.client = st.client
    BY Zenon DEF TypeOK, ListState
  <2>2. BeginRevalidation(s)
    BY <1>4, Zenon DEF S2cListChanged
  <2> HIDE DEF s
  <2>3. Begun(s)
    BY <2>1, <2>2, BeginEffect, Zenon
  <2>4. st.client = None /\ st.waiting = None /\ ~list_busy
    BY <1>4, Zenon DEF InFlight
  <2>5. Starts(s)
    BY <1>1, <1>2, <2>1, <2>3, <2>4, Zenon DEF Starts
  <2>6. ~hist.unwound => NoneArmed /\ st.waiting = None /\ list_busy'
    BY <1>1, <2>4, Zenon DEF ListingInv, OwnerInv, BusyInv
  <2> QED
    BY <2>5, <2>6, StartKeeps, Zenon
<1> QED
  BY <1>3, <1>4, Zenon

\* The request for the next page goes out.
LEMMA NextPageKeeps ==
    ASSUME TypeOK, DispatchInv, ListingInv, S2cNextPage
    PROVE  ListingInv'
<1>1. /\ c2s' = c2s /\ req' = req /\ pending' = pending /\ held' = held
      /\ hist' = hist /\ cur' = cur /\ list_busy' = list_busy /\ s2c = "next"
  BY Zenon DEF S2cNextPage, S2cAt, S2cUnchanged, c2sVars
<1>2. PICK k \in InternalIds :
        /\ st' = [st EXCEPT !.waiting = k]
        /\ SendInternal(k) \/ (Abort("unanswered") /\ UNCHANGED wire)
  BY Zenon DEF S2cNextPage
<1>3. SentUnder(k)
  BY <1>2, SendEffect, Zenon
<1>4. /\ st'.client = st.client /\ st'.waiting = k
      /\ st'.revalidating = st.revalidating /\ st'.queued = st.queued
      /\ st'.held = st.held
  BY <1>2, Zenon DEF TypeOK, ListState
<1>5. /\ s2c' \in {"read", "failed"}
      /\ \A id \in AllIds : id # k => wire'[id] = wire[id]
  BY <1>3, Zenon DEF SentUnder
<1>6. \A id \in ClientIds : wire'[id] = wire[id]
  BY <1>5, IdsApart, Zenon
<1>7. \A id \in ClientIds : Kept(id)
  BY <1>1, <1>4, <1>5, <1>6, Zenon DEF Kept, AtArm, InHand, FrameInHand,
     BoundTo, ToEmit, OnWire
<1>8. AnswerInv'
  BY <1>1, <1>6, <1>7, KeptPlace, S2cAnswer, Zenon
  DEF ListingInv, AnswerInv, S2cFrame
<1>9. ASSUME BusyInv, ArmInv, BindingInv, InternalInv
      PROVE  BusyInv' /\ ArmInv' /\ BindingInv' /\ InternalInv'
  <2>1. NoneArmed' /\ list_busy'
    BY <1>1, <1>9, Zenon DEF BusyInv, ArmInv, NoneArmed, Armed
  <2>2. BusyInv'
    BY <1>1, <1>4, <1>5, <1>9, <2>1, Zenon DEF BusyInv
  <2>3. ArmInv'
    BY <1>5, <2>1, Zenon DEF ArmInv, NoneArmed
  <2>4. BindingInv'
    BY <1>1, <1>4, <1>5, <1>9, Zenon DEF BindingInv, Collecting, FrameInHand
  <2>5. InternalInv'
    <3>1. \A i \in InternalIds : OnWire(i)' => st'.waiting = i
      BY <1>1, <1>4, <1>5, <1>9, IdsApart, Zenon
      DEF InternalInv, InternalUnseen, OnWire
    <3> QED
      BY <1>1, <1>4, <1>5, <1>9, <3>1, Zenon
      DEF InternalInv, InternalUnseen, ToEmit, FrameInHand
  <2> QED
    BY <2>2, <2>3, <2>4, <2>5, Zenon
<1> QED
  BY <1>1, <1>8, <1>9, Zenon DEF ListingInv, OwnerInv

\* The frame f that answers a tracked listing takes its wire entry; S2C has it
\* in hand unless the listing was cancelled.
Takes(x) ==
    /\ c2s' = c2s /\ req' = req /\ pending' = pending /\ held' = held
    /\ hist' = hist /\ st' = st /\ list_busy' = list_busy /\ s2c = "read"
    /\ OnWire(x) /\ wire[x] # "registered"
    /\ wire'[x] = "none"
    /\ \A id \in AllIds : id # x => wire'[id] = wire[id]
    /\ \/ /\ x \in ClientIds \ pending
          /\ s2c' = s2c /\ cur' = cur
       \/ /\ x \notin ClientIds \ pending
          /\ s2c' \in {"route", "rejected"}
          /\ cur'.id = x
          /\ cur'.internal <=> x = st.waiting

LEMMA TakeKeeps ==
    ASSUME TypeOK, ListingInv, NEW x \in AllIds, Takes(x)
    PROVE  ListingInv'
<1>1. s2c' # "failed" /\ s2c # "failed"
  BY Zenon DEF Takes
<1>2. \A id \in ClientIds : id # x => Kept(id)
  BY IdsApart, Zenon DEF Takes, Kept, AtArm, InHand, FrameInHand, BoundTo,
     ToEmit, OnWire
<1>3. x \in ClientIds => OnePlace(x)'
  <2>1. SUFFICES ASSUME x \in ClientIds PROVE OnePlace(x)'
    BY Zenon
  <2>2. OnePlace(x)
    BY <2>1, Zenon DEF ListingInv, AnswerInv
  <2>3. OnWire(x) /\ ~OnWire(x)' /\ ~AtArm(x) /\ held # x /\ x \in hist.sent
    BY <2>2, Zenon DEF Takes, OnePlace, Placed, OnWire
  <2>4. ~AtArm(x)' /\ held' # x /\ hist' = hist
    BY <2>3, Zenon DEF Takes, AtArm
  <2> QED
    BY <1>1, <2>2, <2>3, <2>4, MovedPlace, Zenon
<1>4. AnswerInv'
  <2>1. S2cFrame
    BY IdsApart, Zenon DEF Takes, S2cFrame
  <2> QED
    BY <1>2, <1>3, <2>1, KeptPlace, S2cAnswer, Zenon
    DEF ListingInv, AnswerInv
<1>5. ASSUME BusyInv, ArmInv, BindingInv, InternalInv
      PROVE  BusyInv' /\ ArmInv' /\ BindingInv' /\ InternalInv'
  <2>1. \A id \in ClientIds : Armed(id)' <=> Armed(id)
    BY Zenon DEF Takes, Armed
  <2>2. CASE x \in ClientIds \ pending
    <3>1. s2c' = "read" /\ cur' = cur
      BY <2>2, Zenon DEF Takes
    <3>2. BusyInv' /\ ArmInv'
      BY <1>5, <2>1, <3>1, Zenon DEF Takes, BusyInv, ArmInv, NoneArmed,
         NoCollection
    <3>3. BindingInv'
      BY <1>5, <3>1, Zenon DEF Takes, BindingInv, Collecting, FrameInHand
    <3>4. InternalInv'
      BY <1>5, <2>2, <3>1, IdsApart, Zenon DEF Takes, InternalInv,
         InternalUnseen, OnWire, ToEmit, FrameInHand
    <3> QED
      BY <3>2, <3>3, <3>4, Zenon
  <2>3. CASE x \in pending
    <3>1. x \in ClientIds /\ x # st.waiting
      BY <2>3, FieldTypes, IdsApart, Zenon DEF TypeOK
    <3>2. /\ s2c' \in {"route", "rejected"} /\ cur'.id = x /\ ~cur'.internal
      BY <2>3, <3>1, Zenon DEF Takes
    <3>3. Armed(x)
      BY <2>3, <3>1, Zenon DEF Takes, ListingInv, AnswerInv, OnePlace, AtArm,
         Armed
    <3>4. NoCollection /\ list_busy
      BY <1>5, <3>1, <3>3, Zenon DEF Takes, BusyInv, ArmInv, NoneArmed
    <3>5. BusyInv'
      BY <1>5, <3>2, <3>4, Zenon DEF Takes, BusyInv
    <3>6. ArmInv'
      BY <1>5, <2>1, <3>1, <3>2, <3>3, <3>4, Zenon DEF Takes, ArmInv,
         NoCollection
    <3>7. BindingInv'
      BY <1>5, <3>1, <3>2, <3>4, IdsApart, Zenon DEF Takes, BindingInv,
         NoCollection
    <3>8. InternalInv'
      BY <1>5, <3>1, <3>2, <3>4, IdsApart, Zenon DEF Takes, InternalInv,
         InternalUnseen, OnWire, ToEmit, NoCollection
    <3> QED
      BY <3>5, <3>6, <3>7, <3>8, Zenon
  <2>4. CASE x \in InternalIds
    <3>1. st.waiting = x /\ x # None /\ x \notin ClientIds
      BY <1>5, <2>4, IdsApart, Zenon DEF Takes, InternalInv, InternalUnseen
    <3>2. s2c' \in {"route", "rejected"} /\ cur'.id = x /\ cur'.internal
      BY <3>1, Zenon DEF Takes
    <3>3. list_busy /\ NoneArmed
      BY <1>5, <3>1, Zenon DEF Takes, BusyInv, ArmInv, NoCollection
    <3>4. BusyInv'
      BY <1>5, <3>2, <3>3, Zenon DEF Takes, BusyInv
    <3>5. ArmInv'
      BY <2>1, <3>2, <3>3, Zenon DEF ArmInv, NoneArmed
    <3>6. BindingInv'
      BY <1>5, <3>1, <3>2, Zenon DEF Takes, BindingInv, Collecting
    <3>7. \A k \in InternalIds : ~OnWire(k)'
      BY <1>5, <3>1, IdsApart, Zenon DEF Takes, InternalInv, InternalUnseen,
         OnWire
    <3>8. InternalInv'
      BY <1>5, <3>1, <3>2, <3>7, Zenon DEF Takes, InternalInv,
         InternalUnseen, ToEmit
    <3> QED
      BY <3>4, <3>5, <3>6, <3>8, Zenon
  <2> QED
    BY <2>2, <2>3, <2>4, Zenon DEF AllIds
<1> QED
  BY <1>4, <1>5, Zenon DEF ListingInv, OwnerInv, Takes

\* A response to a tracked listing.
LEMMA ResponseKeeps ==
    ASSUME TypeOK, DispatchInv, ListingInv, S2cResponse
    PROVE  ListingInv'
<1>1. PICK f \in ServerFrames :
         /\ Outstanding(f.id)
         /\ wire' = [wire EXCEPT ![f.id] = "none"]
         /\ IF f.id \in ClientIds \ pending
            THEN UNCHANGED s2cVars
            ELSE /\ s2c' = IF f.kind = "rejected" THEN "rejected" ELSE "route"
                 /\ cur' = [cur EXCEPT !.id = f.id, !.kind = f.kind,
                                       !.tools = f.tools,
                                       !.internal = (f.id = st.waiting)]
  BY Zenon DEF S2cResponse
<1>2. /\ c2s' = c2s /\ req' = req /\ pending' = pending /\ held' = held
      /\ hist' = hist /\ st' = st /\ list_busy' = list_busy /\ s2c = "read"
  BY Zenon DEF S2cResponse, S2cAt, c2sVars
<1> DEFINE x == f.id
<1>3. x \in AllIds
  BY ServerFrameType, Zenon
<1>4. /\ wire'[x] = "none"
      /\ \A id \in AllIds : id # x => wire'[id] = wire[id]
  BY <1>1, <1>3, Zenon DEF TypeOK
<1>5. OnWire(x) /\ wire[x] # "registered"
  BY <1>1 DEF Outstanding, OnWire
<1>6. CASE x \in ClientIds \ pending
  <2>1. s2c' = s2c /\ cur' = cur
    BY <1>1, <1>6, Zenon DEF s2cVars
  <2>2. Takes(x)
    BY <1>2, <1>4, <1>5, <1>6, <2>1, Zenon DEF Takes
  <2> QED
    BY <1>3, <2>2, TakeKeeps, Zenon
<1>7. CASE x \notin ClientIds \ pending
  <2>1. /\ s2c' \in {"route", "rejected"}
        /\ cur' = [cur EXCEPT !.id = f.id, !.kind = f.kind, !.tools = f.tools,
                              !.internal = (f.id = st.waiting)]
    BY <1>1, <1>7, Zenon
  <2>2. cur'.id = x /\ (cur'.internal <=> x = st.waiting)
    BY <2>1, Zenon DEF TypeOK, Locals
  <2>3. Takes(x)
    BY <1>2, <1>4, <1>5, <1>7, <2>1, <2>2, Zenon DEF Takes
  <2> QED
    BY <1>3, <2>3, TakeKeeps, Zenon
<1> QED
  BY <1>6, <1>7, Zenon

\* The held listing is answered and taken.
DrainsHeld ==
    /\ c2s' = c2s /\ req' = req /\ pending' = pending /\ wire' = wire
    /\ cur' = cur /\ list_busy' = list_busy
    /\ held' = None /\ Counted(hist, hist', held)
    /\ s2c \in {"resume_drain", "drain"} /\ s2c' = "read"
    /\ st'.client = st.client /\ st'.waiting = st.waiting
    /\ st'.revalidating = st.revalidating /\ st'.queued = st.queued
    /\ st'.held => st.held /\ s2c # "drain"

LEMMA DrainHeldKeeps ==
    ASSUME TypeOK, DispatchInv, ListingInv, DrainsHeld
    PROVE  ListingInv'
<1>1. held \in ClientIds \cup {None} /\ hist'.sent = hist.sent
  BY Zenon DEF TypeOK, DrainsHeld, Counted
<1>2. \A id \in ClientIds : id # held => Kept(id)
  BY IdsApart, Zenon DEF DrainsHeld, Kept, AtArm, InHand, FrameInHand,
     BoundTo, ToEmit, OnWire, Counted
<1>3. ASSUME NEW id \in ClientIds, id = held
      PROVE  OnePlace(id)'
  <2>1. OnePlace(id)
    BY Zenon DEF ListingInv, AnswerInv
  <2>2. ~AtArm(id) /\ ~OnWire(id) /\ ~BoundTo(id) /\ ~Answered(id)
    BY <1>3, <2>1, Zenon DEF OnePlace
  <2>3. id \in hist'.sent
    BY <1>1, <1>3, <2>1, Zenon DEF OnePlace, Placed
  <2>4. hist'.answers[id] < 2 /\ held' # id
    BY <2>2, IdsApart, Zenon DEF DrainsHeld, Counted, Answered
  <2>5. ~AtArm(id)' /\ ~OnWire(id)' /\ ~InHand(id)' /\ ~BoundTo(id)'
    BY <2>2, Zenon DEF DrainsHeld, AtArm, OnWire, InHand, FrameInHand,
       BoundTo, ToEmit
  <2> QED
    BY <2>3, <2>4, <2>5, AnsweredPlace, Zenon
<1>4. AnswerInv'
  BY <1>1, <1>2, <1>3, KeptPlace, S2cAnswer, Zenon
  DEF ListingInv, AnswerInv, S2cFrame, DrainsHeld
<1>5. ASSUME BusyInv, ArmInv, BindingInv, InternalInv
      PROVE  BusyInv' /\ ArmInv' /\ BindingInv' /\ InternalInv'
  <2>1. BusyInv'
    BY <1>5, Zenon DEF DrainsHeld, BusyInv, NoneArmed, Armed
  <2>2. ArmInv'
    BY <1>5, Zenon DEF DrainsHeld, ArmInv, NoneArmed, NoCollection, Armed
  <2>3. BindingInv'
    BY <1>5, Zenon DEF DrainsHeld, BindingInv, Collecting, FrameInHand
  <2>4. \A k \in InternalIds : hist'.answers[k] = hist.answers[k]
    BY <1>1, IdsApart, Zenon DEF DrainsHeld, Counted
  <2>5. \A k \in InternalIds : ~OnWire(k)'
    BY <1>5, Zenon DEF DrainsHeld, InternalInv, InternalUnseen, OnWire
  <2>6. InternalInv'
    BY <1>5, <2>4, <2>5, Zenon DEF DrainsHeld, InternalInv, InternalUnseen,
       ToEmit, FrameInHand
  <2> QED
    BY <2>1, <2>2, <2>3, <2>6, Zenon
<1> QED
  BY <1>4, <1>5, Zenon DEF ListingInv, OwnerInv, DrainsHeld, Counted

\* The drains after a lowered gate and after a verified listing.
LEMMA DrainKeeps ==
    ASSUME TypeOK, DispatchInv, ListingInv, S2cResumeDrain \/ S2cDrain
    PROVE  ListingInv'
<1>1. Counted(hist, hist', held)
  <2>1. hist \in History /\ held \in Ids
    BY Zenon DEF TypeOK, Ids, AllIds
  <2>2. hist' = Answer(hist, held)
    BY Zenon DEF S2cResumeDrain, S2cDrain
  <2> QED
    BY <2>1, <2>2, AnswerCounts, Zenon
<1>2. CASE S2cResumeDrain
  <2>1. DrainsHeld
    BY <1>1, <1>2, Zenon DEF S2cResumeDrain, S2cAt, c2sVars, DrainsHeld
  <2> QED
    BY <2>1, DrainHeldKeeps, Zenon
<1>3. CASE S2cDrain
  <2>1. /\ st'.client = st.client /\ st'.waiting = st.waiting
        /\ st'.revalidating = st.revalidating /\ st'.queued = st.queued
        /\ ~st'.held
    BY <1>3, Zenon DEF S2cDrain, TypeOK, ListState
  <2>2. DrainsHeld
    BY <1>1, <1>3, <2>1, Zenon DEF S2cDrain, S2cAt, S2cUnchanged, c2sVars,
       DrainsHeld
  <2> QED
    BY <2>2, DrainHeldKeeps, Zenon
<1> QED
  BY <1>2, <1>3, Zenon

\* The error drain answers the held listing and the one of the collection.
LEMMA ErrorDrainKeeps ==
    ASSUME TypeOK, DispatchInv, ListingInv, S2cErrorDrain
    PROVE  ListingInv'
<1> DEFINE y == ClientFacing(st.client, cur.id, cur.internal)
<1>1. /\ c2s' = c2s /\ req' = req /\ pending' = pending /\ wire' = wire
      /\ cur' = cur /\ list_busy' = list_busy /\ held' = None
      /\ s2c = "error_drain" /\ s2c' = "read"
  BY Zenon DEF S2cErrorDrain, S2cAt, S2cUnchanged, c2sVars
<1>2. /\ st'.client = None /\ st'.waiting = st.waiting
      /\ st'.revalidating = st.revalidating /\ st'.queued = st.queued
      /\ st'.held = st.held
  BY Zenon DEF S2cErrorDrain, TypeOK, ListState
<1>3. /\ hist \in History /\ held \in Ids /\ y \in Ids
      /\ held \in ClientIds \cup {None}
  BY FieldTypes, ClientFacingType, Zenon DEF TypeOK, Ids, AllIds
<1>4. hist' = Answer(Answer(hist, held), y)
  BY Zenon DEF S2cErrorDrain
<1>5. y # None => InHand(y) \/ BoundTo(y)
  BY <1>1, Zenon DEF ClientFacing, InHand, FrameInHand, BoundTo
<1>6. y # None => y = st.client \/ (y = cur.id /\ ~cur.internal)
  BY Zenon DEF ClientFacing
<1> HIDE DEF y
<1>7. held = None \/ held # y
  BY <1>3, <1>5, Zenon DEF ListingInv, AnswerInv, OnePlace
<1>8. CountedTwice(hist, hist', held, y)
  BY <1>3, <1>4, <1>7, AnswerTwice, Zenon
<1>9. hist'.sent = hist.sent
  BY <1>8, Zenon DEF CountedTwice
<1>10. \A id \in ClientIds : id # held /\ id # y => Kept(id)
  BY <1>1, <1>2, <1>8, IdsApart, Zenon DEF Kept, AtArm, InHand, FrameInHand,
     BoundTo, ToEmit, OnWire, CountedTwice
<1>11. ASSUME NEW id \in ClientIds, id = held \/ id = y
       PROVE  OnePlace(id)'
  <2>1. OnePlace(id)
    BY Zenon DEF ListingInv, AnswerInv
  <2>2. ~AtArm(id) /\ ~OnWire(id) /\ ~Answered(id)
    <3>1. CASE id = held
      BY <2>1, <3>1, Zenon DEF OnePlace
    <3>2. CASE id = y
      BY <1>1, <1>5, <2>1, <3>2, IdsApart, Zenon DEF OnePlace
    <3> QED
      BY <1>11, <3>1, <3>2, Zenon
  <2>3. id \in hist'.sent
    BY <1>5, <1>9, <1>11, <2>1, IdsApart, Zenon DEF OnePlace, Placed
  <2>4. hist'.answers[id] < 2 /\ held' # id
    BY <1>1, <1>8, <2>2, IdsApart, Zenon DEF CountedTwice, Answered
  <2>5. ~AtArm(id)' /\ ~OnWire(id)' /\ ~InHand(id)' /\ ~BoundTo(id)'
    BY <1>1, <1>2, <2>2, IdsApart, Zenon DEF AtArm, OnWire, InHand,
       FrameInHand, BoundTo, ToEmit
  <2> QED
    BY <2>3, <2>4, <2>5, AnsweredPlace, Zenon
<1>12. AnswerInv'
  BY <1>1, <1>9, <1>10, <1>11, KeptPlace, S2cAnswer, Zenon
  DEF ListingInv, AnswerInv, S2cFrame
<1>13. ASSUME BusyInv, ArmInv, BindingInv, InternalInv
       PROVE  BusyInv' /\ ArmInv' /\ BindingInv' /\ InternalInv'
  <2>1. st.waiting = None /\ ~st.revalidating
    BY <1>1, <1>13, Zenon DEF BindingInv, DispatchInv, CollectionInv
  <2>2. BusyInv'
    BY <1>1, <1>2, <1>13, <2>1, Zenon DEF BusyInv, NoneArmed, Armed
  <2>3. ArmInv'
    BY <1>1, <1>2, <1>13, <2>1, Zenon DEF ArmInv, NoneArmed, NoCollection,
       Armed
  <2>4. BindingInv'
    BY <1>1, <1>2, <2>1, Zenon DEF BindingInv, FrameInHand
  <2>5. \A k \in InternalIds : k # y
    BY <1>1, <1>6, <1>13, IdsApart, Zenon DEF InternalInv, InternalUnseen,
       FrameInHand
  <2>6. \A k \in InternalIds : hist'.answers[k] = hist.answers[k]
    BY <1>3, <1>8, <2>5, IdsApart, Zenon DEF CountedTwice
  <2>7. \A k \in InternalIds : ~OnWire(k)'
    BY <1>1, <1>13, Zenon DEF InternalInv, InternalUnseen, OnWire
  <2>8. InternalInv'
    BY <1>1, <1>2, <1>13, <2>6, <2>7, IdsApart, Zenon DEF InternalInv,
       InternalUnseen, ToEmit, FrameInHand
  <2> QED
    BY <2>2, <2>3, <2>4, <2>8, Zenon
<1> QED
  BY <1>8, <1>12, <1>13, Zenon DEF ListingInv, OwnerInv, CountedTwice

\* One listing that is on the wire, in hand or bound gets its answer.
AnswersOne(x) ==
    /\ S2cFrame /\ Counted(hist, hist', x) /\ held' \in {held, None}
    /\ s2c # "failed"
    /\ \A id \in ClientIds : id # x => Kept(id)
    /\ x \in ClientIds => OnWire(x) \/ InHand(x) \/ BoundTo(x)
    /\ \/ x \notin ClientIds \/ s2c' = "failed"
       \/ ~OnWire(x)' /\ ~InHand(x)' /\ ~BoundTo(x)'

LEMMA OneAnswerKeeps ==
    ASSUME TypeOK, AnswerInv, NEW x, AnswersOne(x)
    PROVE  AnswerInv'
<1>1. ASSUME x \in ClientIds
      PROVE  OnePlace(x)'
  <2>1. OnePlace(x)
    BY <1>1, Zenon DEF AnswerInv
  <2>2. ~AtArm(x) /\ held # x /\ ~Answered(x) /\ x \in hist.sent
    BY <1>1, <2>1, Zenon DEF AnswersOne, OnePlace, Placed
  <2>3. hist'.answers[x] < 2 /\ held' # x /\ x \in hist'.sent
    BY <1>1, <2>2, IdsApart, Zenon DEF AnswersOne, Counted, Answered
  <2>4. ~AtArm(x)'
    BY <2>2, Zenon DEF AnswersOne, S2cFrame, AtArm
  <2>5. s2c' = "failed" \/ (~OnWire(x)' /\ ~InHand(x)' /\ ~BoundTo(x)')
    BY <1>1, Zenon DEF AnswersOne
  <2> QED
    BY <2>3, <2>4, <2>5, AnsweredPlace, Zenon
<1>2. \A id \in ClientIds : OnePlace(id)'
  BY <1>1, KeptPlace, Zenon DEF AnswersOne, AnswerInv
<1> QED
  BY <1>2, S2cAnswer, Zenon DEF AnswersOne

\* The verified response goes out; then a queued revalidation starts.
LEMMA EmitKeeps ==
    ASSUME TypeOK, DispatchInv, ListingInv, S2cEmit
    PROVE  ListingInv'
<1>1. /\ c2s' = c2s /\ req' = req /\ pending' = pending /\ held' = held
      /\ cur' = cur /\ list_busy' = list_busy /\ s2c = "emit"
      /\ st.client = None
  BY Zenon DEF S2cEmit, S2cAt, S2cUnchanged, c2sVars, DispatchInv,
     CollectionInv
<1>2. PICK x : x = cur.emit
  BY Zenon
<1>3. x \in Ids /\ hist \in History
  BY <1>2, FieldTypes, Zenon DEF TypeOK
<1>4. Counted(hist, hist', x)
  <2> DEFINE h == Answer(hist, x)
  <2>1. h \in History /\ Counted(hist, h, x)
    BY <1>3, AnswerType, AnswerCounts, Zenon
  <2>2. hist' = h \/ hist' = [h EXCEPT !.stale = FALSE]
    BY <1>2, Zenon DEF S2cEmit
  <2> HIDE DEF h
  <2>3. /\ hist'.sent = h.sent /\ hist'.answers = h.answers
        /\ hist'.unwound = h.unwound
    BY <2>1, <2>2, Zenon DEF History
  <2> QED
    BY <2>1, <2>3, Zenon DEF Counted
<1>5. \/ /\ cur.revalidate /\ s2c' \in {"read", "failed"} /\ st'.revalidating
         /\ st'.waiting \in InternalIds
      \/ /\ ~cur.revalidate /\ s2c' = "drain" /\ wire' = wire
         /\ st'.revalidating = st.revalidating /\ st'.waiting = st.waiting
  <2>1. CASE cur.revalidate
    <3>1. Begun(st)
      BY <2>1, BeginEffect, Zenon DEF S2cEmit, TypeOK
    <3> QED
      BY <2>1, <3>1, Zenon DEF Begun, SentUnder
  <2>2. CASE ~cur.revalidate
    BY <2>2, Zenon DEF S2cEmit, NoRevalidation
  <2> QED
    BY <2>1, <2>2, Zenon
<1>6. /\ st'.client = None /\ st'.queued = st.queued /\ st'.held = st.held
      /\ \A id \in AllIds : id # st'.waiting => wire'[id] = wire[id]
  <2>1. CASE cur.revalidate
    <3>1. Begun(st)
      BY <2>1, BeginEffect, Zenon DEF S2cEmit, TypeOK
    <3> QED
      BY <1>1, <3>1, Zenon DEF Begun, SentUnder
  <2>2. CASE ~cur.revalidate
    BY <1>1, <2>2, Zenon DEF S2cEmit, NoRevalidation
  <2> QED
    BY <2>1, <2>2, Zenon
<1>7. \A id \in ClientIds : wire'[id] = wire[id]
  BY <1>5, <1>6, IdsApart, Zenon
<1>8. s2c' \in {"read", "failed", "drain"}
  BY <1>5, Zenon
<1>9. AnswersOne(x)
  <2>1. \A id \in ClientIds : id # x => Kept(id)
    BY <1>1, <1>4, <1>6, <1>7, <1>8, IdsApart, Zenon DEF Kept, AtArm, InHand,
       FrameInHand, BoundTo, ToEmit, OnWire, Counted
  <2>2. BoundTo(x)
    BY <1>1, <1>2, Zenon DEF BoundTo, ToEmit
  <2>3. x \in ClientIds => ~OnWire(x)' /\ ~InHand(x)' /\ ~BoundTo(x)'
    BY <1>1, <1>6, <1>7, <1>8, <2>2, IdsApart, Zenon
    DEF ListingInv, AnswerInv, OnePlace, OnWire, InHand, FrameInHand,
        BoundTo, ToEmit
  <2>4. S2cFrame
    BY <1>1, <1>4, <1>7, Zenon DEF S2cFrame, Counted
  <2> QED
    BY <1>1, <1>4, <2>1, <2>2, <2>3, <2>4, Zenon DEF AnswersOne
<1>10. AnswerInv'
  BY <1>9, OneAnswerKeeps, Zenon DEF ListingInv
<1>11. ASSUME BusyInv, ArmInv, BindingInv, InternalInv
       PROVE  BusyInv' /\ ArmInv' /\ BindingInv' /\ InternalInv'
  <2>1. st.waiting = None
    BY <1>1, <1>11, Zenon DEF BindingInv
  <2>2. BusyInv'
    BY <1>1, <1>5, <1>6, <1>11, <2>1, Zenon DEF BusyInv, NoneArmed, Armed
  <2>3. ArmInv'
    BY <1>1, <1>5, <1>6, <1>11, <2>1, Zenon DEF ArmInv, NoneArmed,
       NoCollection, Armed
  <2>4. BindingInv'
    BY <1>1, <1>5, <1>6, <1>8, <2>1, Zenon DEF BindingInv, Collecting,
       FrameInHand
  <2>5. \A k \in InternalIds : ~OnWire(k) /\ k # x
    BY <1>1, <1>2, <1>11, Zenon DEF InternalInv, InternalUnseen, ToEmit
  <2>6. \A k \in InternalIds : hist'.answers[k] = hist.answers[k]
    BY <1>4, <2>5, IdsApart, Zenon DEF Counted
  <2>7. \A k \in InternalIds : OnWire(k)' => st'.waiting = k /\ s2c' # "drain"
    BY <1>5, <1>6, <2>5, IdsApart, Zenon DEF OnWire
  <2>8. InternalInv'
    BY <1>1, <1>6, <1>8, <1>11, <2>6, <2>7, IdsApart, Zenon DEF InternalInv,
       InternalUnseen, ToEmit, FrameInHand
  <2> QED
    BY <2>2, <2>3, <2>4, <2>8, Zenon
<1> QED
  BY <1>4, <1>10, <1>11, Zenon DEF ListingInv, OwnerInv, Counted

\* A denied client listing gets an error, behind a raised gate when a
\* revalidation is owed.
LEMMA RejectReleaseKeeps ==
    ASSUME TypeOK, DispatchInv, ListingInv, S2cRejectRelease
    PROVE  ListingInv'
<1>1. /\ c2s' = c2s /\ req' = req /\ pending' = pending /\ held' = held
      /\ wire' = wire /\ cur' = cur /\ s2c = "reject_release"
  BY Zenon DEF S2cRejectRelease, S2cAt, S2cUnchanged, c2sVars
<1>2. \/ s2c' = "failed" /\ list_busy'
      \/ s2c' = "read" /\ ~list_busy' /\ ~st.revalidating /\ ~st.held
  BY Zenon DEF S2cRejectRelease, RequiresAbortOnError, RaiseListGate, Abort
<1>3. /\ st'.client = None /\ st'.waiting = st.waiting
      /\ st'.revalidating = st.revalidating /\ st'.queued = st.queued
      /\ st'.held = st.held
  BY Zenon DEF S2cRejectRelease, TypeOK, ListState
<1>4. PICK x : x = ClientFacing(st.client, cur.id, FALSE)
  BY Zenon
<1>5. x = st.client \/ x = cur.id
  BY <1>4, Zenon DEF ClientFacing
<1>6. x \in Ids /\ hist \in History
  BY <1>5, FieldTypes, Zenon DEF TypeOK
<1>7. Counted(hist, hist', x)
  BY <1>4, <1>6, AnswerCounts, Zenon DEF S2cRejectRelease
<1>8. InHand(x) \/ BoundTo(x)
  BY <1>1, <1>5, Zenon DEF InHand, FrameInHand, BoundTo
<1>9. AnswersOne(x)
  <2>1. \A id \in ClientIds : id # x => Kept(id)
    BY <1>1, <1>2, <1>3, <1>7, IdsApart, Zenon DEF Kept, AtArm, InHand,
       FrameInHand, BoundTo, ToEmit, OnWire, Counted
  <2>2. x \in ClientIds =>
          s2c' = "failed" \/ (~OnWire(x)' /\ ~InHand(x)' /\ ~BoundTo(x)')
    BY <1>1, <1>2, <1>3, <1>8, IdsApart, Zenon
    DEF ListingInv, AnswerInv, OnePlace, OnWire, InHand, FrameInHand,
        BoundTo, ToEmit
  <2>3. S2cFrame
    BY <1>1, <1>7, Zenon DEF S2cFrame, Counted
  <2> QED
    BY <1>1, <1>7, <1>8, <2>1, <2>2, <2>3, Zenon DEF AnswersOne
<1>10. AnswerInv'
  BY <1>9, OneAnswerKeeps, Zenon DEF ListingInv
<1>11. ASSUME BusyInv, ArmInv, BindingInv, InternalInv
       PROVE  BusyInv' /\ ArmInv' /\ BindingInv' /\ InternalInv'
  <2>1. st.waiting = None /\ st.client = None
    BY <1>1, <1>11, Zenon DEF BindingInv
  <2>2. NoneArmed'
    BY <1>1, <1>11, Zenon DEF ArmInv, NoneArmed, Armed
  <2>3. st.queued => st.held
    BY Zenon DEF DispatchInv, CollectionInv
  <2>4. BusyInv'
    BY <1>1, <1>2, <1>3, <1>11, <2>1, <2>2, <2>3, Zenon DEF BusyInv
  <2>5. ArmInv'
    BY <1>2, <2>2, Zenon DEF ArmInv, NoneArmed
  <2>6. BindingInv'
    BY <1>2, <1>3, <2>1, Zenon DEF BindingInv, FrameInHand
  <2>7. \A k \in InternalIds : ~OnWire(k)' /\ k # x
    BY <1>1, <1>5, <1>11, Zenon DEF InternalInv, InternalUnseen, OnWire
  <2>8. \A k \in InternalIds : hist'.answers[k] = hist.answers[k]
    BY <1>7, <2>7, IdsApart, Zenon DEF Counted
  <2>9. InternalInv'
    BY <1>2, <1>3, <1>11, <2>7, <2>8, IdsApart, Zenon DEF InternalInv,
       InternalUnseen, ToEmit, FrameInHand
  <2> QED
    BY <2>4, <2>5, <2>6, <2>9, Zenon
<1> QED
  BY <1>7, <1>10, <1>11, Zenon DEF ListingInv, OwnerInv, Counted

\* A failure of S2C on id r: the session aborts.
Fails(r) ==
    /\ c2s' = c2s /\ req' = req /\ pending' \subseteq pending /\ wire' = wire
    /\ st' = st /\ cur' = cur /\ list_busy' = list_busy
    /\ s2c \in {"read", "route", "next", "verify"}
    /\ FailedOn(r)
    /\ r # None => OnWire(r) \/ InHand(r) \/ BoundTo(r)

LEMMA FailKeeps ==
    ASSUME TypeOK, ListingInv, NEW r \in Ids, Fails(r),
           ~hist.unwound => r \notin InternalIds
    PROVE  ListingInv'
<1>1. held \in ClientIds \cup {None} /\ s2c' = "failed"
  BY Zenon DEF TypeOK, Fails, FailedOn
<1>2. PICK x : /\ x = (IF r = None THEN held ELSE r)
               /\ Counted(hist, hist', x)
  BY Zenon DEF Fails, FailedOn
<1>3. hist'.sent = hist.sent
  BY <1>2, Zenon DEF Counted
<1>4. \A id \in ClientIds : id # x => Kept(id)
  BY <1>1, <1>2, IdsApart, Zenon DEF Fails, FailedOn, Kept, AtArm, InHand,
     FrameInHand, BoundTo, ToEmit, OnWire, Counted
<1>5. S2cFrame
  BY <1>3, Zenon DEF Fails, S2cFrame
<1>6. AnswerInv'
  <2>1. CASE r # None
    <3>1. AnswersOne(x)
      BY <1>1, <1>2, <1>4, <1>5, <2>1, Zenon DEF Fails, FailedOn, AnswersOne
    <3> QED
      BY <3>1, OneAnswerKeeps, Zenon DEF ListingInv
  <2>2. CASE r = None
    <3>1. x = held /\ held' = None
      BY <1>2, <2>2, Zenon DEF Fails, FailedOn
    <3>2. ASSUME NEW id \in ClientIds, id = x
          PROVE  OnePlace(id)'
      <4>1. OnePlace(id)
        BY Zenon DEF ListingInv, AnswerInv
      <4>2. ~AtArm(id) /\ ~Answered(id) /\ id \in hist.sent
        BY <3>1, <3>2, <4>1, Zenon DEF OnePlace, Placed
      <4>3. hist'.answers[id] < 2 /\ held' # id /\ id \in hist'.sent
        BY <1>2, <1>3, <3>1, <4>2, IdsApart, Zenon DEF Counted, Answered
      <4>4. ~AtArm(id)'
        BY <4>2, Zenon DEF Fails, AtArm
      <4> QED
        BY <1>1, <4>3, <4>4, AnsweredPlace, Zenon
    <3>3. \A id \in ClientIds : OnePlace(id)'
      BY <1>4, <3>2, KeptPlace, Zenon DEF ListingInv, AnswerInv
    <3> QED
      BY <1>5, <3>3, S2cAnswer, Zenon DEF ListingInv
  <2> QED
    BY <2>1, <2>2, Zenon
<1>7. ASSUME BusyInv, ArmInv, BindingInv, InternalInv, ~hist.unwound
      PROVE  BusyInv' /\ ArmInv' /\ BindingInv' /\ InternalInv'
  <2>1. \A id \in ClientIds : Armed(id)' => Armed(id)
    BY Zenon DEF Fails, Armed
  <2>2. BusyInv'
    BY <1>1, <1>7, <2>1, Zenon DEF Fails, BusyInv, NoneArmed
  <2>3. ArmInv'
    BY <1>1, <1>7, <2>1, Zenon DEF Fails, ArmInv, NoneArmed, NoCollection
  <2>4. BindingInv'
    BY <1>1, <1>7, Zenon DEF Fails, BindingInv, Collecting, FrameInHand
  <2>5. \A k \in InternalIds : hist'.answers[k] = hist.answers[k]
    BY <1>1, <1>2, <1>7, IdsApart, Zenon DEF Counted
  <2>6. InternalInv'
    BY <1>1, <1>7, <2>5, Zenon DEF Fails, InternalInv, InternalUnseen, OnWire,
       ToEmit, FrameInHand
  <2> QED
    BY <2>2, <2>3, <2>4, <2>6, Zenon
<1> QED
  BY <1>2, <1>6, <1>7, Zenon DEF ListingInv, OwnerInv, Counted

\* An invalid page, a repeated cursor and a refused verification fail on the
\* bound id or on that of the frame.
LEMMA FrameFailKeeps ==
    ASSUME TypeOK, DispatchInv, ListingInv,
           S2cRouteInvalid \/ S2cRepeatedCursor \/ S2cVerifyBlocked
    PROVE  ListingInv'
<1>1. /\ c2s' = c2s /\ req' = req /\ pending' \subseteq pending
      /\ wire' = wire /\ st' = st /\ cur' = cur /\ list_busy' = list_busy
  BY Zenon DEF S2cRouteInvalid, S2cRepeatedCursor, S2cVerifyBlocked,
     S2cUnchanged, c2sVars
<1>2. PICK r : /\ \/ /\ s2c \in {"route", "next"}
                     /\ r = ClientFacing(st.client, cur.id, cur.internal)
                  \/ /\ s2c = "verify"
                     /\ r = ClientFacing(cur.emit, cur.id, cur.internal)
               /\ FailAndEmit(r)
  BY Zenon DEF S2cRouteInvalid, S2cRepeatedCursor, S2cVerifyBlocked, S2cAt
<1>3. r \in Ids
  BY <1>2, FieldTypes, ClientFacingType, Zenon
<1>4. r # None => InHand(r) \/ BoundTo(r)
  BY <1>2, Zenon DEF ClientFacing, InHand, FrameInHand, BoundTo, ToEmit
<1>5. Fails(r)
  BY <1>1, <1>2, <1>3, <1>4, FailEffect, Zenon DEF Fails
<1>6. InternalInv => r \notin InternalIds
  BY <1>2, IdsApart, Zenon DEF ClientFacing, InternalInv, InternalUnseen,
     FrameInHand, ToEmit
<1>7. ~hist.unwound => r \notin InternalIds
  BY <1>6, Zenon DEF ListingInv, OwnerInv
<1> QED
  BY <1>3, <1>5, <1>7, FailKeeps, Zenon

\* A refused envelope fails a tracked listing; another one is answered.
LEMMA MalformedKeeps ==
    ASSUME TypeOK, DispatchInv, ListingInv, S2cMalformed
    PROVE  ListingInv'
<1>1. PICK x \in AllIds :
         /\ Outstanding(x)
         /\ IF x \in pending \/ x = st.waiting
            THEN /\ FailAndEmit(ClientFacing(st.client, x, x = st.waiting))
                 /\ UNCHANGED wire
            ELSE /\ wire' = [wire EXCEPT ![x] = "none"]
                 /\ hist' = Answer(hist, x)
                 /\ UNCHANGED <<held, failure, s2c, session>>
  BY Zenon DEF S2cMalformed
<1>2. /\ c2s' = c2s /\ req' = req /\ pending' = pending /\ st' = st
      /\ cur' = cur /\ list_busy' = list_busy /\ s2c = "read"
  BY Zenon DEF S2cMalformed, S2cAt, c2sVars
<1>3. OnWire(x) /\ wire[x] # "registered"
  BY <1>1 DEF Outstanding, OnWire
<1>4. CASE x \in pending \/ x = st.waiting
  <2>1. wire' = wire
    BY <1>1, <1>4, Zenon
  <2>2. PICK r : /\ r = ClientFacing(st.client, x, x = st.waiting)
                 /\ FailAndEmit(r)
    BY <1>1, <1>4, Zenon
  <2>3. /\ r \in Ids
        /\ r = st.client \/ r = None \/ (r = x /\ x \in pending)
    BY <1>4, <2>2, FieldTypes, Zenon DEF ClientFacing, Ids
  <2>4. r # None => OnWire(r) \/ BoundTo(r)
    BY <1>3, <2>3, Zenon DEF BoundTo
  <2>5. Fails(r)
    BY <1>2, <2>1, <2>2, <2>3, <2>4, FailEffect, Zenon DEF Fails
  <2>6. ~hist.unwound => r \notin InternalIds
    BY <2>3, IdsApart, Zenon DEF ListingInv, OwnerInv, InternalInv,
       InternalUnseen, TypeOK
  <2> QED
    BY <2>3, <2>5, <2>6, FailKeeps, Zenon
<1>5. CASE ~(x \in pending \/ x = st.waiting)
  <2>1. s2c' = s2c /\ held' = held /\ hist' = Answer(hist, x)
    BY <1>1, <1>5, Zenon
  <2>2. /\ wire'[x] = "none"
        /\ \A id \in AllIds : id # x => wire'[id] = wire[id]
    BY <1>1, <1>5, Zenon DEF TypeOK
  <2>3. Counted(hist, hist', x)
    BY <2>1, AnswerCounts, Zenon DEF TypeOK, Ids
  <2>4. AnswersOne(x)
    <3>1. \A id \in ClientIds : id # x => Kept(id)
      BY <1>2, <2>1, <2>2, <2>3, IdsApart, Zenon DEF Kept, AtArm, InHand,
         FrameInHand, BoundTo, ToEmit, OnWire, Counted
    <3>2. x \in ClientIds => ~OnWire(x)' /\ ~InHand(x)' /\ ~BoundTo(x)'
      BY <1>2, <1>3, <2>1, <2>2, Zenon DEF ListingInv, AnswerInv, OnePlace,
         OnWire, InHand, FrameInHand, BoundTo, ToEmit
    <3>3. S2cFrame
      BY <1>2, <1>3, <2>2, <2>3, IdsApart, Zenon DEF S2cFrame, Counted
    <3> QED
      BY <1>2, <1>3, <2>1, <2>3, <3>1, <3>2, <3>3, Zenon DEF AnswersOne
  <2>5. AnswerInv'
    BY <2>4, OneAnswerKeeps, Zenon DEF ListingInv
  <2>6. ASSUME BusyInv, ArmInv, BindingInv, InternalInv
        PROVE  BusyInv' /\ ArmInv' /\ BindingInv' /\ InternalInv'
    <3>1. x \notin InternalIds
      BY <1>3, <1>5, <2>6, Zenon DEF InternalInv, InternalUnseen
    <3>2. BusyInv' /\ ArmInv'
      BY <1>2, <2>1, <2>6, Zenon DEF BusyInv, ArmInv, NoneArmed, Armed,
         NoCollection
    <3>3. BindingInv'
      BY <1>2, <2>1, <2>6, Zenon DEF BindingInv, Collecting, FrameInHand
    <3>4. \A k \in InternalIds :
            wire'[k] = wire[k] /\ hist'.answers[k] = hist.answers[k]
      BY <2>2, <2>3, <3>1, IdsApart, Zenon DEF Counted
    <3>5. InternalInv'
      BY <1>2, <2>1, <2>6, <3>4, Zenon DEF InternalInv, InternalUnseen,
         OnWire, ToEmit, FrameInHand
    <3> QED
      BY <3>2, <3>3, <3>5, Zenon
  <2> QED
    BY <2>3, <2>5, <2>6, Zenon DEF ListingInv, OwnerInv, Counted
<1> QED
  BY <1>4, <1>5, Zenon

\* The abort drain answers the held listing and those still in the pipe.
LEMMA AbortDrainKeeps ==
    ASSUME TypeOK, DispatchInv, ListingInv, AbortDrain
    PROVE  ListingInv'
<1> DEFINE h == Answer(hist, held)
<1>1. PICK transit \in SUBSET (ClientIds \ hist.sent) :
         hist' = [h EXCEPT !.sent = @ \cup transit,
                           !.answers = [id \in AllIds |->
                                          IF id \in transit THEN 1
                                          ELSE h.answers[id]]]
  BY Zenon DEF AbortDrain
<1>2. /\ c2s' = c2s /\ req' = req /\ pending' = pending /\ wire' = wire
      /\ st' = st /\ cur' = cur /\ s2c' = s2c /\ list_busy' = list_busy
      /\ held' = None /\ c2s = "idle"
  BY Zenon DEF AbortDrain, s2cVars, c2sVars
<1>3. /\ hist \in History /\ held \in Ids /\ held \in ClientIds \cup {None}
  BY Zenon DEF TypeOK, Ids, AllIds
<1>4. h \in History /\ Counted(hist, h, held)
  BY <1>3, AnswerType, AnswerCounts, Zenon
<1> HIDE DEF h
<1>5. /\ hist'.sent = hist.sent \cup transit
      /\ hist'.unwound = hist.unwound
      /\ \A id \in AllIds : id \notin transit => hist'.answers[id] = h.answers[id]
      /\ \A id \in AllIds : id \in transit => hist'.answers[id] < 2
  <2>1. /\ hist'.sent = h.sent \cup transit /\ hist'.unwound = h.unwound
        /\ hist'.answers = [id \in AllIds |-> IF id \in transit THEN 1
                                             ELSE h.answers[id]]
    BY <1>1, <1>4, Zenon DEF History
  <2> QED
    BY <1>4, <2>1 DEF Counted
<1>6. ASSUME NEW id \in ClientIds
      PROVE  OnePlace(id)'
  <2>1. OnePlace(id)
    BY Zenon DEF ListingInv, AnswerInv
  <2>2. CASE id \in transit
    <3>1. ~Placed(id)
      BY <2>1, <2>2, Zenon DEF OnePlace
    <3>2. /\ ~AtArm(id)' /\ held' # id
          /\ ~OnWire(id)' /\ ~InHand(id)' /\ ~BoundTo(id)'
      BY <1>2, <3>1, IdsApart, Zenon DEF Placed, AtArm, OnWire, InHand,
         FrameInHand, BoundTo, ToEmit
    <3>3. hist'.answers[id] < 2 /\ id \in hist'.sent
      BY <1>5, <2>2, IdsApart, Zenon
    <3> QED
      BY <3>2, <3>3, AnsweredPlace, Zenon
  <2>3. CASE id \notin transit /\ id = held
    <3>1. ~AtArm(id) /\ ~OnWire(id) /\ ~InHand(id) /\ ~BoundTo(id)
          /\ ~Answered(id) /\ id \in hist.sent
      BY <2>1, <2>3, Zenon DEF OnePlace, Placed
    <3>2. /\ ~AtArm(id)' /\ held' # id
          /\ ~OnWire(id)' /\ ~InHand(id)' /\ ~BoundTo(id)'
      BY <1>2, <3>1, IdsApart, Zenon DEF AtArm, OnWire, InHand,
         FrameInHand, BoundTo, ToEmit
    <3>3. hist'.answers[id] < 2 /\ id \in hist'.sent
      BY <1>4, <1>5, <2>3, <3>1, IdsApart, Zenon DEF Counted, Answered
    <3> QED
      BY <3>2, <3>3, AnsweredPlace, Zenon
  <2>4. CASE id \notin transit /\ id # held
    <3>1. Kept(id)
      BY <1>2, <1>4, <1>5, <2>4, IdsApart, Zenon DEF Kept, AtArm, OnWire,
         InHand, FrameInHand, BoundTo, ToEmit, Counted
    <3> QED
      BY <2>1, <3>1, KeptPlace, Zenon
  <2> QED
    BY <2>2, <2>3, <2>4, Zenon
<1>7. AnswerInv'
  BY <1>2, <1>5, <1>6, Zenon DEF ListingInv, AnswerInv
<1>8. C2sFrame
  <2>1. \A k \in InternalIds : k \notin transit /\ k # held
    BY <1>3, IdsApart, Zenon
  <2> QED
    BY <1>2, <1>4, <1>5, <2>1, IdsApart, Zenon DEF C2sFrame, Counted
<1>9. BusyInv /\ ArmInv => BusyInv' /\ ArmInv'
  BY <1>2, Zenon DEF BusyInv, ArmInv, Armed, NoneArmed, NoCollection
<1> QED
  BY <1>7, <1>8, <1>9, C2sOwner, Zenon DEF ListingInv

-----------------------------------------------------------------------------
(* The listing theorems *)

\* Nothing is listed, sent or answered at the start.
LEMMA InitListing == Init => ListingInv
<1>1. SUFFICES ASSUME Init PROVE ListingInv
  OBVIOUS
<1>2. /\ pending = {} /\ c2s = "idle" /\ held = None /\ ~list_busy
      /\ s2c \in {"probe", "read"}
      /\ st.client = None /\ st.waiting = None /\ ~st.held /\ ~st.queued
      /\ ~st.revalidating
  BY <1>1, Zenon DEF Init
<1>3. \A id \in AllIds : wire[id] = "none" /\ hist.answers[id] = 0
  BY <1>1 DEF Init
<1>4. 0 < 2
  OBVIOUS
<1>5. \A id \in ClientIds : ~Placed(id) /\ hist.answers[id] < 2
  BY <1>2, <1>3, <1>4, IdsApart, Zenon DEF Placed, AtArm, OnWire, InHand,
     FrameInHand, BoundTo, ToEmit, Answered
<1>6. AnswerInv
  BY <1>2, <1>5, Zenon DEF AnswerInv, OnePlace, Placed
<1>7. BusyInv /\ ArmInv
  BY <1>2, Zenon DEF BusyInv, ArmInv, NoneArmed, Armed
<1>8. BindingInv /\ InternalInv
  BY <1>2, <1>3, IdsApart, Zenon DEF BindingInv, InternalInv, InternalUnseen,
     OnWire, ToEmit, FrameInHand, NoCollection
<1> QED
  BY <1>6, <1>7, <1>8, Zenon DEF ListingInv, OwnerInv

\* Every step keeps the listing invariant.
LEMMA StepListing ==
    TypeOK /\ DispatchInv /\ ListingInv /\ [Next]_vars => ListingInv'
<1>1. SUFFICES ASSUME TypeOK, DispatchInv, ListingInv, [Next]_vars
               PROVE  ListingInv'
  BY Zenon
<1>2. CASE C2sStep
  BY <1>1, <1>2, ArmLostKeeps, HoldKeeps, ArmRetryKeeps, ArmRefuseKeeps,
     RegisterKeeps, SendKeeps, CancelReleaseKeeps, CallKeeps, Zenon
  DEF C2sStep
<1>3. CASE Reads
  BY <1>1, <1>3, ListChangedKeeps, ResponseKeeps, MalformedKeeps,
     ServerEofKeeps, ArmKeeps, CancelKeeps, CallKeeps, Zenon DEF Reads
<1>4. CASE S2cStep
  BY <1>1, <1>4, ProbeKeeps, KickKeeps, ResumeKeeps, DrainKeeps,
     RouteDropKeeps, FrameFailKeeps, RouteErrorKeeps, ErrorDrainKeeps,
     RoutePageKeeps, BindKeeps, NextPageKeeps, CompletePagesKeeps,
     PublishKeeps, ReleaseKeeps, EmitKeeps, RejectedInternalKeeps,
     RejectedKeeps, RejectReleaseKeeps, Zenon DEF S2cStep
<1>5. CASE AbortDrain \/ AbortTimeout \/ Closed \/ UNCHANGED vars
  BY <1>1, <1>5, AbortDrainKeeps, CallKeeps, Zenon
<1> QED
  BY <1>1, <1>2, <1>3, <1>4, <1>5, Zenon DEF Next

\* In every reachable state each listing is at one place and the gate has one
\* owner.
LEMMA ListingCorrect == Spec => [](TypeOK /\ DispatchInv /\ ListingInv)
<1>1. Init => DispatchInv
  BY SMTT(60) DEF Init, DispatchInv, CollectionInv, Collecting, Guarded,
         AdmissionInv, DispatchVerified
<1>2. TypeOK /\ DispatchInv /\ [Next]_vars => DispatchInv'
  BY StepDispatch, Zenon
<1> QED
  BY <1>1, <1>2, InitListing, StepListing, TypeCorrect, PTL DEF Spec

\* The gate is up as long as any listing is in flight: neither loop lowers it
\* underneath an armed client listing, a collection or a verification of the
\* other (the owner's release in verify_and_emit_list, the error paths and
\* resume_queued_revalidation).
THEOREM GateHasOwner == Spec => []GateOwned
<1>1. TypeOK /\ ListingInv => GateOwned
  <2>1. SUFFICES ASSUME TypeOK, BusyInv, ~list_busy
                 PROVE  /\ ArmedListings = {}
                        /\ s2c = "read" => st.client = None /\ st.waiting = None
                        /\ s2c \notin {"next", "verify", "release"}
    BY Zenon DEF GateOwned, ListingInv, OwnerInv
  <2>2. \A id \in ArmedListings : Armed(id) /\ id \in ClientIds
    BY <2>1, Zenon DEF ArmedListings, Armed, TypeOK
  <2>3. ArmedListings = {}
    BY <2>1, <2>2, Zenon DEF BusyInv, NoneArmed
  <2> QED
    BY <2>1, <2>3, Zenon DEF BusyInv
<1> QED
  BY <1>1, ListingCorrect, PTL

\* No tools/call crosses to the child while a list_changed notification is
\* held back and the listing that answers it has not been verified
\* (handle_list_changed raises the gate, and only the release of a verified
\* listing lowers it).
THEOREM HeldNotificationBlocksDispatch == Spec => []NoDispatchWhileHeld
<1>1. TypeOK /\ DispatchInv /\ ListingInv => NoDispatchWhileHeld
  <2>1. SUFFICES ASSUME DispatchInv, ListingInv, Required, c2s = "call_write",
                        st.held, ~hist.unwound
                 PROVE  s2c \in {"emit", "drain"} /\ ~cur.revalidate
    BY Zenon DEF NoDispatchWhileHeld
  <2>2. ~list_busy
    BY <2>1, Zenon DEF DispatchInv, DispatchVerified
  <2>3. BusyInv
    BY <2>1, Zenon DEF ListingInv, OwnerInv
  <2> QED
    BY <2>1, <2>2, <2>3, Zenon DEF BusyInv
<1> QED
  BY <1>1, ListingCorrect, PTL

\* The client never gets two responses on one tools/list id, whether it was
\* forwarded, held, refused, cancelled or caught by the abort drain, and none
\* on an id of the internal namespace.
THEOREM OneAnswerEach == Spec => []AtMostOneAnswer
<1>1. ListingInv => AtMostOneAnswer
  BY Zenon DEF ListingInv, AnswerInv, OnePlace, OwnerInv, InternalInv,
     InternalUnseen, AtMostOneAnswer
<1> QED
  BY <1>1, ListingCorrect, PTL

\* The verified set changes only to the next generation and behind a raised
\* gate (verify_and_emit_list publishes before it releases).
THEOREM PublishedBehindGate == Spec => PublishBehindGate
<1> DEFINE A == verified' # verified =>
                  /\ verified'.generation = verified.generation + 1
                  /\ list_busy \/ hist.unwound
<1>1. TypeOK /\ DispatchInv /\ ListingInv /\ [Next]_vars => [A]_vars
  <2>1. SUFFICES ASSUME ListingInv, [Next]_vars
                 PROVE  verified' = verified \/ S2cPublish
    <3>1. S2cPublish => /\ verified'.generation = verified.generation + 1
                        /\ s2c = "verify"
      BY DEF S2cPublish, S2cAt
    <3>2. ListingInv /\ s2c = "verify" => list_busy \/ hist.unwound
      BY Zenon DEF ListingInv, OwnerInv, BusyInv
    <3> QED
      BY <3>1, <3>2, Zenon
  <2>2. CASE C2sStep
    BY <2>2, Zenon DEF C2sStep, C2sArmLost, C2sHold, C2sArmRetry,
       C2sArmRefuse, C2sRegister, C2sSend, C2sCancelRelease, C2sCallCheck,
       C2sCallRegister, C2sCallEpoch, C2sCallWritten, C2sCallUnchanged,
       C2sUnchanged
  <2>3. CASE Reads
    BY <2>3, Zenon DEF Reads, S2cListChanged, S2cResponse, S2cMalformed,
       S2cEof, C2sArm, C2sCancel, C2sCall, C2sEof, C2sCallUnchanged,
       C2sUnchanged
  <2>4. CASE S2cStep
    BY <2>4, Zenon DEF S2cStep, S2cProbe, S2cKick, S2cResume, S2cResumeDrain,
       S2cRouteDrop, S2cRouteInvalid, S2cRouteError, S2cErrorDrain,
       S2cRoutePage, S2cBind, S2cNextPage, S2cRepeatedCursor,
       S2cCompletePages, S2cVerifyBlocked, S2cRelease, S2cEmit, S2cDrain,
       S2cRejectedInternal, S2cRejected, S2cRejectRelease
  <2>5. CASE AbortDrain \/ AbortTimeout \/ Closed \/ UNCHANGED vars
    BY <2>5, Zenon DEF AbortDrain, AbortTimeout, Closed, vars
  <2> QED
    BY <2>1, <2>2, <2>3, <2>4, <2>5, Zenon DEF Next
<1> QED
  BY <1>1, ListingCorrect, PTL DEF Spec, PublishBehindGate

-----------------------------------------------------------------------------
(* The notification that is forwarded is answered by a fresh listing *)

\* A notification that came after the collection at hand was requested has its
\* revalidation queued, until the queue is taken.
FreshInv ==
    hist.stale /\ st.held => st.queued \/ (s2c = "emit" /\ cur.revalidate)

\* Counting a response says nothing about notifications.
SameStale(h, g) == g.stale = h.stale

LEMMA AnswerStale ==
    ASSUME NEW h \in History, NEW x \in Ids
    PROVE  SameStale(h, Answer(h, x))
BY DEF Answer, History, Ids, SameStale

\* A step that neither takes the queue nor holds a notification.
FreshFrame ==
    /\ hist'.stale = hist.stale
    /\ st'.held => st.held
    /\ st.queued => st'.queued
    /\ s2c = "emit" => s2c' = s2c /\ cur' = cur

LEMMA FreshFrameKeeps ==
    ASSUME FreshInv, FreshFrame
    PROVE  FreshInv'
BY Zenon DEF FreshInv, FreshFrame

\* The steps of C2S and the ends of the session are such steps.
LEMMA C2sFresh ==
    ASSUME TypeOK, FreshInv,
           \/ C2sStep \/ C2sArm \/ C2sCancel \/ C2sCall \/ C2sEof
           \/ AbortDrain \/ AbortTimeout \/ Closed \/ UNCHANGED vars
    PROVE  FreshInv'
<1>1. st' = st /\ s2c' = s2c /\ cur' = cur
  BY Zenon DEF C2sStep, C2sArmLost, C2sHold, C2sArmRetry, C2sArmRefuse,
     C2sRegister, C2sSend, C2sCancelRelease, C2sCallCheck, C2sCallRegister,
     C2sCallEpoch, C2sCallWritten, C2sCallUnchanged, C2sUnchanged, C2sArm,
     C2sCancel, C2sCall, C2sEof, AbortDrain, AbortTimeout, Closed, vars,
     s2cVars
<1>2. hist \in History /\ held \in Ids
  BY Zenon DEF TypeOK, Ids, AllIds
<1>3. hist'.stale = hist.stale
  <2>1. CASE hist' = hist
    BY <2>1, Zenon
  <2>2. CASE C2sArmRefuse \/ C2sRegister
    <3>1. req \in Ids
      BY Zenon DEF TypeOK, Ids, AllIds
    <3>2. hist' = hist \/ hist' = Answer(hist, req)
      BY <2>2, Zenon DEF C2sArmRefuse, C2sRegister
    <3> QED
      BY <1>2, <3>1, <3>2, AnswerStale, Zenon DEF SameStale
  <2>3. CASE C2sArm
    <3>1. PICK x \in ClientIds :
             \/ hist' = [hist EXCEPT !.sent = @ \cup {x}]
             \/ hist' = Answer([hist EXCEPT !.sent = @ \cup {x}], x)
      BY <2>3, Zenon DEF C2sArm
    <3> DEFINE h == [hist EXCEPT !.sent = @ \cup {x}]
    <3>2. h \in History /\ h.stale = hist.stale
      BY <1>2, Zenon DEF History
    <3>3. hist' = h \/ hist' = Answer(h, x)
      BY <3>1, Zenon
    <3> HIDE DEF h
    <3>4. x \in Ids
      BY Zenon DEF Ids, AllIds
    <3> QED
      BY <3>2, <3>3, <3>4, AnswerStale, Zenon DEF SameStale
  <2>4. CASE C2sCancel
    <3>1. hist' = hist \/ \E d : hist' = [hist EXCEPT !.dropped = d]
      BY <2>4, Zenon DEF C2sCancel
    <3> QED
      BY <1>2, <3>1, Zenon DEF History
  <2>5. CASE AbortDrain
    <3> DEFINE h == Answer(hist, held)
    <3>1. h \in History /\ h.stale = hist.stale
      BY <1>2, AnswerType, AnswerStale, Zenon DEF SameStale
    <3>2. \E s, a : hist' = [h EXCEPT !.sent = s, !.answers = a]
      BY <2>5, Zenon DEF AbortDrain
    <3> HIDE DEF h
    <3> QED
      BY <3>1, <3>2, Zenon DEF History
  <2> QED
    BY <2>1, <2>2, <2>3, <2>4, <2>5, Zenon DEF C2sStep, C2sArmLost, C2sHold,
       C2sArmRetry, C2sSend, C2sCancelRelease, C2sCallCheck, C2sCallRegister,
       C2sCallEpoch, C2sCallWritten, C2sCallUnchanged, C2sCall, C2sEof,
       AbortTimeout, Closed, vars
<1>4. FreshFrame
  BY <1>1, <1>3, Zenon DEF FreshFrame
<1> QED
  BY <1>4, FreshFrameKeeps, Zenon

\* A failure of S2C is such a step as well.
LEMMA FailFresh ==
    ASSUME TypeOK, FreshInv,
           \/ S2cMalformed \/ S2cRouteInvalid \/ S2cRepeatedCursor
           \/ S2cVerifyBlocked
    PROVE  FreshInv'
<1>1. hist \in History /\ held \in Ids
  BY Zenon DEF TypeOK, Ids, AllIds
<1>2. ASSUME NEW r \in Ids, FailAndEmit(r)
      PROVE  hist'.stale = hist.stale
  <2>1. hist' = Answer(hist, r) \/ hist' = Answer(hist, held)
    BY <1>2, Zenon DEF FailAndEmit
  <2> QED
    BY <1>1, <1>2, <2>1, AnswerStale, Zenon DEF SameStale
<1>3. hist'.stale = hist.stale
  <2>1. CASE S2cMalformed
    <3>1. PICK x \in AllIds :
            \/ FailAndEmit(ClientFacing(st.client, x, x = st.waiting))
            \/ hist' = Answer(hist, x)
      BY <2>1, Zenon DEF S2cMalformed
    <3>2. /\ x \in Ids
          /\ ClientFacing(st.client, x, x = st.waiting) \in Ids
      BY FieldTypes, Zenon DEF ClientFacing, Ids
    <3> QED
      BY <1>1, <1>2, <3>1, <3>2, AnswerStale, Zenon DEF SameStale
  <2>2. CASE S2cRouteInvalid \/ S2cRepeatedCursor \/ S2cVerifyBlocked
    <3>1. \/ FailAndEmit(ClientFacing(st.client, cur.id, cur.internal))
          \/ FailAndEmit(ClientFacing(cur.emit, cur.id, cur.internal))
      BY <2>2, Zenon DEF S2cRouteInvalid, S2cRepeatedCursor, S2cVerifyBlocked
    <3>2. /\ ClientFacing(st.client, cur.id, cur.internal) \in Ids
          /\ ClientFacing(cur.emit, cur.id, cur.internal) \in Ids
      BY FieldTypes, ClientFacingType, Zenon
    <3> QED
      BY <1>2, <3>1, <3>2, Zenon
  <2> QED
    BY <2>1, <2>2, Zenon
<1>4. st' = st /\ s2c # "emit"
  BY Zenon DEF S2cMalformed, S2cRouteInvalid, S2cRepeatedCursor,
     S2cVerifyBlocked, S2cAt
<1>5. FreshFrame
  BY <1>3, <1>4, Zenon DEF FreshFrame
<1> QED
  BY <1>5, FreshFrameKeeps, Zenon

\* The steps of S2C that answer a listing and leave the queue alone.
LEMMA AnswerFresh ==
    ASSUME TypeOK, FreshInv,
           \/ S2cResumeDrain \/ S2cDrain \/ S2cErrorDrain \/ S2cRejectRelease
    PROVE  FreshInv'
<1>1. hist \in History /\ held \in Ids
  BY Zenon DEF TypeOK, Ids, AllIds
<1>2. hist'.stale = hist.stale
  <2>1. CASE S2cResumeDrain \/ S2cDrain
    <3>1. hist' = Answer(hist, held)
      BY <2>1, Zenon DEF S2cResumeDrain, S2cDrain
    <3> QED
      BY <1>1, <3>1, AnswerStale, Zenon DEF SameStale
  <2>2. CASE S2cErrorDrain
    <3> DEFINE h == Answer(hist, held)
               y == ClientFacing(st.client, cur.id, cur.internal)
    <3>1. h \in History /\ h.stale = hist.stale /\ y \in Ids
      BY <1>1, FieldTypes, ClientFacingType, AnswerType, AnswerStale, Zenon
      DEF SameStale
    <3>2. hist' = Answer(h, y)
      BY <2>2, Zenon DEF S2cErrorDrain
    <3> HIDE DEF h, y
    <3> QED
      BY <3>1, <3>2, AnswerStale, Zenon DEF SameStale
  <2>3. CASE S2cRejectRelease
    <3> DEFINE y == ClientFacing(st.client, cur.id, FALSE)
    <3>1. y \in Ids
      BY FieldTypes, ClientFacingType, Zenon
    <3>2. hist' = Answer(hist, y)
      BY <2>3, Zenon DEF S2cRejectRelease
    <3> HIDE DEF y
    <3> QED
      BY <1>1, <3>1, <3>2, AnswerStale, Zenon DEF SameStale
  <2> QED
    BY <2>1, <2>2, <2>3, Zenon
<1>3. s2c # "emit"
  BY Zenon DEF S2cResumeDrain, S2cDrain, S2cErrorDrain, S2cRejectRelease,
     S2cAt
<1>4. (st'.held => st.held) /\ (st.queued => st'.queued)
  BY Zenon DEF S2cResumeDrain, S2cDrain, S2cErrorDrain, S2cRejectRelease,
     TypeOK, ListState
<1>5. FreshFrame
  BY <1>2, <1>3, <1>4, Zenon DEF FreshFrame
<1> QED
  BY <1>5, FreshFrameKeeps, Zenon

\* The steps of S2C that answer nothing and leave the queue alone.
LEMMA QuietFresh ==
    ASSUME TypeOK, FreshInv,
           \/ S2cProbe \/ S2cKick \/ S2cResponse \/ S2cEof \/ S2cRouteDrop
           \/ S2cRouteError \/ S2cRoutePage \/ S2cBind \/ S2cNextPage
           \/ S2cCompletePages \/ S2cPublish \/ S2cRejectedInternal
           \/ S2cRejected
    PROVE  FreshInv'
<1>1. s2c # "emit"
  BY Zenon DEF S2cProbe, S2cKick, S2cResponse, S2cEof, S2cRouteDrop,
     S2cRouteError, S2cRoutePage, S2cBind, S2cNextPage, S2cCompletePages,
     S2cPublish, S2cRejectedInternal, S2cRejected, S2cAt
<1>2. hist'.stale = hist.stale
  BY Zenon DEF S2cProbe, S2cKick, S2cResponse, S2cEof, S2cRouteDrop,
     S2cRouteError, S2cRoutePage, S2cBind, S2cNextPage, S2cCompletePages,
     S2cPublish, S2cRejectedInternal, S2cRejected, TypeOK, History
<1>3. (st'.held => st.held) /\ (st.queued => st'.queued)
  <2>1. CASE S2cProbe
    <3>1. st' = st \/ BeginRevalidation(st)
      BY <2>1, Zenon DEF S2cProbe
    <3> QED
      BY <3>1, BeginEffect, Zenon DEF Begun, TypeOK
  <2>2. CASE S2cKick \/ S2cRouteError \/ S2cRoutePage
    BY <2>2, Zenon DEF S2cKick, S2cRouteError, S2cRoutePage, DiscardPages,
       TypeOK, ListState
  <2>3. CASE S2cRejectedInternal \/ S2cRejected
    BY <2>3, Zenon DEF S2cRejectedInternal, S2cRejected, DiscardPages, TypeOK,
       ListState
  <2>5. CASE S2cNextPage
    BY <2>5, Zenon DEF S2cNextPage, TypeOK, ListState
  <2>6. CASE S2cCompletePages
    BY <2>6, Zenon DEF S2cCompletePages, DiscardPages, TypeOK, ListState
  <2>4. CASE S2cResponse \/ S2cEof \/ S2cRouteDrop \/ S2cBind \/ S2cPublish
    BY <2>4, Zenon DEF S2cResponse, S2cEof, S2cRouteDrop, S2cBind, S2cPublish
  <2> QED
    BY <2>1, <2>2, <2>3, <2>4, <2>5, <2>6, Zenon
<1>4. FreshFrame
  BY <1>1, <1>2, <1>3, Zenon DEF FreshFrame
<1> QED
  BY <1>4, FreshFrameKeeps, Zenon

\* The steps that queue a revalidation or take the queue.
LEMMA QueueFresh ==
    ASSUME TypeOK, DispatchInv, FreshInv,
           S2cListChanged \/ S2cResume \/ S2cRelease \/ S2cEmit
    PROVE  FreshInv'
<1>1. hist \in History
  BY Zenon DEF TypeOK
<1>2. CASE S2cListChanged
  <2>1. CASE InFlight(list_busy)
    <3>1. st' = [st EXCEPT !.held = TRUE, !.queued = TRUE]
      BY <1>2, <2>1, Zenon DEF S2cListChanged
    <3>2. st'.queued
      BY <3>1, Zenon DEF TypeOK, ListState
    <3> QED
      BY <3>2, Zenon DEF FreshInv
  <2>2. CASE ~InFlight(list_busy)
    <3>1. hist'.stale = InFlight(list_busy)
      BY <1>1, <1>2, Zenon DEF S2cListChanged, History
    <3>2. ~hist'.stale
      BY <2>2, <3>1
    <3> QED
      BY <3>2, Zenon DEF FreshInv
  <2> QED
    BY <2>1, <2>2, Zenon
<1>3. CASE S2cResume
  <2>1. CASE st' = st /\ hist' = hist
    BY <1>3, <2>1, Zenon DEF S2cResume, S2cAt, FreshInv
  <2>2. CASE hist' = [hist EXCEPT !.stale = FALSE]
    <3>1. ~hist'.stale
      BY <1>1, <2>2, Zenon DEF History
    <3> QED
      BY <3>1, Zenon DEF FreshInv
  <2> QED
    BY <1>3, <2>1, <2>2, Zenon DEF S2cResume
<1>4. CASE S2cRelease
  <2>1. /\ hist' = hist /\ st'.held = st.held /\ s2c' = "emit"
        /\ cur'.revalidate <=> st.queued
        /\ s2c = "release"
    BY <1>4, Zenon DEF S2cRelease, S2cAt, RevalidationQueued, TypeOK,
       ListState, Locals
  <2> QED
    BY <2>1, Zenon DEF FreshInv
<1>5. CASE S2cEmit
  <2> DEFINE h == Answer(hist, cur.emit)
  <2>1. h \in History /\ h.stale = hist.stale
    BY <1>1, FieldTypes, AnswerType, AnswerStale, Zenon DEF SameStale
  <2>2. \/ cur.revalidate /\ hist' = [h EXCEPT !.stale = FALSE]
        \/ ~cur.revalidate /\ hist' = h /\ st' = st
    BY <1>5, Zenon DEF S2cEmit
  <2> HIDE DEF h
  <2>3. CASE cur.revalidate
    <3>1. ~hist'.stale
      BY <2>1, <2>2, <2>3, Zenon DEF History
    <3> QED
      BY <3>1, Zenon DEF FreshInv
  <2>4. CASE ~cur.revalidate
    BY <2>1, <2>2, <2>4, Zenon DEF FreshInv
  <2> QED
    BY <2>3, <2>4, Zenon
<1> QED
  BY <1>2, <1>3, <1>4, <1>5, Zenon

\* When the held list_changed notification is forwarded, the verified set
\* comes from a listing that was requested after the last list_changed
\* (verify_and_emit_list takes the queued revalidation before it drains).
THEOREM ForwardedFresh == Spec => []FreshNotification
<1>1. Init => FreshInv
  <2>1. Init => hist.stale = FALSE
    BY DEF Init
  <2> QED
    BY <2>1, Zenon DEF FreshInv
<1>2. TypeOK /\ DispatchInv /\ FreshInv /\ [Next]_vars => FreshInv'
  BY C2sFresh, FailFresh, AnswerFresh, QuietFresh, QueueFresh, Zenon
  DEF Next, S2cStep, Reads
<1>3. DispatchInv /\ FreshInv => FreshNotification
  BY Zenon DEF FreshInv, FreshNotification, DispatchInv, CollectionInv
<1> QED
  BY <1>1, <1>2, <1>3, ListingCorrect, PTL DEF Spec

=============================================================================
