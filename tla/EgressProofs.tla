------------------------------ MODULE EgressProofs ------------------------------
(***************************************************************************)
(* The safety properties of both routes, for every number of calls,        *)
(* workers, grants, slots and ticks, with the gate of GrantLedger writing  *)
(* the snapshot beside them: no worker of the supervisor connects a socket *)
(* without a durable record and a live grant, no task learns of a success  *)
(* that is not recorded, the supervisor ends quietly; no program of the    *)
(* kernel lets a flow pass on a torn, stale or expired grant, and no       *)
(* denial is lost.                                                         *)
(***************************************************************************)
EXTENDS Egress, TLAPS

--------------------------------------------------------------------------------
(* What a route may rely on while the DNS gate runs beside it: whatever    *)
(* the snapshot file or an image of it says of a grant, the gate had       *)
(* recorded a query for its name, and its expiry in whole seconds is not   *)
(* later than the latest one the table had for it.                         *)

Named(k) == \E q \in recorded : Asks[q] = k.name

EnvTyped ==
  /\ now \in Nat
  /\ grants \in [Keys -> Nat]
  /\ high \in [Keys -> Nat]
  /\ draft \in [Keys -> Int]
  /\ file \in [Keys -> Int]
  /\ sink \in {"up", "failed"}

\* An image holds no grant longer than the table ever did.
Within(image) == \A k \in Keys : image[k] <= Secs(high[k])

EnvInv ==
  /\ EnvTyped
  /\ \A k \in Keys : grants[k] <= high[k] /\ (high[k] > 0 => Named(k))
  /\ Within(draft) /\ Within(file)

LEMMA SecsNat == ASSUME NEW t \in Nat PROVE Secs(t) \in Nat
  BY LimitsTyped DEF Secs

\* Rounding down to seconds keeps the order of two instants.
LEMMA SecsMonotone ==
  ASSUME NEW s \in Nat, NEW t \in Nat, s <= t
  PROVE  Secs(s) <= Secs(t)
<1>. DEFINE a == s \div SecTicks
            b == t \div SecTicks
<1>1. a \in Nat /\ b \in Nat
  BY LimitsTyped
<1>2. a * SecTicks <= s
  BY LimitsTyped
<1>3. t < (b + 1) * SecTicks
  BY LimitsTyped
<1>4. ASSUME b < a PROVE FALSE
  <2>1. b + 1 <= a
    BY <1>1, <1>4
  <2>2. (b + 1) * SecTicks <= a * SecTicks
    BY <1>1, <2>1, LimitsTyped
  <2>. QED BY <1>1, <1>2, <1>3, <2>2, LimitsTyped
<1>. QED BY <1>1, <1>4 DEF Secs

\* A grant that an image still shows at the second of t is live at t.
LEMMA LiveInSeconds ==
  ASSUME NEW t \in Nat, NEW h \in Nat, NEW e \in Int, Secs(t) < e, e <= Secs(h)
  PROVE  t < h
<1>1. Secs(t) \in Nat /\ Secs(h) \in Nat
  BY SecsNat
<1>2. h <= t => Secs(h) <= Secs(t)
  BY SecsMonotone
<1>. QED BY <1>1, <1>2

\* The history of expiries and of recorded queries only grows.
Grows ==
  /\ recorded \subseteq recorded'
  /\ \A k \in Keys : high[k] <= high'[k]

LEMMA WithinGrows ==
  ASSUME NEW image \in [Keys -> Int], Within(image), Grows,
         high \in [Keys -> Nat], high' \in [Keys -> Nat]
  PROVE  \A k \in Keys : image[k] <= Secs(high'[k])
<1>. SUFFICES ASSUME NEW k \in Keys PROVE image[k] <= Secs(high'[k])
  OBVIOUS
<1>1. high[k] \in Nat /\ high'[k] \in Nat /\ high[k] <= high'[k]
  BY DEF Grows
<1>2. Secs(high[k]) \in Nat /\ Secs(high'[k]) \in Nat /\ Secs(high[k]) <= Secs(high'[k])
  BY <1>1, SecsNat, SecsMonotone
<1>3. image[k] \in Int /\ image[k] <= Secs(high[k])
  BY DEF Within
<1>. QED BY <1>2, <1>3

\* EnvInit establishes the invariant of the environment.
LEMMA EnvInitInv == EnvInit => EnvInv
<1>. SUFFICES ASSUME EnvInit PROVE EnvInv
  OBVIOUS
<1>1. now = 0 /\ grants = NoGrants /\ draft = NoImage /\ file = NoImage
      /\ high = NoGrants /\ sink = "up"
  BY DEF EnvInit, Ledger!Init, NoGrants, Ledger!NoGrants, NoImage, Ledger!NoImage, Keys,
         Ledger!Keys
<1>2. EnvTyped
  BY <1>1 DEF EnvTyped, NoGrants, NoImage
<1>3. \A k \in Keys : Secs(high[k]) \in Nat
  BY <1>2, SecsNat DEF EnvTyped
<1>4. \A k \in Keys : grants[k] = 0 /\ high[k] = 0 /\ draft[k] = -1 /\ file[k] = -1
  BY <1>1 DEF NoGrants, NoImage
<1>. QED BY <1>2, <1>3, <1>4 DEF EnvInv, Within

\* The image of a table whose expiries the history bounds is within it.
LEMMA ImageWithin ==
  ASSUME EnvInv
  PROVE  Image(grants, now) \in [Keys -> Int] /\ Within(Image(grants, now))
<1>1. \A k \in Keys : grants[k] \in Nat /\ high[k] \in Nat /\ grants[k] <= high[k]
  BY DEF EnvInv, EnvTyped
<1>2. \A k \in Keys : /\ Secs(grants[k]) \in Nat /\ Secs(high[k]) \in Nat
                      /\ Secs(grants[k]) <= Secs(high[k])
  BY <1>1, SecsNat, SecsMonotone
<1>3. \A k \in Keys : Image(grants, now)[k] \in {0, Secs(grants[k])}
  BY DEF Image
<1>4. Image(grants, now) \in [Keys -> Int]
  BY <1>2, <1>3 DEF Image
<1>. QED BY <1>2, <1>3, <1>4 DEF Within

\* A step of the gate, or of the clock, keeps the invariant, and takes nothing
\* out of the history.
LEMMA GateKeeps == EnvInv /\ Gate => EnvInv' /\ Grows
<1>. SUFFICES ASSUME EnvInv, Gate PROVE EnvInv' /\ Grows
  OBVIOUS
<1>. USE DEF Named
<1>1. /\ now \in Nat /\ grants \in [Keys -> Nat] /\ high \in [Keys -> Nat]
      /\ draft \in [Keys -> Int] /\ file \in [Keys -> Int] /\ sink \in {"up", "failed"}
  BY DEF EnvInv, EnvTyped
<1>2. \A k \in Keys : grants[k] <= high[k] /\ (high[k] > 0 => Named(k))
  BY DEF EnvInv
<1>3. /\ sink' = sink
      /\ high' = [k \in Keys |-> IF grants'[k] > high[k] THEN grants'[k] ELSE high[k]]
  BY DEF Gate
<1>4. Within(draft) /\ Within(file) /\ Within(Image(grants, now))
      /\ Image(grants, now) \in [Keys -> Int]
  BY ImageWithin DEF EnvInv
<1>5. /\ now' \in Nat /\ grants' \in [Keys -> Nat] /\ recorded \subseteq recorded'
      /\ draft' \in {draft, NoImage, Image(grants, now)} /\ file' \in {file, draft}
      /\ \A k \in Keys : grants'[k] > grants[k] => Named(k)
  <2>. Ledger!Keys = Keys /\ Ledger!NoImage = NoImage
       /\ Ledger!Image(grants, now) = Image(grants, now)
       /\ Ledger!Swept(grants, now) = Swept(grants, now)
    BY DEF Keys, Ledger!Keys, NoImage, Ledger!NoImage, Image, Ledger!Image, Secs, Ledger!Secs,
           Swept, Ledger!Swept
  <2>0. \A k \in Keys : grants[k] \in Nat /\ ~ (grants[k] > grants[k])
    BY <1>1
  <2>1. CASE Ledger!Tick
    <3>1. now' = now + 1 /\ UNCHANGED <<grants, recorded, draft, file>>
      BY <2>1 DEF Ledger!Tick
    <3>. QED BY <3>1, <1>1, <2>0
  <2>2. CASE Ledger!Sweep
    <3>1. grants' = Swept(grants, now) /\ UNCHANGED <<now, recorded, draft, file>>
      BY <2>2 DEF Ledger!Sweep
    <3>2. \A k \in Keys : grants'[k] \in {grants[k], 0}
      BY <3>1 DEF Swept
    <3>3. grants' \in [Keys -> Nat] /\ \A k \in Keys : ~ (grants'[k] > grants[k])
      BY <3>1, <3>2, <2>0 DEF Swept
    <3>. QED BY <3>1, <3>3, <1>1
  <2>3. CASE Ledger!Record
    <3>1. recorded \subseteq recorded' /\ UNCHANGED <<now, grants, draft, file>>
      BY <2>3 DEF Ledger!Record
    <3>. QED BY <3>1, <1>1, <2>0
  <2>4. CASE Ledger!Publish
    <3>1. PICK q \in recorded :
            /\ grants' \in [Keys -> 0..(now + MaxTTL)]
            /\ \A k \in Keys : grants'[k] # grants[k] => k.name = Asks[q]
            /\ UNCHANGED <<now, recorded, draft, file>>
      BY <2>4 DEF Ledger!Publish
    <3>2. grants' \in [Keys -> Nat]
      BY <3>1, <1>1, LimitsTyped
    <3>3. \A k \in Keys : grants'[k] > grants[k] => Named(k)
      BY <3>1, <2>0
    <3>. QED BY <3>1, <3>2, <3>3, <1>1
  <2>5. CASE Ledger!Snapshot
    <3>1. draft' = Image(grants, now) /\ UNCHANGED <<now, grants, recorded, file>>
      BY <2>5 DEF Ledger!Snapshot
    <3>. QED BY <3>1, <1>1, <2>0
  <2>6. CASE Ledger!Replace
    <3>1. file' = draft /\ draft' = NoImage /\ UNCHANGED <<now, grants, recorded>>
      BY <2>6 DEF Ledger!Replace
    <3>. QED BY <3>1, <1>1, <2>0
  <2>7. CASE Ledger!Discard
    <3>1. draft' = NoImage /\ UNCHANGED <<now, grants, recorded, file>>
      BY <2>7 DEF Ledger!Discard
    <3>. QED BY <3>1, <1>1, <2>0
  <2>8. Ledger!Next
    BY DEF Gate
  <2>. QED BY <2>1, <2>2, <2>3, <2>4, <2>5, <2>6, <2>7, <2>8 DEF Ledger!Next
<1>6. high' \in [Keys -> Nat]
  BY <1>1, <1>3, <1>5
<1>7. \A k \in Keys : high[k] <= high'[k] /\ grants'[k] <= high'[k]
  BY <1>1, <1>3, <1>5
<1>8. Grows
  BY <1>5, <1>7 DEF Grows
<1>9. \A k \in Keys : high'[k] > 0 => Named(k)'
  <2>. SUFFICES ASSUME NEW k \in Keys, high'[k] > 0 PROVE Named(k)'
    OBVIOUS
  <2>1. Named(k)
    BY <1>1, <1>2, <1>3, <1>5
  <2>. QED BY <2>1, <1>5
<1>10. draft' \in [Keys -> Int] /\ file' \in [Keys -> Int]
  BY <1>1, <1>4, <1>5 DEF NoImage
<1>11. \A k \in Keys : draft'[k] <= Secs(high'[k]) /\ file'[k] <= Secs(high'[k])
  <2>1. \A k \in Keys : NoImage[k] <= Secs(high[k])
    BY <1>1, SecsNat DEF NoImage
  <2>2. NoImage \in [Keys -> Int] /\ Within(NoImage)
    BY <2>1 DEF NoImage, Within
  <2>3. Within(draft') /\ Within(file')
    BY <1>4, <1>5, <2>2
  <2>. QED BY <1>1, <1>6, <1>8, <1>10, <2>3, WithinGrows
<1>12. EnvTyped'
  BY <1>1, <1>3, <1>5, <1>6, <1>10 DEF EnvTyped
<1>. QED BY <1>7, <1>8, <1>9, <1>11, <1>12 DEF EnvInv, Within

\* What the gate knew of a call it goes on knowing.
LEMMA LiveGrantGrows ==
  ASSUME EnvInv, EnvInv', Grows, NEW c \in Calls, judged[c] \in Int,
         dest'[c] = dest[c], judged'[c] = judged[c]
  PROVE  LiveGrant(c) => LiveGrant(c)'
<1>. SUFFICES ASSUME LiveGrant(c) PROVE LiveGrant(c)'
  OBVIOUS
<1>1. PICK k \in Keys : /\ k.addr = dest[c] /\ judged[c] < high[k]
                        /\ \E q \in recorded : Asks[q] = k.name
  BY DEF LiveGrant
<1>2. high[k] \in Nat /\ high'[k] \in Nat /\ high[k] <= high'[k]
  BY DEF Grows, EnvInv, EnvTyped
<1>3. judged'[c] < high'[k]
  BY <1>1, <1>2
<1>4. \E q \in recorded' : Asks[q] = k.name
  BY <1>1 DEF Grows
<1>5. dest'[c] \notin DeniedAddrs \cup Protected
  BY DEF LiveGrant
<1>. QED BY <1>1, <1>3, <1>4, <1>5 DEF LiveGrant

\* A step of the route leaves the gate and its history alone.
LEMMA RouteFrame ==
  ASSUME EnvInv, UNCHANGED env, sink' \in {"up", "failed"}
  PROVE  EnvInv' /\ Grows
<1>1. high \in [Keys -> Nat]
  BY DEF EnvInv, EnvTyped
<1>2. Grows
  BY <1>1 DEF Grows, env
<1>3. EnvInv'
  BY DEF EnvInv, EnvTyped, Within, Named, env
<1>. QED BY <1>2, <1>3

--------------------------------------------------------------------------------
(* The supervisor of the notification route.                               *)

USE RouteTyped

Judging == {"inspect", "names", "grants", "verdict", "authorize", "queue"}
Untaken == {"idle", "never", "queued"}

UTyped ==
  /\ call \in [Calls -> {"idle", "never", "queued", "received", "answered", "gone"}]
  /\ dest \in [Calls -> Dests \cup {NoAddr}]
  /\ judged \in [Calls -> Int]
  /\ basis \in [Calls -> {"none", "family", "deny", "rule", "open", "grant"}]
  /\ worker \in [Calls -> {"none", "start", "send", "wake", "exited"}]
  /\ entries \in [Keys -> Int]
  /\ cur \in Calls \cup {NoCall}
  /\ sent \subseteq Calls
  /\ back \in {"poll", "results", "flush"}

\* What a verdict in favour of a call stands on.
Grounds(c) ==
  basis[c] \in {"rule", "open", "grant"} /\ (basis[c] = "grant" => LiveGrant(c))

Approved(c) == basis[c] = "family" \/ (Grounds(c) /\ <<"authorize", c>> \in records)

\* A call that the loop has not taken, or is judging, has no worker; one that
\* the loop has judged has grounds; one about to be queued has its record; and
\* the cache of the supervisor is within the history of the gate.
UInv ==
  /\ EnvInv /\ UTyped /\ Within(entries)
  /\ \A c \in Calls : call[c] \in Untaken => worker[c] = "none"
  /\ pc \in Judging => cur \in Calls /\ worker[cur] = "none" /\ call[cur] \notin Untaken
  /\ pc \in {"deny", "refuse", "join", "established", "answer"} => cur \in Calls
  /\ \A c \in Calls :
       /\ pc = "authorize" /\ cur = c => Grounds(c)
       /\ pc = "queue" /\ cur = c => Approved(c)
       /\ worker[c] # "none" => Approved(c)

\* Sanity of the statement: the invariant contains the property.
LEMMA InvAuthorises == UInv => ConnectsAuthorised
  BY Zenon DEF UInv, ConnectsAuthorised, Approved, Grounds

LEMMA UInitInv == UnotifyInit => UInv
<1>. SUFFICES ASSUME UnotifyInit PROVE UInv
  OBVIOUS
<1>1. EnvInv
  BY EnvInitInv, Zenon DEF UnotifyInit
<1>2. UTyped
  BY DEF UnotifyInit, SupervisorFresh, RouteInit, UTyped, NoGrants
<1>3. Within(entries)
  <2>1. \A k \in Keys : Secs(high[k]) \in Nat
    BY <1>1, SecsNat, Zenon DEF EnvInv, EnvTyped
  <2>. QED BY <2>1 DEF UnotifyInit, NoGrants, Within
<1>. QED BY <1>1, <1>2, <1>3, Zenon DEF UnotifyInit, SupervisorFresh, UInv, Judging

\* What the gate knew of a call it goes on knowing.
LEMMA GroundsGrow ==
  ASSUME EnvInv, EnvInv', Grows, NEW c \in Calls, judged[c] \in Int,
         dest'[c] = dest[c], judged'[c] = judged[c], basis'[c] = basis[c],
         records \subseteq records'
  PROVE  (Grounds(c) => Grounds(c)') /\ (Approved(c) => Approved(c)')
<1>1. LiveGrant(c) => LiveGrant(c)'
  BY LiveGrantGrows, Zenon
<1>2. Grounds(c) => Grounds(c)'
  BY <1>1, Zenon DEF Grounds
<1>. QED BY <1>2, Zenon DEF Approved

LEMMA OutsideKeeps == UInv /\ UnotifyOutside => UInv'
<1>. SUFFICES ASSUME UInv, UnotifyOutside PROVE UInv'
  OBVIOUS
<1>1. UNCHANGED <<call, reply, basis, pc, cur, back, ready, sig, entries, pending, worker,
                  outcome, sent, counter>>
  BY Zenon DEF UnotifyOutside, kernel, loop, cache, pool
<1>2. UNCHANGED <<dest, judged, records>>
  BY Zenon DEF UnotifyOutside, Gate, SinkFails, AskStop
<1>3. EnvInv' /\ Grows
  <2>1. CASE Gate
    BY <2>1, GateKeeps, Zenon DEF UInv
  <2>2. CASE SinkFails
    BY <2>2, RouteFrame, Zenon DEF SinkFails, UInv
  <2>3. CASE AskStop
    <3>1. sink' \in {"up", "failed"}
      BY <2>3, Zenon DEF AskStop, UInv, EnvInv, EnvTyped
    <3>. QED BY <2>3, <3>1, RouteFrame, Zenon DEF AskStop, UInv
  <2>. QED BY <2>1, <2>2, <2>3, Zenon DEF UnotifyOutside
<1>4. UTyped'
  BY <1>1, <1>2, Zenon DEF UInv, UTyped
<1>5. Within(entries)'
  BY <1>1, <1>3, WithinGrows, Zenon DEF UInv, UTyped, EnvInv, EnvTyped, Within
<1>6. \A c \in Calls : (Grounds(c) => Grounds(c)') /\ (Approved(c) => Approved(c)')
  <2>. SUFFICES ASSUME NEW c \in Calls
                PROVE  (Grounds(c) => Grounds(c)') /\ (Approved(c) => Approved(c)')
    OBVIOUS
  <2>1. judged[c] \in Int
    BY Zenon DEF UInv, UTyped
  <2>2. EnvInv
    BY Zenon DEF UInv
  <2>. QED BY <1>1, <1>2, <1>3, <2>1, <2>2, GroundsGrow, Zenon
<1>. QED BY <1>1, <1>3, <1>4, <1>5, <1>6, Zenon DEF UInv, Judging

\* A step of the route that leaves the verdicts alone and adds only records.
LEMMA QuietFrame ==
  ASSUME UInv, UNCHANGED <<env, sink, verdict>>, records \subseteq records'
  PROVE  EnvInv' /\ \A c \in Calls : (Grounds(c) => Grounds(c)') /\ (Approved(c) => Approved(c)')
<1>1. EnvInv /\ sink' \in {"up", "failed"}
  BY Zenon DEF UInv, EnvInv, EnvTyped
<1>2. EnvInv' /\ Grows
  BY <1>1, RouteFrame, Zenon
<1>3. \A c \in Calls : judged[c] \in Int
  BY Zenon DEF UInv, UTyped
<1>4. UNCHANGED <<dest, judged, basis>>
  BY Zenon DEF verdict
<1>. QED BY <1>1, <1>2, <1>3, <1>4, GroundsGrow, Zenon

\* ... and the workers and the cache too: the approved calls stay approved.
LEMMA QuietStep ==
  ASSUME UInv, UNCHANGED <<env, sink, verdict, worker, entries>>, records \subseteq records',
         call' \in [Calls -> {"idle", "never", "queued", "received", "answered", "gone"}],
         \A c \in Calls : call'[c] \in Untaken =>
                            call[c] \in Untaken,
         cur' \in Calls \cup {NoCall}, sent' \subseteq Calls,
         back' \in {"poll", "results", "flush"},
         pc' \in Judging => cur' \in Calls /\ worker[cur'] = "none" /\ call'[cur'] \notin Untaken,
         pc' \in {"deny", "refuse", "join", "established", "answer"} => cur' \in Calls,
         \A c \in Calls : /\ pc' = "authorize" /\ cur' = c => Grounds(c)'
                          /\ pc' = "queue" /\ cur' = c => Approved(c)'
  PROVE  UInv'
<1>1. EnvInv' /\ \A c \in Calls : Approved(c) => Approved(c)'
  BY QuietFrame, Zenon
<1>2. UTyped'
  BY Zenon DEF UInv, UTyped, verdict
<1>3. Within(entries)'
  BY Zenon DEF UInv, Within, env
<1>4. \A c \in Calls : worker'[c] # "none" => Approved(c)'
  BY <1>1, Zenon DEF UInv
<1>5. \A c \in Calls : call'[c] \in Untaken => worker'[c] = "none"
  BY ZenonT(30) DEF UInv
<1>. QED BY <1>1, <1>2, <1>3, <1>4, <1>5, Zenon DEF UInv

\* The steps of the task: a call appears, or disappears.
LEMMA TaskKeeps == UInv /\ (Issue \/ Die) => UInv'
<1>. SUFFICES ASSUME UInv, Issue \/ Die PROVE UInv'
  OBVIOUS
<1>1. /\ UNCHANGED <<env, sink, verdict, worker, entries, records, cur, sent, back, pc>>
      /\ UNCHANGED <<dest, judged, basis>>
  BY Zenon DEF Issue, Die, verdict, loop, cache, pool
<1>2. /\ call' \in [Calls -> {"idle", "never", "queued", "received", "answered", "gone"}]
      /\ \A c \in Calls : call'[c] \in Untaken =>
                            call[c] \in Untaken
  BY DEF Issue, Die, Parked, UInv, UTyped, Untaken
<1>3. \A c \in Calls : (Grounds(c) => Grounds(c)') /\ (Approved(c) => Approved(c)')
  BY <1>1, QuietFrame, Zenon
<1>4. cur \in Calls \cup {NoCall} /\ sent \subseteq Calls /\ back \in {"poll", "results", "flush"}
  BY Zenon DEF UInv, UTyped
<1>5. /\ pc \in Judging => cur \in Calls /\ worker[cur] = "none" /\ call[cur] \notin Untaken
      /\ pc \in {"deny", "refuse", "join", "established", "answer"} => cur \in Calls
  BY Zenon DEF UInv
<1>6. \A c \in Calls : /\ pc = "authorize" /\ cur = c => Grounds(c)
                       /\ pc = "queue" /\ cur = c => Approved(c)
  BY Zenon DEF UInv
<1>. QED BY <1>1, <1>2, <1>3, <1>4, <1>5, <1>6, QuietStep, Zenon

\* The steps of the loop that neither judge nor start a worker.
LEMMA BookkeepingKeeps ==
  ASSUME UInv,
         \/ Poll \/ DrainResults \/ Take \/ Drained \/ Recv \/ Deny \/ Join \/ Established
         \/ Answer \/ Release \/ End
  PROVE  UInv'
<1>. DEFINE States == {"idle", "never", "queued", "received", "answered", "gone"}
<1>. USE DEF Untaken
<1>1. /\ call \in [Calls -> States] /\ sent \subseteq Calls
      /\ back \in {"poll", "results", "flush"} /\ cur \in Calls \cup {NoCall}
      /\ \A c \in Calls : call[c] \in Untaken => worker[c] = "none"
      /\ pc \in {"deny", "refuse", "join", "established", "answer"} => cur \in Calls
  BY Zenon DEF UInv, UTyped
<1>2. UNCHANGED <<env, sink, verdict, worker, entries>> /\ records \subseteq records'
  BY Zenon DEF Poll, DrainResults, Take, Drained, Recv, Deny, Join, Established, Answer, Release, End,
         Committed, cache, pool
<1>3. call' \in [Calls -> States] /\ \A c \in Calls : call'[c] \in Untaken => call[c] \in Untaken
  <2>1. CASE call' = call
    BY <2>1, <1>1, Zenon
  <2>2. CASE Recv
    BY <2>2, <1>1, Zenon DEF Recv
  <2>3. CASE \E S, r : Respond(S, r)
    BY <2>3, <1>1, Zenon DEF Respond
  <2>4. CASE End
    BY <2>4, <1>1, Zenon DEF End, Parked
  <2>5. Answer \/ Release => \E S, r : Respond(S, r)
    BY Zenon DEF Answer, Release
  <2>6. Poll \/ DrainResults \/ Take \/ Drained \/ Deny \/ Join \/ Established => call' = call
    BY Zenon DEF Poll, DrainResults, Take, Drained, Deny, Join, Established, kernel
  <2>. QED BY <2>1, <2>2, <2>3, <2>4, <2>5, <2>6, Zenon
<1>4. /\ sent' \subseteq Calls /\ back' \in {"poll", "results", "flush"}
      /\ cur' \in Calls \cup {NoCall}
      /\ pc' \in Judging => cur' \in Calls /\ worker[cur'] = "none" /\ call'[cur'] \notin Untaken
      /\ pc' \in {"deny", "refuse", "join", "established", "answer"} => cur' \in Calls
      /\ pc' \notin {"authorize", "queue"}
  <2>1. CASE Poll
    BY <2>1, <1>1, ZenonT(30) DEF Poll, Goto, pool, Judging
  <2>2. CASE DrainResults
    BY <2>2, <1>1, Zenon DEF DrainResults, Goto, Judging
  <2>3. CASE Take
    BY <2>3, <1>1, Zenon DEF Take, Goto, Judging
  <2>4. CASE Drained
    BY <2>4, <1>1, Zenon DEF Drained, Goto, pool, Judging
  <2>5. CASE Recv
    BY <2>5, <1>1, Zenon DEF Recv, Goto, pool, Judging
  <2>6. CASE Deny
    BY <2>6, <1>1, Zenon DEF Deny, Goto, pool, Judging
  <2>7. CASE Join
    BY <2>7, <1>1, Zenon DEF Join, Goto, Judging
  <2>8. CASE Established
    BY <2>8, <1>1, Zenon DEF Established, Goto, pool, Judging
  <2>9. CASE Answer
    BY <2>9, <1>1, Zenon DEF Answer, Goto, pool, Judging
  <2>10. CASE Release
    BY <2>10, <1>1, Zenon DEF Release, Goto, pool, Judging
  <2>11. CASE End
    BY <2>11, <1>1, Zenon DEF End, Goto, Judging
  <2>. QED BY <2>1, <2>2, <2>3, <2>4, <2>5, <2>6, <2>7, <2>8, <2>9, <2>10, <2>11, ZenonT(30)
<1>. QED BY <1>2, <1>3, <1>4, QuietStep, Zenon

\* A step that changes the verdict of a call without a worker alone.
LEMMA VerdictStep ==
  ASSUME UInv, UNCHANGED <<env, sink, records, worker, entries, sent>>, NEW x \in Calls,
         worker[x] = "none",
         \A c \in Calls \ {x} : /\ dest'[c] = dest[c] /\ judged'[c] = judged[c]
                                /\ basis'[c] = basis[c],
         UTyped',
         \A c \in Calls : call'[c] \in Untaken =>
                            call[c] \in Untaken,
         pc' \in Judging => cur' = x /\ call[x] \notin Untaken,
         pc' \in {"deny", "refuse", "join", "established", "answer"} => cur' \in Calls,
         pc' = "authorize" => Grounds(x)',
         pc' = "queue" => Approved(x)'
  PROVE  UInv'
<1>1. EnvInv /\ sink' \in {"up", "failed"}
  BY ZenonT(30) DEF UInv, EnvInv, EnvTyped
<1>2. EnvInv' /\ Grows
  BY <1>1, RouteFrame, Zenon
<1>3. \A c \in Calls : judged[c] \in Int
  BY ZenonT(30) DEF UInv, UTyped
<1>4. \A c \in Calls \ {x} : Approved(c) => Approved(c)'
  BY <1>1, <1>2, <1>3, GroundsGrow, ZenonT(30)
<1>5. \A c \in Calls : worker'[c] # "none" => Approved(c)'
  BY <1>4, ZenonT(30) DEF UInv
<1>6. Within(entries)'
  BY ZenonT(30) DEF UInv, Within, env
<1>7. \A c \in Calls : call'[c] \in Untaken => worker'[c] = "none"
  BY Zenon DEF UInv
<1>8. \A c \in Calls : /\ pc' = "authorize" /\ cur' = c => Grounds(c)'
                       /\ pc' = "queue" /\ cur' = c => Approved(c)'
  BY Zenon DEF Judging
<1>. QED BY <1>2, <1>5, <1>6, <1>7, <1>8, ZenonT(30) DEF UInv

LEMMA InspectKeeps == UInv /\ Inspect => UInv'
<1>. SUFFICES ASSUME UInv, Inspect PROVE UInv'
  OBVIOUS
<1>1. /\ UNCHANGED <<env, sink, records, worker, entries, sent, call, back>>
      /\ cur \in Calls /\ worker[cur] = "none" /\ call[cur] \notin Untaken
  BY Zenon DEF Inspect, cache, pool, kernel, UInv, Judging
<1>2. UTyped'
  BY <1>1 DEF Inspect, Goto, verdict, UInv, UTyped
<1>3. \A c \in Calls \ {cur} : dest'[c] = dest[c] /\ judged'[c] = judged[c] /\ basis'[c] = basis[c]
  BY <1>1, ZenonT(30) DEF Inspect, verdict, UInv, UTyped
<1>4. /\ pc' \in Judging => cur' = cur
      /\ pc' \in {"deny", "refuse", "join", "established", "answer"} => cur' \in Calls
      /\ pc' # "authorize"
  BY <1>1, Zenon DEF Inspect, Goto, Judging
<1>5. ASSUME NEW x \in Calls, x = cur, pc' = "queue" PROVE Approved(x)'
  <2>1. basis'[x] = "family"
    BY <1>1, <1>5, Zenon DEF Inspect, Goto, UInv, UTyped
  <2>. QED BY <2>1, Zenon DEF Approved
<1>. QED BY <1>1, <1>2, <1>3, <1>4, <1>5, VerdictStep, Zenon

\* The cache is emptied, kept, or replaced by the file.
LEMMA RefreshKeeps == UInv /\ (LiveNames \/ HasGrant) => UInv'
<1>. SUFFICES ASSUME UInv, LiveNames \/ HasGrant PROVE UInv'
  OBVIOUS
<1>1. /\ UNCHANGED <<env, sink, verdict, worker, records, call, sent, back>>
      /\ cur' = cur /\ pc' \in {"grants", "verdict"} /\ pc \in {"names", "grants"}
  BY Zenon DEF LiveNames, HasGrant, Goto, pool, kernel
<1>2. entries' \in {NoGrants, entries, file}
  BY Zenon DEF LiveNames, HasGrant, Refresh, cache
<1>3. EnvInv /\ EnvInv' /\ \A c \in Calls : Approved(c) => Approved(c)'
  BY <1>1, QuietFrame, Zenon DEF UInv
<1>4. entries' \in [Keys -> Int] /\ \A k \in Keys : entries'[k] <= Secs(high[k])
  <2>1. \A k \in Keys : Secs(high[k]) \in Nat
    BY <1>3, SecsNat, Zenon DEF EnvInv, EnvTyped
  <2>2. NoGrants \in [Keys -> Int] /\ Within(NoGrants)
    BY <2>1 DEF NoGrants, Within
  <2>3. file \in [Keys -> Int] /\ Within(file) /\ entries \in [Keys -> Int] /\ Within(entries)
    BY Zenon DEF UInv, UTyped, EnvInv, EnvTyped
  <2>. QED BY <1>2, <2>2, <2>3, Zenon DEF Within
<1>5. UTyped'
  BY <1>1, <1>4, Zenon DEF UInv, UTyped, verdict
<1>6. Within(entries)'
  BY <1>1, <1>4, ZenonT(30) DEF Within, env
<1>7. \A c \in Calls : worker'[c] # "none" => Approved(c)'
  BY <1>1, <1>3, Zenon DEF UInv
<1>8. cur' \in Calls /\ worker'[cur'] = "none" /\ call'[cur'] \notin Untaken
  BY <1>1, Zenon DEF UInv, Judging
<1>9. \A c \in Calls : call'[c] \in Untaken => worker'[c] = "none"
  BY <1>1, ZenonT(30) DEF UInv
<1>. QED BY <1>1, <1>3, <1>5, <1>6, <1>7, <1>8, <1>9, Zenon DEF UInv

\* A grant that the cache shows at the second of the verdict is live then.
LEMMA VerdictKeeps == UInv /\ Verdict => UInv'
<1>. SUFFICES ASSUME UInv, Verdict PROVE UInv'
  OBVIOUS
<1>1. /\ UNCHANGED <<env, sink, records, worker, entries, sent, call, back, dest>>
      /\ cur \in Calls /\ worker[cur] = "none" /\ call[cur] \notin Untaken /\ cur' = cur
  BY Zenon DEF Verdict, Goto, cache, pool, kernel, UInv, Judging
<1>2. PICK x \in Calls : x = cur
  BY <1>1, Zenon
<1>3. /\ judged' = [judged EXCEPT ![x] = now]
      /\ basis' = [basis EXCEPT ![x] = Basis(dest[x], Covered(dest[x]))]
      /\ pc' = IF basis'[x] = "deny" THEN "deny" ELSE "authorize"
  BY <1>2, Zenon DEF Verdict, Goto
<1>4. judged \in [Calls -> Int] /\ now \in Nat
      /\ basis \in [Calls -> {"none", "family", "deny", "rule", "open", "grant"}]
  BY Zenon DEF UInv, UTyped, EnvInv, EnvTyped
<1>5. Basis(dest[x], Covered(dest[x])) \in {"deny", "rule", "open", "grant"}
  BY Zenon DEF Basis
<1>6. judged'[x] = now /\ basis'[x] = Basis(dest[x], Covered(dest[x])) /\ dest'[x] = dest[x]
  BY <1>1, <1>3, <1>4, Zenon
<1>7. UTyped'
  <2>1. judged' \in [Calls -> Int]
    BY <1>3, <1>4
  <2>2. basis' \in [Calls -> {"none", "family", "deny", "rule", "open", "grant"}]
    BY <1>3, <1>4, <1>5, ZenonT(30)
  <2>. QED BY <1>1, <2>1, <2>2, Zenon DEF UInv, UTyped
<1>8. ASSUME basis'[x] = "grant" PROVE LiveGrant(x)'
  <2>1. dest[x] \notin DeniedAddrs \cup Protected /\ Covered(dest[x])
    BY <1>6, <1>8, Zenon DEF Basis
  <2>2. PICK k \in Keys : k.addr = dest[x] /\ entries[k] > Secs(now)
    BY <2>1, Zenon DEF Covered
  <2>3. /\ entries[k] \in Int /\ high[k] \in Nat /\ entries[k] <= Secs(high[k])
        /\ high[k] > 0 => Named(k)
    BY Zenon DEF UInv, UTyped, EnvInv, EnvTyped, Within
  <2>4. now < high[k]
    BY <1>4, <2>2, <2>3, SecsNat, LiveInSeconds, Zenon
  <2>5. Named(k)
    BY <1>4, <2>3, <2>4
  <2>6. high' = high /\ recorded' = recorded
    BY <1>1, Zenon DEF env
  <2>. QED BY <1>6, <2>1, <2>2, <2>4, <2>5, <2>6, Zenon DEF LiveGrant, Named
<1>9. pc' = "authorize" => Grounds(x)'
  BY <1>3, <1>5, <1>6, <1>8, Zenon DEF Grounds
<1>10. \A c \in Calls \ {x} : dest'[c] = dest[c] /\ judged'[c] = judged[c] /\ basis'[c] = basis[c]
  BY <1>1, <1>3, <1>4, Zenon
<1>11. pc' \in {"deny", "authorize"}
  BY <1>3, Zenon
<1>. QED BY <1>1, <1>2, <1>7, <1>9, <1>10, <1>11, VerdictStep, ZenonT(30) DEF Judging

\* Only a sink that took the record lets the connect be queued.
LEMMA AuthorizeKeeps == UInv /\ Authorize => UInv'
<1>. SUFFICES ASSUME UInv, Authorize PROVE UInv'
  OBVIOUS
<1>1. /\ UNCHANGED <<env, sink, verdict, worker, entries, sent, call, back>>
      /\ pc = "authorize" /\ cur \in Calls /\ worker[cur] = "none" /\ call[cur] \notin Untaken /\ cur' = cur
      /\ records \subseteq records' /\ pc' \in {"queue", "deny"}
      /\ pc' = "queue" => <<"authorize", cur>> \in records'
  BY ZenonT(30) DEF Authorize, Committed, Goto, cache, pool, kernel, UInv, Judging
<1>2. \A c \in Calls : (Grounds(c) => Grounds(c)') /\ (Approved(c) => Approved(c)')
  BY <1>1, QuietFrame, Zenon
<1>3. \A c \in Calls : pc' = "queue" /\ cur' = c => Approved(c)'
  BY <1>1, <1>2, Zenon DEF UInv, Approved
<1>4. /\ call \in [Calls -> {"idle", "never", "queued", "received", "answered", "gone"}]
      /\ sent \subseteq Calls /\ back \in {"poll", "results", "flush"}
  BY Zenon DEF UInv, UTyped
<1>. QED BY <1>1, <1>3, <1>4, QuietStep, ZenonT(30)

\* The worker starts on a approved call.
LEMMA QueueKeeps == UInv /\ Queue => UInv'
<1>. SUFFICES ASSUME UInv, Queue PROVE UInv'
  OBVIOUS
<1>1. /\ UNCHANGED <<env, sink, verdict, entries, sent, call, back, records>>
      /\ pc = "queue" /\ cur \in Calls
  BY Zenon DEF Queue, cache, kernel, UInv, Judging
<1>2. \/ worker' = [worker EXCEPT ![cur] = "start"] /\ pc' = "poll" /\ cur' = NoCall
      \/ worker' = worker /\ pc' = "deny" /\ cur' = cur
  BY Zenon DEF Queue, Goto
<1>3. EnvInv' /\ \A c \in Calls : Approved(c) => Approved(c)'
  BY <1>1, QuietFrame, Zenon
<1>4. /\ worker \in [Calls -> {"none", "start", "send", "wake", "exited"}]
      /\ \A c \in Calls : (cur = c => Approved(c)) /\ (worker[c] # "none" => Approved(c))
  BY <1>1, Zenon DEF UInv, UTyped
<1>5. \A c \in Calls : worker'[c] # "none" => Approved(c)'
  BY <1>2, <1>3, <1>4, Zenon
<1>6. UTyped'
  BY <1>1, <1>2, ZenonT(30) DEF UInv, UTyped, verdict
<1>7. Within(entries)'
  BY <1>1, Zenon DEF UInv, Within, env
<1>8. call[cur] \notin Untaken
  BY <1>1, Zenon DEF UInv, Judging
<1>9. \A c \in Calls : call'[c] \in Untaken => worker'[c] = "none"
  BY <1>1, <1>2, <1>4, <1>8, Zenon DEF UInv
<1>. QED BY <1>1, <1>2, <1>3, <1>5, <1>6, <1>7, <1>9, Zenon DEF UInv, Judging

\* A refused call has no worker, or keeps its verdict.
LEMMA RefuseKeeps == UInv /\ Refuse => UInv'
<1>. SUFFICES ASSUME UInv, Refuse PROVE UInv'
  OBVIOUS
<1>1. /\ UNCHANGED <<env, sink, records, worker, entries, sent, back>>
      /\ cur \in Calls /\ cur' = NoCall /\ pc' = back /\ back \in {"poll", "results", "flush"}
      /\ sent \subseteq Calls
  BY ZenonT(30) DEF Refuse, Goto, cache, pool, UInv, UTyped
<1>2. /\ call' \in [Calls -> {"idle", "never", "queued", "received", "answered", "gone"}]
      /\ \A c \in Calls : call'[c] \in Untaken => call[c] \in Untaken
  BY ZenonT(30) DEF Refuse, Respond, UInv, UTyped, Untaken
<1>3. pc' \notin Judging \cup {"deny", "refuse", "join", "established", "answer"}
  BY <1>1, ZenonT(30) DEF Judging
<1>4. CASE worker[cur] # "none"
  <2>1. UNCHANGED verdict
    BY <1>4, ZenonT(30) DEF Refuse
  <2>. QED BY <1>1, <1>2, <1>3, <2>1, QuietStep, ZenonT(30) DEF Judging
<1>5. CASE worker[cur] = "none"
  <2>1. /\ dest' = [dest EXCEPT ![cur] = NoAddr] /\ judged' = [judged EXCEPT ![cur] = -1]
        /\ basis' = [basis EXCEPT ![cur] = "none"]
    BY <1>5, Zenon DEF Refuse
  <2>2. UTyped'
    BY <1>1, <1>2, <2>1 DEF UInv, UTyped
  <2>3. \A c \in Calls \ {cur} : /\ dest'[c] = dest[c] /\ judged'[c] = judged[c]
                                 /\ basis'[c] = basis[c]
    BY <1>1, <2>1, ZenonT(30) DEF UInv, UTyped
  <2>. QED BY <1>1, <1>2, <1>3, <1>5, <2>2, <2>3, VerdictStep, Zenon DEF Judging
<1>. QED BY <1>4, <1>5, Zenon

\* A worker moves on; none appears and none goes away.
LEMMA WorkerKeeps == UInv /\ Worker => UInv'
<1>. SUFFICES ASSUME UInv, Worker PROVE UInv'
  OBVIOUS
<1>1. UNCHANGED <<env, sink, verdict, entries, call, back, records, pc, cur>>
  BY ZenonT(30) DEF Worker, Emulate, Send, Wake, cache, kernel, loop
<1>2. /\ worker' \in [Calls -> {"none", "start", "send", "wake", "exited"}]
      /\ \A c \in Calls : worker'[c] = "none" <=> worker[c] = "none"
      /\ sent' \subseteq Calls
  BY DEF Worker, Emulate, Send, Wake, UInv, UTyped
<1>3. EnvInv' /\ \A c \in Calls : (Grounds(c) => Grounds(c)') /\ (Approved(c) => Approved(c)')
  BY <1>1, QuietFrame, Zenon
<1>4. UTyped'
  BY <1>1, <1>2, ZenonT(30) DEF UInv, UTyped, verdict
<1>5. Within(entries)'
  BY <1>1, ZenonT(30) DEF UInv, Within, env
<1>. QED BY <1>1, <1>2, <1>3, <1>4, <1>5, ZenonT(30) DEF UInv

--------------------------------------------------------------------------------
(* Success, and the end of the supervisor.                                 *)

Running == {"start", "send", "wake"}

\* A success the task may learn of.
Earned(c) ==
  worker[c] = "exited" /\ outcome[c] = "connected" /\ <<"established", c>> \in records

\* A worker that runs is pending, so the end joins it; a result is recorded and
\* answered once its worker has exited, after which nothing touches its outcome.
QuietInv ==
  /\ reply \in [Calls -> {"none", "ok", "errno", "eacces", "enosys"}]
  /\ outcome \in [Calls -> {"none", "connected", "errno", "unavailable", "dead"}]
  /\ pc \in {"established", "answer"} => worker[cur] = "exited"
  /\ \A c \in Calls : /\ worker[c] \in Running => c \in pending
                      /\ reply[c] = "ok" => Earned(c)
  /\ pc = "ended" => \A c \in Calls : worker[c] \notin Running /\ call[c] \notin Parked

LEMMA InvQuiet == UInv /\ QuietInv => SuccessRecorded /\ EndIsQuiet
<1>. SUFFICES ASSUME UInv, QuietInv PROVE SuccessRecorded /\ EndIsQuiet
  OBVIOUS
<1>1. \A c \in Calls : worker[c] \notin Running => worker[c] \in {"none", "exited"}
  BY Zenon DEF UInv, UTyped, Running
<1>. QED BY <1>1, Zenon DEF QuietInv, SuccessRecorded, EndIsQuiet, Earned

LEMMA QuietInitInv == UnotifyInit => QuietInv
  BY ZenonT(30) DEF UnotifyInit, SupervisorFresh, QuietInv, Running

\* A step that leaves the workers alone and grants success to none but an
\* earned one.
LEMMA StillQuiet ==
  ASSUME QuietInv, UNCHANGED <<worker, outcome>>, records \subseteq records',
         reply' \in [Calls -> {"none", "ok", "errno", "eacces", "enosys"}],
         \A c \in Calls : reply'[c] = "ok" => Earned(c),
         \A c \in Calls : worker[c] \in Running => c \in pending',
         pc' \in {"established", "answer"} => worker[cur'] = "exited",
         pc' = "ended" => \A c \in Calls : worker[c] \notin Running /\ call'[c] \notin Parked
  PROVE  QuietInv'
<1>1. \A c \in Calls : Earned(c) => Earned(c)'
  BY Zenon DEF Earned
<1>. QED BY <1>1, Zenon DEF QuietInv, Parked

\* ... which answers nobody and does not end the loop.
LEMMA NobodyAnswered ==
  ASSUME QuietInv, UNCHANGED <<worker, outcome, reply>>, records \subseteq records',
         \A c \in Calls : worker[c] \in Running => c \in pending',
         pc' \in {"established", "answer"} => worker[cur'] = "exited",
         pc' = "ended" => pc = "ended" /\ \A c \in Calls : call'[c] \in Parked => call[c] \in Parked
  PROVE  QuietInv'
<1>1. /\ reply' \in [Calls -> {"none", "ok", "errno", "eacces", "enosys"}]
      /\ \A c \in Calls : reply'[c] = "ok" => Earned(c)
      /\ pc' = "ended" => \A c \in Calls : worker[c] \notin Running /\ call'[c] \notin Parked
  BY Zenon DEF QuietInv, Parked
<1>. QED BY <1>1, StillQuiet, Zenon

LEMMA OutsideQuiet == QuietInv /\ UnotifyOutside => QuietInv'
<1>. SUFFICES ASSUME QuietInv, UnotifyOutside PROVE QuietInv'
  OBVIOUS
<1>1. UNCHANGED <<worker, outcome, reply, records, pending, pc, cur, call>>
  BY Zenon DEF UnotifyOutside, Gate, SinkFails, AskStop, kernel, loop, pool
<1>2. \A c \in Calls : worker[c] \in Running => c \in pending'
  BY <1>1, Zenon DEF QuietInv
<1>3. pc \in {"established", "answer"} => worker[cur] = "exited"
  BY Zenon DEF QuietInv
<1>. QED BY <1>1, <1>2, <1>3, NobodyAnswered, Zenon

\* The task: a call made after the end is answered by the kernel.
LEMMA TaskQuiet == UInv /\ QuietInv /\ (Issue \/ Die) => QuietInv'
<1>. SUFFICES ASSUME UInv, QuietInv, Issue \/ Die PROVE QuietInv'
  OBVIOUS
<1>1. UNCHANGED <<worker, outcome, records, pending, pc, cur>>
  BY Zenon DEF Issue, Die, loop, pool
<1>2. /\ \A c \in Calls : worker[c] \in Running => c \in pending'
      /\ pc \in {"established", "answer"} => worker[cur] = "exited"
      /\ call \in [Calls -> {"idle", "never", "queued", "received", "answered", "gone"}]
      /\ reply \in [Calls -> {"none", "ok", "errno", "eacces", "enosys"}]
      /\ \A c \in Calls : reply[c] = "ok" => Earned(c)
  BY <1>1, Zenon DEF QuietInv, UInv, UTyped
<1>3. CASE Die
  <2>1. reply' = reply /\ \A c \in Calls : call'[c] \in Parked => call[c] \in Parked
    BY <1>2, <1>3, Zenon DEF Die, Parked
  <2>. QED BY <1>1, <1>2, <2>1, NobodyAnswered, Zenon
<1>4. CASE Issue
  <2>1. PICK x \in Calls :
          /\ call[x] = "idle"
          /\ IF pc = "ended"
               THEN /\ call' = [call EXCEPT ![x] = "answered"]
                    /\ reply' = [reply EXCEPT ![x] = "enosys"]
               ELSE /\ call' = [call EXCEPT ![x] = "queued"]
                    /\ UNCHANGED reply
    BY <1>4, Zenon DEF Issue
  <2>2. /\ reply' \in [Calls -> {"none", "ok", "errno", "eacces", "enosys"}]
        /\ \A c \in Calls : reply'[c] = "ok" => Earned(c)
    BY <1>2, <2>1, Zenon
  <2>3. pc' = "ended" => \A c \in Calls : worker[c] \notin Running /\ call'[c] \notin Parked
    BY <1>1, <1>2, <2>1, Zenon DEF QuietInv, Parked
  <2>. QED BY <1>1, <1>2, <2>2, <2>3, StillQuiet, Zenon
<1>. QED BY <1>3, <1>4, Zenon

\* The steps of the loop that answer nobody and leave the workers alone; a
\* result is only taken up when its worker has exited.
LEMMA LoopQuiet ==
  ASSUME UInv, QuietInv,
         \/ Poll \/ DrainResults \/ Take \/ Drained \/ Recv \/ Inspect \/ LiveNames \/ HasGrant
         \/ Verdict \/ Authorize \/ Deny \/ Join \/ Established
  PROVE  QuietInv'
<1>1. UNCHANGED <<worker, outcome, reply>> /\ records \subseteq records'
  BY Zenon DEF Poll, DrainResults, Take, Drained, Recv, Inspect, LiveNames, HasGrant, Verdict,
       Authorize, Deny, Join, Established, Committed, kernel, pool
<1>2. \A c \in Calls : worker[c] \in Running => c \in pending'
  <2>1. \A c \in Calls : worker[c] \in Running => c \in pending
    BY Zenon DEF QuietInv
  <2>2. CASE Join
    BY <2>1, <2>2, Zenon DEF Join, Running
  <2>3. CASE pending' = pending
    BY <2>1, <2>3, Zenon
  <2>. QED BY <2>2, <2>3, Zenon DEF Poll, DrainResults, Take, Drained, Recv, Inspect, LiveNames,
         HasGrant, Verdict, Authorize, Deny, Established, pool
<1>3. /\ pc' \in {"established", "answer"} => worker[cur'] = "exited"
      /\ pc' # "ended"
  <2>1. CASE Poll
    BY <2>1, Zenon DEF Poll, Goto
  <2>2. CASE DrainResults
    BY <2>2, Zenon DEF DrainResults, Goto
  <2>3. CASE Take
    BY <2>3, Zenon DEF Take, Goto
  <2>4. CASE Drained
    BY <2>4, Zenon DEF Drained, Goto
  <2>5. CASE Recv
    BY <2>5, Zenon DEF Recv, Goto
  <2>6. CASE Inspect
    BY <2>6, Zenon DEF Inspect, Goto
  <2>7. CASE LiveNames \/ HasGrant
    BY <2>7, Zenon DEF LiveNames, HasGrant, Goto
  <2>8. CASE Verdict
    BY <2>8, Zenon DEF Verdict, Goto
  <2>9. CASE Authorize
    BY <2>9, Zenon DEF Authorize, Goto
  <2>10. CASE Deny
    BY <2>10, Zenon DEF Deny, Goto
  <2>11. CASE Join
    <3>1. back \in {"poll", "results", "flush"}
      BY Zenon DEF UInv, UTyped
    <3>. QED BY <2>11, <3>1, Zenon DEF Join, Goto
  <2>12. CASE Established
    BY <2>12, Zenon DEF Established, Goto, QuietInv
  <2>. QED BY <2>1, <2>2, <2>3, <2>4, <2>5, <2>6, <2>7, <2>8, <2>9, <2>10, <2>11, <2>12, Zenon
<1>. QED BY <1>1, <1>2, <1>3, NobodyAnswered, Zenon

\* What notify_send makes of the replies.
LEMMA RespondReplies ==
  ASSUME QuietInv, NEW S, NEW r \in {"ok", "errno", "eacces", "enosys"}, Respond(S, r),
         r = "ok" => \A c \in S : Earned(c)
  PROVE  /\ reply' \in [Calls -> {"none", "ok", "errno", "eacces", "enosys"}]
         /\ \A c \in Calls : reply'[c] = "ok" => Earned(c)
<1>1. /\ reply' = [c \in Calls |-> IF c \in S /\ call[c] = "received" THEN r ELSE reply[c]]
      /\ reply \in [Calls -> {"none", "ok", "errno", "eacces", "enosys"}]
      /\ \A c \in Calls : reply[c] = "ok" => Earned(c)
  BY Zenon DEF Respond, QuietInv
<1>. QED BY <1>1, Zenon

\* The steps that answer a call.
LEMMA AnswersQuiet ==
  ASSUME UInv, QuietInv, Refuse \/ Answer \/ Release
  PROVE  QuietInv'
<1>1. UNCHANGED <<worker, outcome, records, pending>> /\ back \in {"poll", "results", "flush"}
  BY Zenon DEF Refuse, Answer, Release, pool, UInv, UTyped
<1>2. \A c \in Calls : worker[c] \in Running => c \in pending'
  BY <1>1, Zenon DEF QuietInv
<1>3. pc' \notin {"established", "answer", "ended"}
  BY <1>1, Zenon DEF Refuse, Answer, Release, Goto
<1>4. /\ reply' \in [Calls -> {"none", "ok", "errno", "eacces", "enosys"}]
      /\ \A c \in Calls : reply'[c] = "ok" => Earned(c)
  <2>1. CASE Refuse
    <3>1. Respond({cur}, "eacces")
      BY <2>1, Zenon DEF Refuse
    <3>. QED BY <3>1, RespondReplies, Zenon
  <2>2. CASE Release
    <3>1. Respond(pending, "eacces")
      BY <2>2, Zenon DEF Release
    <3>. QED BY <3>1, RespondReplies, Zenon
  <2>3. CASE Answer
    <3>1. PICK r \in {"ok", "errno", "eacces"} :
            /\ Respond({cur}, r)
            /\ r = "ok" => outcome[cur] = "connected" /\ <<"established", cur>> \in records
      BY <2>3, Zenon DEF Answer
    <3>2. worker[cur] = "exited"
      BY <2>3, Zenon DEF Answer, QuietInv
    <3>3. r = "ok" => \A c \in {cur} : Earned(c)
      BY <3>1, <3>2, Zenon DEF Earned
    <3>. QED BY <3>1, <3>3, RespondReplies, Zenon
  <2>. QED BY <2>1, <2>2, <2>3, Zenon
<1>. QED BY <1>1, <1>2, <1>3, <1>4, StillQuiet, Zenon

\* The end: every worker in flight has been joined.
LEMMA EndQuiet == UInv /\ QuietInv /\ End => QuietInv'
<1>. SUFFICES ASSUME UInv, QuietInv, End PROVE QuietInv'
  OBVIOUS
<1>1. /\ UNCHANGED <<worker, outcome, records>> /\ pc' = "ended"
      /\ \A c \in pending : worker[c] = "exited"
      /\ call' = [c \in Calls |-> IF call[c] \in Parked THEN "answered" ELSE call[c]]
      /\ reply' = [c \in Calls |-> IF call[c] \in Parked THEN "enosys" ELSE reply[c]]
  BY Zenon DEF End, Goto
<1>2. \A c \in Calls : worker[c] \notin Running
  BY <1>1, Zenon DEF QuietInv, Running
<1>3. \A c \in Calls : call'[c] \notin Parked
  BY <1>1, Zenon DEF Parked
<1>4. /\ reply' \in [Calls -> {"none", "ok", "errno", "eacces", "enosys"}]
      /\ \A c \in Calls : reply'[c] = "ok" => Earned(c)
  BY <1>1, Zenon DEF QuietInv
<1>. QED BY <1>1, <1>2, <1>3, <1>4, StillQuiet, Zenon

\* A worker starts for a call that had none.
LEMMA QueueQuiet == UInv /\ QuietInv /\ Queue => QuietInv'
<1>. SUFFICES ASSUME UInv, QuietInv, Queue PROVE QuietInv'
  OBVIOUS
<1>1. /\ UNCHANGED <<outcome, reply, records, call>> /\ cur \in Calls /\ worker[cur] = "none"
      /\ pc' \in {"poll", "deny"} /\ worker \in [Calls -> {"none", "start", "send", "wake", "exited"}]
  BY Zenon DEF Queue, Goto, kernel, UInv, UTyped, Judging
<1>2. CASE pending' = pending \cup {cur} /\ worker' = [worker EXCEPT ![cur] = "start"]
  <2>1. /\ \A c \in Calls : worker'[c] \in Running => c \in pending'
        /\ \A c \in Calls : Earned(c) => Earned(c)'
    BY <1>1, <1>2, Zenon DEF QuietInv, Earned
  <2>. QED BY <1>1, <2>1, Zenon DEF QuietInv
<1>3. CASE UNCHANGED <<pending, worker>>
  <2>1. \A c \in Calls : worker[c] \in Running => c \in pending'
    BY <1>3, Zenon DEF QuietInv
  <2>. QED BY <1>1, <1>3, <2>1, NobodyAnswered, Zenon
<1>. QED BY <1>2, <1>3, Zenon DEF Queue

\* A worker that has started sends, wakes the loop and exits.
LEMMA WorkerQuiet == UInv /\ QuietInv /\ Worker => QuietInv'
<1>. SUFFICES ASSUME UInv, QuietInv, Worker PROVE QuietInv'
  OBVIOUS
<1>1. UNCHANGED <<reply, records, call, pending, pc, cur>>
  BY Zenon DEF Worker, Emulate, Send, Wake, kernel, loop
<1>2. /\ worker \in [Calls -> {"none", "start", "send", "wake", "exited"}]
      /\ outcome \in [Calls -> {"none", "connected", "errno", "unavailable", "dead"}]
      /\ \A c \in Calls : /\ worker[c] \in Running => c \in pending
                          /\ reply[c] = "ok" => Earned(c)
      /\ pc = "ended" => \A c \in Calls : worker[c] \notin Running /\ call[c] \notin Parked
  BY Zenon DEF QuietInv, UInv, UTyped
<1>3. PICK x \in Calls, w \in {"send", "wake", "exited"} :
        /\ worker[x] \in Running /\ worker' = [worker EXCEPT ![x] = w]
        /\ \/ outcome' = outcome
           \/ \E o \in {"connected", "errno", "unavailable", "dead"} :
                outcome' = [outcome EXCEPT ![x] = o]
  <2>1. CASE Emulate
    BY <2>1, Zenon DEF Emulate, Running
  <2>2. CASE Send
    BY <2>2, Zenon DEF Send, Running
  <2>3. CASE Wake
    BY <2>3, Zenon DEF Wake, Running
  <2>. QED BY <2>1, <2>2, <2>3, Zenon DEF Worker
<1>4. outcome' \in [Calls -> {"none", "connected", "errno", "unavailable", "dead"}]
      /\ \A c \in Calls \ {x} : outcome'[c] = outcome[c] /\ worker'[c] = worker[c]
  BY <1>2, <1>3, Zenon
<1>5. x \in pending /\ pc # "ended" /\ ~ Earned(x)
  BY <1>2, <1>3, Zenon DEF Earned, Running
<1>6. \A c \in Calls : /\ worker'[c] \in Running => c \in pending
                       /\ Earned(c) => Earned(c)'
  BY <1>1, <1>2, <1>4, <1>5, Zenon DEF Earned
<1>7. pc \in {"established", "answer"} => worker'[cur] = "exited"
  <2>1. cur = x => pc \notin {"established", "answer"}
    BY <1>3, Zenon DEF QuietInv, Running
  <2>2. pc \in {"established", "answer"} => cur \in Calls /\ worker[cur] = "exited"
    BY Zenon DEF UInv, QuietInv
  <2>. QED BY <1>4, <2>1, <2>2, Zenon
<1>. QED BY <1>1, <1>2, <1>4, <1>5, <1>6, <1>7, Zenon DEF QuietInv

\* Every step of the route keeps both invariants.
LEMMA UnotifyKeeps == UInv /\ QuietInv /\ UnotifyNext => UInv' /\ QuietInv'
<1>. SUFFICES ASSUME UInv, QuietInv, UnotifyNext PROVE UInv' /\ QuietInv'
  OBVIOUS
<1>1. UInv'
  BY OutsideKeeps, TaskKeeps, BookkeepingKeeps, InspectKeeps, RefreshKeeps, VerdictKeeps,
     AuthorizeKeeps, QueueKeeps, RefuseKeeps, WorkerKeeps, Zenon DEF UnotifyNext, Loop, Drain
<1>2. QuietInv'
  BY OutsideQuiet, TaskQuiet, LoopQuiet, AnswersQuiet, EndQuiet, QueueQuiet, WorkerQuiet, Zenon
     DEF UnotifyNext, Loop, Drain
<1>. QED BY <1>1, <1>2

--------------------------------------------------------------------------------
(* The programs of the kernel and the rewrites of the grant map.           *)

Entries == [addr : Addrs \cup {NoAddr}, exp : Nat]

ETyped ==
  /\ prog \in [Calls -> {"idle", "never", "seq", "exp", "addr", "recheck", "bump", "reserve",
                         "submit", "drop", "done"}]
  /\ ruling \in [Calls -> {"none", "rule", "grant", "deny"}]
  /\ dest \in [Calls -> Dests \cup {NoAddr}] /\ judged \in [Calls -> Int]
  /\ seen \in [Calls -> Nat] /\ at \in [Calls -> Nat] /\ latch \in [Calls -> Nat]
  /\ seq \in Nat /\ base \in Nat /\ slot \in Nat
  /\ slots \in [Slots -> Entries] /\ want \in [Slots -> Entries]

\* An entry that is not dead is a grant the table has had, rounded to seconds.
Backed(e) ==
  e.exp # 0 => \E k \in Keys : /\ k.addr = e.addr /\ k.addr \notin Protected
                               /\ e.exp <= Secs(high[k])

\* The counter is odd while the slots are rewritten, and (seq | 1) + 1 of the
\* value the rewrite started from is then the next one.
SeqInv ==
  /\ dpc \in {"write", "land"} => Odd(seq) /\ seq = (IF Odd(base) THEN base ELSE base + 1)
  /\ dpc = "write" => slot > 0
  /\ \A i \in Slots : Backed(slots[i]) /\ Backed(want[i])

Scanning == {"exp", "addr", "recheck"}

\* The grant that let a flow pass.
Passed(c) ==
  LiveGrant(c) /\ \E k \in Keys : k.addr = dest[c] /\ latch[c] <= Secs(high[k])

\* What a program knows in the middle of its scan: it is past the denials, its
\* snapshot of the counter is even, and as long as the counter has not moved
\* its registers are the words of its slot.
Scan(c) ==
  /\ prog[c] \in Scanning \cup {"seq"} => dest[c] \notin DeniedAddrs /\ judged[c] >= 0
  /\ prog[c] \in Scanning => seen[c] <= seq /\ ~Odd(seen[c]) /\ at[c] \in Slots
  /\ prog[c] \in {"addr", "recheck"} => /\ latch[c] * SecTicks > judged[c]
                                        /\ seq = seen[c] => slots[at[c]].exp = latch[c]
  /\ prog[c] = "recheck" /\ seq = seen[c] => slots[at[c]].addr = dest[c]
  /\ ruling[c] = "grant" => prog[c] = "done" /\ Passed(c)

EInv == EnvInv /\ ETyped /\ SeqInv /\ \A c \in Calls : Scan(c)

LEMMA InvSound == EInv => GrantAllowSound
  BY Zenon DEF EInv, Scan, Passed, GrantAllowSound

LEMMA DeadEntry ==
  /\ Sentinel \in Entries
  /\ \A e \in Entries : Dead(e) \in Entries /\ Dead(e).exp = 0 /\ Dead(e).addr = e.addr
  BY DEF Sentinel, Entries, Dead

LEMMA EInitInv == EbpfInit => EInv
<1>. SUFFICES ASSUME EbpfInit PROVE EInv
  OBVIOUS
<1>1. EnvInv
  BY EnvInitInv, Zenon DEF EbpfInit
<1>2. /\ prog \in [Calls -> {"idle", "never"}] /\ ruling = [c \in Calls |-> "none"]
      /\ dest = [c \in Calls |-> NoAddr] /\ judged = [c \in Calls |-> -1]
      /\ seen = [c \in Calls |-> 0] /\ at = [c \in Calls |-> 0] /\ latch = [c \in Calls |-> 0]
      /\ seq = 0 /\ base = 0 /\ slot = 0 /\ dpc = "poll"
      /\ slots = [i \in Slots |-> Sentinel] /\ want = [i \in Slots |-> Sentinel]
  BY Zenon DEF EbpfInit, DrainFresh, RouteInit, Cleared
<1>3. ETyped
  <2>1. slots \in [Slots -> Entries] /\ want \in [Slots -> Entries]
    BY <1>2, DeadEntry, Zenon
  <2>2. /\ judged \in [Calls -> Int] /\ seen \in [Calls -> Nat] /\ at \in [Calls -> Nat]
        /\ latch \in [Calls -> Nat] /\ seq \in Nat /\ base \in Nat /\ slot \in Nat
    BY <1>2
  <2>. QED BY <1>2, <2>1, <2>2, Zenon DEF ETyped
<1>4. SeqInv
  <2>1. \A i \in Slots : slots[i].exp = 0 /\ want[i].exp = 0
    BY <1>2 DEF Sentinel
  <2>. QED BY <1>2, <2>1, Zenon DEF SeqInv, Backed
<1>5. \A c \in Calls : Scan(c)
  BY <1>2, Zenon DEF Scan, Scanning
<1>. QED BY <1>1, <1>3, <1>4, <1>5, Zenon DEF EInv

\* The parity of the counter.
LEMMA OddNext == ASSUME NEW n \in Nat PROVE Odd(n + 1) <=> ~Odd(n)
  BY DEF Odd

\* Whole seconds of an instant do not reach past it.
LEMMA SecsBelow == ASSUME NEW t \in Nat PROVE Secs(t) * SecTicks <= t
<1>. DEFINE a == t \div SecTicks
<1>1. a * SecTicks <= t
  BY LimitsTyped
<1>. QED BY <1>1 DEF Secs

\* Backing lasts while the history grows.
LEMMA BackedGrows ==
  ASSUME EnvInv, EnvInv', Grows, NEW e \in Entries, Backed(e)
  PROVE  e.exp # 0 => \E k \in Keys : /\ k.addr = e.addr /\ k.addr \notin Protected
                                      /\ e.exp <= Secs(high'[k])
<1>. SUFFICES ASSUME e.exp # 0
              PROVE  \E k \in Keys : /\ k.addr = e.addr /\ k.addr \notin Protected
                                     /\ e.exp <= Secs(high'[k])
  OBVIOUS
<1>1. PICK k \in Keys : k.addr = e.addr /\ k.addr \notin Protected /\ e.exp <= Secs(high[k])
  BY Zenon DEF Backed
<1>2. high[k] \in Nat /\ high'[k] \in Nat /\ high[k] <= high'[k] /\ e.exp \in Nat
  BY DEF EnvInv, EnvTyped, Grows, Entries
<1>3. Secs(high[k]) \in Nat /\ Secs(high'[k]) \in Nat /\ Secs(high[k]) <= Secs(high'[k])
  BY <1>2, SecsNat, SecsMonotone
<1>4. e.exp <= Secs(high'[k])
  BY <1>1, <1>2, <1>3
<1>. QED BY <1>1, <1>4, Zenon

LEMMA PassedGrows ==
  ASSUME EnvInv, EnvInv', Grows, NEW c \in Calls, judged[c] \in Int, latch[c] \in Nat,
         dest'[c] = dest[c], judged'[c] = judged[c], latch'[c] = latch[c], Passed(c)
  PROVE  Passed(c)'
<1>1. LiveGrant(c)'
  BY LiveGrantGrows, Zenon DEF Passed
<1>2. PICK k \in Keys : k.addr = dest[c] /\ latch[c] <= Secs(high[k])
  BY Zenon DEF Passed
<1>3. high[k] \in Nat /\ high'[k] \in Nat /\ high[k] <= high'[k]
  BY Zenon DEF EnvInv, EnvTyped, Grows
<1>4. Secs(high[k]) \in Nat /\ Secs(high'[k]) \in Nat /\ Secs(high[k]) <= Secs(high'[k])
  BY <1>3, SecsNat, SecsMonotone
<1>5. latch'[c] <= Secs(high'[k])
  BY <1>2, <1>4
<1>. QED BY <1>1, <1>2, <1>5, Zenon DEF Passed

\* A call whose registers, counter and slots do not move keeps what it knows.
SameAt(c) ==
  /\ prog'[c] = prog[c] /\ ruling'[c] = ruling[c] /\ dest'[c] = dest[c]
  /\ judged'[c] = judged[c] /\ seen'[c] = seen[c] /\ at'[c] = at[c] /\ latch'[c] = latch[c]

LEMMA ScanSame ==
  ASSUME EInv, EnvInv', Grows, UNCHANGED <<seq, slots>>, NEW c \in Calls, SameAt(c)
  PROVE  Scan(c)'
<1>1. judged[c] \in Int /\ latch[c] \in Nat /\ EnvInv /\ Scan(c)
  BY Zenon DEF EInv, ETyped
<1>2. Passed(c) => Passed(c)'
  BY <1>1, PassedGrows, Zenon DEF SameAt
<1>. QED BY <1>1, <1>2, Zenon DEF Scan, SameAt

\* The gate, the sink and the request to stop.
LEMMA EOutsideKeeps == EInv /\ EbpfOutside => EInv'
<1>. SUFFICES ASSUME EInv, EbpfOutside PROVE EInv'
  OBVIOUS
<1>1. UNCHANGED <<prog, seen, at, latch, ruling, seq, slots, base, slot, want, dpc>>
  BY Zenon DEF EbpfOutside, run, maps, sync, dloop
<1>2. UNCHANGED <<dest, judged>>
  BY Zenon DEF EbpfOutside, Gate, SinkFails, AskStop
<1>3. EnvInv' /\ Grows
  <2>1. CASE Gate
    BY <2>1, GateKeeps, Zenon DEF EInv
  <2>2. CASE SinkFails
    BY <2>2, RouteFrame, Zenon DEF SinkFails, EInv
  <2>3. CASE AskStop
    <3>1. sink' \in {"up", "failed"}
      BY <2>3, Zenon DEF AskStop, EInv, EnvInv, EnvTyped
    <3>. QED BY <2>3, <3>1, RouteFrame, Zenon DEF AskStop, EInv
  <2>. QED BY <2>1, <2>2, <2>3, Zenon DEF EbpfOutside
<1>4. ETyped'
  BY <1>1, <1>2, Zenon DEF EInv, ETyped
<1>5. SeqInv'
  <2>1. \A i \in Slots : slots[i] \in Entries /\ want[i] \in Entries
    BY Zenon DEF EInv, ETyped
  <2>2. EnvInv
    BY Zenon DEF EInv
  <2>3. \A i \in Slots : Backed(slots[i])' /\ Backed(want[i])'
    BY <1>1, <1>3, <2>1, <2>2, BackedGrows, Zenon DEF EInv, SeqInv, Backed
  <2>. QED BY <1>1, <2>3, Zenon DEF EInv, SeqInv
<1>6. \A c \in Calls : Scan(c)'
  BY <1>1, <1>2, <1>3, ScanSame, Zenon DEF SameAt
<1>. QED BY <1>3, <1>4, <1>5, <1>6, Zenon DEF EInv

\* A step that leaves the gate and the sink alone.
LEMMA StillEnv ==
  ASSUME EInv, UNCHANGED <<env, sink>>
  PROVE  EnvInv' /\ Grows
<1>1. EnvInv /\ sink' \in {"up", "failed"}
  BY Zenon DEF EInv, EnvInv, EnvTyped
<1>. QED BY <1>1, RouteFrame, Zenon

LEMMA StillBacked ==
  ASSUME EInv, UNCHANGED env, UNCHANGED <<slots, want>>
  PROVE  \A i \in Slots : Backed(slots[i])' /\ Backed(want[i])'
<1>1. UNCHANGED high
  BY Zenon DEF env
<1>. QED BY <1>1, Zenon DEF EInv, SeqInv, Backed

\* A step of the program of one call.
LEMMA ProgramStep ==
  ASSUME EInv, UNCHANGED <<env, sink, seq, slots, base, slot, want, dpc>>, NEW x \in Calls,
         \A c \in Calls \ {x} : SameAt(c), ETyped', Scan(x)'
  PROVE  EInv'
<1>1. EnvInv' /\ Grows
  BY StillEnv, Zenon
<1>2. SeqInv'
  BY StillBacked, Zenon DEF EInv, SeqInv
<1>3. \A c \in Calls : Scan(c)'
  BY <1>1, ScanSame, Zenon
<1>. QED BY <1>1, <1>2, <1>3, Zenon DEF EInv

\* The registers of the programs, after a step at x.
Registers ==
  /\ prog \in [Calls -> {"idle", "never", "seq", "exp", "addr", "recheck", "bump", "reserve",
                         "submit", "drop", "done"}]
  /\ ruling \in [Calls -> {"none", "rule", "grant", "deny"}]
  /\ dest \in [Calls -> Dests \cup {NoAddr}] /\ judged \in [Calls -> Int]
  /\ seen \in [Calls -> Nat] /\ at \in [Calls -> Nat] /\ latch \in [Calls -> Nat]

LEMMA TypedRegisters ==
  /\ ETyped => Registers
  /\ ETyped /\ UNCHANGED <<seq, slots, base, slot, want>> /\ Registers' => ETyped'
  BY Zenon DEF ETyped, Registers

\* The default verdict is a denial.
LEMMA DefaultKeeps ==
  ASSUME EInv, UNCHANGED <<env, sink, seq, slots, base, slot, want, dpc>>, NEW x \in Calls,
         Default(x)
  PROVE  EInv'
<1>1. Registers
  BY TypedRegisters, Zenon DEF EInv
<1>2. Registers' /\ \A c \in Calls \ {x} : SameAt(c)
  BY <1>1 DEF Default, Step, Rule, Registers, SameAt
<1>3. prog'[x] = "bump" /\ ruling'[x] = "deny"
  BY <1>1, Zenon DEF Default, Step, Rule, Registers
<1>4. Scan(x)'
  BY <1>3, Zenon DEF Scan, Scanning
<1>. QED BY <1>2, <1>4, ProgramStep, TypedRegisters, Zenon DEF EInv

LEMMA NextSlotKeeps ==
  ASSUME EInv, UNCHANGED <<env, sink, seq, slots, base, slot, want, dpc>>, NEW x \in Calls,
         prog[x] \in {"exp", "addr"}, NextSlot(x)
  PROVE  EInv'
<1>1. CASE at[x] < GrantSlots
  <2>1. Registers /\ Scan(x)
    BY TypedRegisters, Zenon DEF EInv
  <2>2. /\ at' = [at EXCEPT ![x] = @ + 1] /\ latch' = [latch EXCEPT ![x] = 0]
        /\ prog' = [prog EXCEPT ![x] = "exp"] /\ UNCHANGED <<seen, ruling, dest, judged>>
    BY <1>1, Zenon DEF NextSlot, Step
  <2>3. Registers' /\ \A c \in Calls \ {x} : SameAt(c)
    BY <2>1, <2>2 DEF Registers, SameAt
  <2>4. prog'[x] = "exp" /\ at'[x] = at[x] + 1
    BY <2>1, <2>2, Zenon DEF Registers
  <2>5. at[x] \in Slots /\ GrantSlots \in Nat
    BY <2>1, RouteTyped, Zenon DEF Scan, Scanning
  <2>6. at'[x] \in Slots
    BY <1>1, <2>4, <2>5 DEF Slots
  <2>7. Scan(x)'
    BY <2>1, <2>2, <2>4, <2>6, Zenon DEF Scan, Scanning
  <2>. QED BY <2>3, <2>7, ProgramStep, TypedRegisters, Zenon DEF EInv
<1>2. CASE ~ (at[x] < GrantSlots)
  BY <1>2, DefaultKeeps, Zenon DEF NextSlot
<1>. QED BY <1>1, <1>2, Zenon

\* What the steps of a program leave alone.
LEMMA ProgramFrame ==
  Program => UNCHANGED <<env, sink, seq, slots, base, slot, want, dpc>>
<1>1. Enter \/ ReadSeq \/ ReadExp \/ ReadAddr \/ Recheck =>
        UNCHANGED <<env, sink, seq, slots, base, slot, want, dpc>>
  BY Zenon DEF Enter, ReadSeq, ReadExp, ReadAddr, Recheck, maps, sync, dloop
<1>2. Bump \/ Reserve \/ Submit \/ Drop =>
        UNCHANGED <<env, sink, seq, slots, base, slot, want, dpc>>
  BY Zenon DEF Bump, Reserve, Submit, Drop, maps, sync, dloop, route
<1>. QED BY <1>1, <1>2, Zenon DEF Program

LEMMA EnterKeeps == EInv /\ Enter => EInv'
<1>. SUFFICES ASSUME EInv, Enter PROVE EInv'
  OBVIOUS
<1>0. UNCHANGED <<env, sink, seq, slots, base, slot, want, dpc>>
  BY ProgramFrame, Zenon DEF Program
<1>1. PICK x \in Calls, a \in Dests :
       /\ prog[x] = "idle"
       /\ \/ a \in DeniedAddrs /\ Default(x)
          \/ /\ a \notin DeniedAddrs
             /\ dest' = [dest EXCEPT ![x] = a] /\ judged' = [judged EXCEPT ![x] = now]
             /\ IF a \in AllowedAddrs \/ ~DenyAllOthers
                  THEN Step(x, "done") /\ Rule(x, "rule")
                  ELSE Step(x, "seq") /\ UNCHANGED ruling
             /\ UNCHANGED <<seen, at, latch>>
  BY Zenon DEF Enter
<1>2. CASE Default(x)
  BY <1>0, <1>2, DefaultKeeps, Zenon
<1>3. CASE ~ Default(x)
  <2>1. Registers /\ Scan(x) /\ now \in Nat
    BY TypedRegisters, Zenon DEF EInv, EnvInv, EnvTyped
  <2>2. /\ dest' = [dest EXCEPT ![x] = a] /\ judged' = [judged EXCEPT ![x] = now]
        /\ UNCHANGED <<seen, at, latch>> /\ a \notin DeniedAddrs
        /\ \/ prog' = [prog EXCEPT ![x] = "done"] /\ ruling' = [ruling EXCEPT ![x] = "rule"]
           \/ prog' = [prog EXCEPT ![x] = "seq"] /\ ruling' = ruling
    BY <1>1, <1>3, Zenon DEF Step, Rule
  <2>3. Registers' /\ \A c \in Calls \ {x} : SameAt(c)
    BY <2>1, <2>2 DEF Registers, SameAt
  <2>4. /\ dest'[x] = a /\ judged'[x] = now
        /\ \/ prog'[x] = "done" /\ ruling'[x] = "rule"
           \/ prog'[x] = "seq" /\ ruling'[x] = ruling[x]
    BY <2>1, <2>2, Zenon DEF Registers
  <2>5. ruling[x] # "grant"
    BY <1>1, <2>1, Zenon DEF Scan
  <2>6. judged'[x] >= 0
    BY <2>1, <2>4
  <2>7. Scan(x)'
    BY <2>2, <2>4, <2>5, <2>6, Zenon DEF Scan, Scanning
  <2>. QED BY <1>0, <2>3, <2>7, ProgramStep, TypedRegisters, Zenon DEF EInv
<1>. QED BY <1>2, <1>3, Zenon

LEMMA ReadSeqKeeps == EInv /\ ReadSeq => EInv'
<1>. SUFFICES ASSUME EInv, ReadSeq PROVE EInv'
  OBVIOUS
<1>0. UNCHANGED <<env, sink, seq, slots, base, slot, want, dpc>>
  BY ProgramFrame, Zenon DEF Program
<1>1. PICK x \in Calls :
       /\ prog[x] = "seq"
       /\ IF Odd(seq)
            THEN Default(x)
            ELSE /\ Step(x, "exp") /\ seen' = [seen EXCEPT ![x] = seq]
                 /\ at' = [at EXCEPT ![x] = 1] /\ UNCHANGED <<ruling, latch, dest, judged>>
  BY Zenon DEF ReadSeq
<1>2. CASE Odd(seq)
  BY <1>0, <1>1, <1>2, DefaultKeeps, Zenon
<1>3. CASE ~Odd(seq)
  <2>1. Registers /\ Scan(x) /\ seq \in Nat
    BY TypedRegisters, Zenon DEF EInv, ETyped
  <2>2. /\ prog' = [prog EXCEPT ![x] = "exp"] /\ seen' = [seen EXCEPT ![x] = seq]
        /\ at' = [at EXCEPT ![x] = 1] /\ UNCHANGED <<ruling, latch, dest, judged>>
    BY <1>1, <1>3, Zenon DEF Step
  <2>3. Registers' /\ \A c \in Calls \ {x} : SameAt(c)
    BY <2>1, <2>2 DEF Registers, SameAt
  <2>4. prog'[x] = "exp" /\ seen'[x] = seq /\ at'[x] = 1
    BY <2>1, <2>2, Zenon DEF Registers
  <2>5. 1 \in Slots
    BY RouteTyped DEF Slots
  <2>6. seen'[x] <= seq'
    BY <1>0, <2>1, <2>4
  <2>7. Scan(x)'
    BY <1>1, <1>3, <2>1, <2>2, <2>4, <2>5, <2>6, Zenon DEF Scan, Scanning
  <2>. QED BY <1>0, <2>3, <2>7, ProgramStep, TypedRegisters, Zenon DEF EInv
<1>. QED BY <1>2, <1>3, Zenon

\* The expiry: from now on the slot still holds it, or the counter has moved.
LEMMA ReadExpKeeps == EInv /\ ReadExp => EInv'
<1>. SUFFICES ASSUME EInv, ReadExp PROVE EInv'
  OBVIOUS
<1>0. UNCHANGED <<env, sink, seq, slots, base, slot, want, dpc>>
  BY ProgramFrame, Zenon DEF Program
<1>1. PICK x \in Calls :
       /\ prog[x] = "exp"
       /\ IF slots[at[x]].exp * SecTicks > judged[x]
            THEN /\ Step(x, "addr") /\ latch' = [latch EXCEPT ![x] = slots[at[x]].exp]
                 /\ UNCHANGED <<seen, at, ruling, dest, judged>>
            ELSE NextSlot(x)
  BY Zenon DEF ReadExp
<1>2. CASE NextSlot(x)
  BY <1>0, <1>1, <1>2, NextSlotKeeps, Zenon
<1>3. CASE slots[at[x]].exp * SecTicks > judged[x] /\ ~ NextSlot(x)
  <2>1. Registers /\ Scan(x)
    BY TypedRegisters, Zenon DEF EInv
  <2>2. /\ prog' = [prog EXCEPT ![x] = "addr"] /\ latch' = [latch EXCEPT ![x] = slots[at[x]].exp]
        /\ UNCHANGED <<seen, at, ruling, dest, judged>>
    BY <1>1, <1>3, Zenon DEF Step
  <2>3. at[x] \in Slots
    BY <1>1, <2>1, Zenon DEF Scan, Scanning
  <2>4. slots[at[x]].exp \in Nat
    BY <2>3 DEF EInv, ETyped, Entries
  <2>5. Registers' /\ \A c \in Calls \ {x} : SameAt(c)
    BY <2>1, <2>2, <2>4 DEF Registers, SameAt
  <2>6. prog'[x] = "addr" /\ latch'[x] = slots[at[x]].exp
    BY <2>1, <2>2, Zenon DEF Registers
  <2>7. Scan(x)'
    BY <1>0, <1>1, <1>3, <2>1, <2>2, <2>6, Zenon DEF Scan, Scanning
  <2>. QED BY <1>0, <2>5, <2>7, ProgramStep, TypedRegisters, Zenon DEF EInv
<1>. QED BY <1>1, <1>2, <1>3, Zenon

LEMMA ReadAddrKeeps == EInv /\ ReadAddr => EInv'
<1>. SUFFICES ASSUME EInv, ReadAddr PROVE EInv'
  OBVIOUS
<1>0. UNCHANGED <<env, sink, seq, slots, base, slot, want, dpc>>
  BY ProgramFrame, Zenon DEF Program
<1>1. PICK x \in Calls :
       /\ prog[x] = "addr"
       /\ IF slots[at[x]].addr = dest[x]
            THEN Step(x, "recheck") /\ UNCHANGED <<seen, at, latch, ruling, dest, judged>>
            ELSE NextSlot(x)
  BY Zenon DEF ReadAddr
<1>2. CASE NextSlot(x)
  BY <1>0, <1>1, <1>2, NextSlotKeeps, Zenon
<1>3. CASE slots[at[x]].addr = dest[x] /\ ~ NextSlot(x)
  <2>1. Registers /\ Scan(x)
    BY TypedRegisters, Zenon DEF EInv
  <2>2. prog' = [prog EXCEPT ![x] = "recheck"] /\ UNCHANGED <<seen, at, latch, ruling, dest, judged>>
    BY <1>1, <1>3, Zenon DEF Step
  <2>3. Registers' /\ \A c \in Calls \ {x} : SameAt(c)
    BY <2>1, <2>2 DEF Registers, SameAt
  <2>4. prog'[x] = "recheck"
    BY <2>1, <2>2, Zenon DEF Registers
  <2>5. Scan(x)'
    BY <1>0, <1>1, <1>3, <2>1, <2>2, <2>4, Zenon DEF Scan, Scanning
  <2>. QED BY <1>0, <2>3, <2>5, ProgramStep, TypedRegisters, Zenon DEF EInv
<1>. QED BY <1>1, <1>2, <1>3, Zenon

\* The counter has not moved: the two words are one entry of the map.
LEMMA RecheckKeeps == EInv /\ Recheck => EInv'
<1>. SUFFICES ASSUME EInv, Recheck PROVE EInv'
  OBVIOUS
<1>0. UNCHANGED <<env, sink, seq, slots, base, slot, want, dpc>>
  BY ProgramFrame, Zenon DEF Program
<1>1. PICK x \in Calls :
       /\ prog[x] = "recheck"
       /\ IF seq = seen[x]
            THEN Step(x, "done") /\ Rule(x, "grant") /\ UNCHANGED <<seen, at, latch, dest, judged>>
            ELSE Default(x)
  BY Zenon DEF Recheck
<1>2. CASE seq # seen[x]
  BY <1>0, <1>1, <1>2, DefaultKeeps, Zenon
<1>3. CASE seq = seen[x]
  <2>1. Registers /\ Scan(x)
    BY TypedRegisters, Zenon DEF EInv
  <2>2. /\ prog' = [prog EXCEPT ![x] = "done"] /\ ruling' = [ruling EXCEPT ![x] = "grant"]
        /\ UNCHANGED <<seen, at, latch, dest, judged>>
    BY <1>1, <1>3, Zenon DEF Step, Rule
  <2>3. Registers' /\ \A c \in Calls \ {x} : SameAt(c)
    BY <2>1, <2>2 DEF Registers, SameAt
  <2>4. prog'[x] = "done"
    BY <2>1, <2>2, Zenon DEF Registers
  <2>5. /\ dest[x] \notin DeniedAddrs /\ judged[x] >= 0 /\ latch[x] * SecTicks > judged[x]
        /\ at[x] \in Slots /\ slots[at[x]].exp = latch[x] /\ slots[at[x]].addr = dest[x]
    BY <1>1, <1>3, <2>1, Zenon DEF Scan, Scanning
  <2>6. latch[x] \in Nat /\ judged[x] \in Int
    BY <2>1, Zenon DEF Registers
  <2>7. latch[x] # 0
    BY <2>5, <2>6, LimitsTyped
  <2>8. Backed(slots[at[x]])
    BY <2>5, Zenon DEF EInv, SeqInv
  <2>9. PICK k \in Keys : /\ k.addr = dest[x] /\ k.addr \notin Protected
                          /\ latch[x] <= Secs(high[k])
    BY <2>5, <2>7, <2>8, Zenon DEF Backed
  <2>10. high[k] \in Nat /\ (high[k] > 0 => Named(k))
    BY Zenon DEF EInv, EnvInv, EnvTyped
  <2>11. Secs(high[k]) \in Nat /\ Secs(high[k]) * SecTicks <= high[k]
    BY <2>10, SecsNat, SecsBelow
  <2>12. latch[x] * SecTicks <= Secs(high[k]) * SecTicks
    BY <2>6, <2>9, <2>11, LimitsTyped
  <2>13. judged[x] < high[k] /\ high[k] > 0
    BY <2>5, <2>6, <2>10, <2>11, <2>12, LimitsTyped
  <2>14. Passed(x)
    BY <2>5, <2>9, <2>10, <2>13, Zenon DEF Passed, LiveGrant, Named
  <2>15. EnvInv' /\ Grows /\ EnvInv
    BY <1>0, StillEnv, Zenon DEF EInv
  <2>16. Passed(x)'
    BY <2>2, <2>6, <2>14, <2>15, PassedGrows, Zenon
  <2>17. Scan(x)'
    BY <2>4, <2>16, Zenon DEF Scan, Scanning
  <2>. QED BY <1>0, <2>3, <2>17, ProgramStep, TypedRegisters, Zenon DEF EInv
<1>. QED BY <1>2, <1>3, Zenon

\* The deny tail.
LEMMA TailKeeps == EInv /\ (Bump \/ Reserve \/ Submit \/ Drop) => EInv'
<1>. SUFFICES ASSUME EInv, Bump \/ Reserve \/ Submit \/ Drop PROVE EInv'
  OBVIOUS
<1>0. UNCHANGED <<env, sink, seq, slots, base, slot, want, dpc>>
  BY ProgramFrame, Zenon DEF Program
<1>1. UNCHANGED <<seen, at, latch, ruling, dest, judged>>
  BY Zenon DEF Bump, Reserve, Submit, Drop, route
<1>2. PICK x \in Calls, s \in {"reserve", "submit", "drop", "done"} :
        prog[x] \in {"bump", "reserve", "submit", "drop"} /\ prog' = [prog EXCEPT ![x] = s]
  <2>1. CASE Bump
    BY <2>1, Zenon DEF Bump, Step
  <2>2. CASE Reserve
    BY <2>2, Zenon DEF Reserve, Step
  <2>3. CASE Submit
    BY <2>3, Zenon DEF Submit, Step
  <2>4. CASE Drop
    BY <2>4, Zenon DEF Drop, Step
  <2>. QED BY <2>1, <2>2, <2>3, <2>4, Zenon
<1>3. Registers /\ Scan(x)
  BY TypedRegisters, Zenon DEF EInv
<1>4. Registers' /\ \A c \in Calls \ {x} : SameAt(c)
  BY <1>1, <1>2, <1>3 DEF Registers, SameAt
<1>5. prog'[x] = s /\ ruling[x] # "grant"
  BY <1>2, <1>3, Zenon DEF Registers, Scan
<1>6. Scan(x)'
  BY <1>1, <1>2, <1>5, Zenon DEF Scan, Scanning
<1>. QED BY <1>0, <1>4, <1>6, ProgramStep, TypedRegisters, Zenon DEF EInv

\* A step of the drain leaves the programs alone.
LEMMA DrainStep ==
  ASSUME EInv, UNCHANGED <<env, sink, dest, judged, run>>, ETyped', SeqInv',
         seq \in Nat, seq' \in Nat, seq <= seq',
         slots' = slots \/ Odd(seq'),
         seq' = seq \/ Odd(seq') \/ seq' = seq + 1
  PROVE  EInv'
<1>1. EnvInv' /\ Grows
  BY StillEnv, Zenon
<1>2. UNCHANGED <<prog, seen, at, latch, ruling>>
  BY Zenon DEF run
<1>3. \A c \in Calls : SameAt(c)
  BY <1>2, Zenon DEF SameAt
<1>4. \A c \in Calls : Scan(c)'
  <2>1. CASE UNCHANGED <<seq, slots>>
    BY <1>1, <1>3, <2>1, ScanSame, Zenon
  <2>2. CASE Odd(seq') \/ seq' = seq + 1
    <3>. SUFFICES ASSUME NEW c \in Calls PROVE Scan(c)'
      OBVIOUS
    <3>1. judged[c] \in Int /\ latch[c] \in Nat /\ EnvInv /\ Scan(c) /\ seen[c] \in Nat
      BY Zenon DEF EInv, ETyped
    <3>2. Passed(c) => Passed(c)'
      BY <1>1, <1>3, <3>1, PassedGrows, Zenon DEF SameAt
    <3>3. prog[c] \in Scanning => seen[c] <= seq' /\ seq' # seen[c]
      <4>. SUFFICES ASSUME prog[c] \in Scanning PROVE seen[c] <= seq' /\ seq' # seen[c]
        OBVIOUS
      <4>1. seen[c] <= seq /\ ~Odd(seen[c])
        BY <3>1, Zenon DEF Scan
      <4>2. seq' # seen[c]
        BY <2>2, <3>1, <4>1
      <4>. QED BY <3>1, <4>1, <4>2
    <3>. QED BY <1>3, <3>1, <3>2, <3>3, Zenon DEF Scan, SameAt, Scanning
  <2>. QED BY <2>1, <2>2, Zenon
<1>. QED BY <1>1, <1>4, Zenon DEF EInv

\* The steps that leave the maps alone.
LEMMA PassKeeps ==
  ASSUME EInv, Stop \/ Lost \/ Pop \/ Flushed \/ Emit \/ Stat
  PROVE  EInv'
<1>1. UNCHANGED <<env, sink, dest, judged, run, seq, slots, base, slot, want>>
  BY Zenon DEF Stop, Lost, Pop, Flushed, Emit, Stat, route, maps, sync
<1>2. dpc' \notin {"write", "land"}
  <2>1. CASE Stop \/ Lost
    BY <2>1, Zenon DEF Stop, Lost
  <2>2. CASE Pop
    BY <2>2, Zenon DEF Pop
  <2>3. CASE Flushed
    BY <2>3, Zenon DEF Flushed
  <2>4. CASE Emit
    BY <2>4, Zenon DEF Emit
  <2>5. CASE Stat
    BY <2>5, Zenon DEF Stat
  <2>. QED BY <2>1, <2>2, <2>3, <2>4, <2>5, Zenon
<1>3. ETyped'
  BY <1>1, Zenon DEF EInv, ETyped, run
<1>4. SeqInv'
  BY <1>1, <1>2, StillBacked, Zenon DEF SeqInv
<1>5. seq \in Nat
  BY Zenon DEF EInv, ETyped
<1>6. seq <= seq
  BY <1>5
<1>. QED BY <1>1, <1>3, <1>4, <1>5, <1>6, DrainStep, Zenon

\* The entries of the file are backed, and an unreadable file has none.
LEMMA LoadKeeps == EInv /\ Load => EInv'
<1>. SUFFICES ASSUME EInv, Load PROVE EInv'
  OBVIOUS
<1>1. UNCHANGED <<env, sink, dest, judged, run, seq, slots, base, slot>> /\ dpc' = "lift"
  BY Zenon DEF Load, route, maps
<1>2. /\ seq \in Nat /\ slots \in [Slots -> Entries] /\ file \in [Keys -> Int] /\ Within(file)
      /\ high \in [Keys -> Nat]
  BY Zenon DEF EInv, ETyped, EnvInv, EnvTyped
<1>3. PICK n \in 0..GrantSlots, ks \in [Slots -> Keys] :
        /\ \A i \in 1..n : file[ks[i]] > 0 /\ ks[i].addr \notin Protected
        /\ want' = [i \in Slots |-> IF i <= n THEN [addr |-> ks[i].addr, exp |-> file[ks[i]]]
                                              ELSE Sentinel]
  <2>. DEFINE Loaded == IF statSig = NoSig \/ file = NoImage THEN {}
                        ELSE {k \in Keys : file[k] > 0 /\ k.addr \notin Protected}
  <2>1. PICK F \in {Loaded, {}}, n \in 0..GrantSlots, ks \in [Slots -> Keys] :
          /\ n = IF Cardinality(F) < GrantSlots THEN Cardinality(F) ELSE GrantSlots
          /\ \A i \in 1..n : ks[i] \in F /\ \A j \in 1..n : ks[i] = ks[j] => i = j
          /\ want' = [i \in Slots |-> IF i <= n THEN [addr |-> ks[i].addr, exp |-> file[ks[i]]]
                                                ELSE Sentinel]
    BY Zenon DEF Load
  <2>2. \A k \in F : file[k] > 0 /\ k.addr \notin Protected
    <3>1. CASE F = {}
      BY <3>1, Zenon
    <3>2. CASE F = Loaded
      <4>1. \A k \in Loaded : file[k] > 0 /\ k.addr \notin Protected
        BY Zenon
      <4>. QED BY <3>2, <4>1, Zenon
    <3>3. F = {} \/ F = Loaded
      BY <2>1, Zenon
    <3>. QED BY <3>1, <3>2, <3>3, Zenon
  <2>3. \A i \in 1..n : file[ks[i]] > 0 /\ ks[i].addr \notin Protected
    <3>1. \A i \in 1..n : ks[i] \in F
      BY <2>1, Zenon
    <3>. QED BY <2>2, <3>1, Zenon
  <2>4. want' = [i \in Slots |-> IF i <= n THEN [addr |-> ks[i].addr, exp |-> file[ks[i]]]
                                          ELSE Sentinel]
    BY <2>1, Zenon
  <2>5. n \in 0..GrantSlots /\ ks \in [Slots -> Keys]
    BY <2>1, Zenon
  <2>. HIDE DEF Loaded
  <2>. QED BY <2>3, <2>4, <2>5, Zenon
<1>4. \A i \in Slots : want'[i] \in Entries /\ Backed(want'[i])
  <2>. SUFFICES ASSUME NEW i \in Slots PROVE want'[i] \in Entries /\ Backed(want'[i])
    OBVIOUS
  <2>1. CASE ~ (i <= n)
    <3>1. want'[i] = Sentinel
      BY <1>3, <2>1, Zenon
    <3>2. Sentinel.exp = 0
      BY DEF Sentinel
    <3>. QED BY <3>1, <3>2, DeadEntry, Zenon DEF Backed
  <2>2. CASE i <= n
    <3>1. ks[i] \in Keys /\ want'[i] = [addr |-> ks[i].addr, exp |-> file[ks[i]]]
      BY <1>3, <2>2, Zenon
    <3>2. i \in 1..n
      BY <2>2 DEF Slots
    <3>3. file[ks[i]] > 0 /\ ks[i].addr \notin Protected /\ file[ks[i]] \in Int
          /\ file[ks[i]] <= Secs(high[ks[i]])
      BY <1>2, <1>3, <3>1, <3>2, Zenon DEF Within
    <3>4. file[ks[i]] \in Nat /\ ks[i].addr \in Addrs
      BY <3>1, <3>3 DEF Keys
    <3>5. want'[i].addr = ks[i].addr /\ want'[i].exp = file[ks[i]]
      BY <3>1
    <3>6. want'[i] \in Entries
      BY <3>1, <3>4 DEF Entries
    <3>. QED BY <3>1, <3>3, <3>5, <3>6, Zenon DEF Backed
  <2>. QED BY <2>1, <2>2, Zenon
<1>5. want' \in [Slots -> Entries]
  BY <1>3, <1>4, Zenon
<1>6. ETyped'
  BY <1>1, <1>5, Zenon DEF EInv, ETyped, run
<1>7. SeqInv'
  <2>1. high' = high
    BY <1>1, Zenon DEF env
  <2>2. \A i \in Slots : Backed(slots[i])' /\ Backed(want[i])'
    BY <1>1, <1>4, <2>1, Zenon DEF EInv, SeqInv, Backed
  <2>. QED BY <1>1, <2>2, Zenon DEF SeqInv
<1>8. seq <= seq
  BY <1>2
<1>. QED BY <1>1, <1>2, <1>6, <1>7, <1>8, DrainStep, Zenon

\* The counter becomes odd.
LEMMA LiftKeeps == EInv /\ Lift => EInv'
<1>. SUFFICES ASSUME EInv, Lift PROVE EInv'
  OBVIOUS
<1>1. UNCHANGED <<env, sink, dest, judged, run, slots, want>> /\ seq \in Nat
  BY Zenon DEF Lift, route, EInv, ETyped
<1>2. CASE dpc' = "poll" /\ UNCHANGED <<base, seq, slot>>
  <2>1. ETyped'
    BY <1>1, <1>2, Zenon DEF EInv, ETyped, run
  <2>2. SeqInv'
    BY <1>1, <1>2, StillBacked, Zenon DEF SeqInv
  <2>3. seq <= seq
    BY <1>1
  <2>. QED BY <1>1, <1>2, <2>1, <2>2, <2>3, DrainStep, Zenon
<1>3. CASE base' = seq /\ seq' = (IF Odd(seq) THEN seq ELSE seq + 1) /\ slot' = 1
           /\ dpc' = "write"
  <2>1. Odd(seq') /\ seq' \in Nat /\ seq <= seq' /\ slot' \in Nat /\ slot' > 0 /\ base' \in Nat
    BY <1>1, <1>3, OddNext
  <2>2. ETyped'
    BY <1>1, <2>1, Zenon DEF EInv, ETyped, run
  <2>3. SeqInv'
    BY <1>1, <1>3, <2>1, StillBacked, Zenon DEF SeqInv
  <2>. QED BY <1>1, <2>1, <2>2, <2>3, DrainStep, Zenon
<1>. QED BY <1>2, <1>3, Zenon DEF Lift

\* A phase of a rewrite leaves a dead entry, or the one that was loaded.
LEMMA PhaseBacked ==
  ASSUME NEW old \in Entries, NEW new \in Entries, Backed(new)
  PROVE  Phase(old, new) \in Entries /\ Backed(Phase(old, new))
<1>1. Phase(old, new) \in {Dead(old), Dead(new), new}
  BY Zenon DEF Phase
<1>2. \A e \in {old, new} : Dead(e) \in Entries /\ Dead(e).exp = 0
  BY DeadEntry, Zenon
<1>. QED BY <1>1, <1>2, Zenon DEF Backed

LEMMA WriteKeeps == EInv /\ Write => EInv'
<1>. SUFFICES ASSUME EInv, Write PROVE EInv'
  OBVIOUS
<1>1. /\ UNCHANGED <<env, sink, dest, judged, run, seq, base, want>> /\ seq \in Nat
      /\ Odd(seq) /\ seq = (IF Odd(base) THEN base ELSE base + 1) /\ slot > 0 /\ slot \in Nat
      /\ slots \in [Slots -> Entries] /\ want \in [Slots -> Entries]
      /\ dpc' \in {"write", "land"} /\ \A i \in Slots : Backed(slots[i]) /\ Backed(want[i])
  BY Zenon DEF Write, route, EInv, ETyped, SeqInv
<1>2. slot' \in {slot, slot + 1}
  BY Zenon DEF Write
<1>3. slot' \in Nat /\ slot' > 0
  BY <1>1, <1>2
<1>4. slots' \in [Slots -> Entries] /\ \A i \in Slots : Backed(slots'[i])
  <2>1. CASE slots' = slots
    BY <1>1, <2>1, Zenon
  <2>2. CASE slot <= GrantSlots /\ slots' = [slots EXCEPT ![slot] = Phase(@, want[slot])]
    <3>1. slot \in Slots
      BY <1>1, <2>2, RouteTyped DEF Slots
    <3>2. /\ Phase(slots[slot], want[slot]) \in Entries
          /\ Backed(Phase(slots[slot], want[slot]))
      BY <1>1, <3>1, PhaseBacked, Zenon
    <3>3. slots' = [slots EXCEPT ![slot] = Phase(slots[slot], want[slot])]
      BY <1>1, <2>2, <3>1, Zenon
    <3>. QED BY <1>1, <3>1, <3>2, <3>3, Zenon
  <2>. QED BY <2>1, <2>2, Zenon DEF Write
<1>5. ETyped'
  BY <1>1, <1>3, <1>4, Zenon DEF EInv, ETyped, run
<1>6. SeqInv'
  <2>1. high' = high
    BY <1>1, Zenon DEF env
  <2>. QED BY <1>1, <1>3, <1>4, <2>1, Zenon DEF SeqInv, Backed
<1>7. seq <= seq
  BY <1>1
<1>. QED BY <1>1, <1>5, <1>6, <1>7, DrainStep, Zenon

\* The counter moves on.
LEMMA LandKeeps == EInv /\ Land => EInv'
<1>. SUFFICES ASSUME EInv, Land PROVE EInv'
  OBVIOUS
<1>1. /\ UNCHANGED <<env, sink, dest, judged, run, slots, want>> /\ seq \in Nat
      /\ seq = (IF Odd(base) THEN base ELSE base + 1)
      /\ dpc' = "poll" /\ base' = 0 /\ slot' = 0
      /\ seq' = (IF Odd(base) THEN base ELSE base + 1) + 1 \/ seq' = seq
  BY Zenon DEF Land, route, EInv, ETyped, SeqInv
<1>2. seq' \in {seq, seq + 1}
  BY <1>1, Zenon
<1>3. seq' \in Nat /\ seq <= seq' /\ base' \in Nat /\ slot' \in Nat
  BY <1>1, <1>2
<1>4. ETyped'
  BY <1>1, <1>3, Zenon DEF EInv, ETyped, run
<1>5. SeqInv'
  BY <1>1, StillBacked, Zenon DEF SeqInv
<1>. QED BY <1>1, <1>2, <1>3, <1>4, <1>5, DrainStep, Zenon

\* Every step of the route keeps the invariant of the scan.
LEMMA EbpfKeeps == EInv /\ EbpfNext => EInv'
  BY EOutsideKeeps, EnterKeeps, ReadSeqKeeps, ReadExpKeeps, ReadAddrKeeps, RecheckKeeps,
     TailKeeps, PassKeeps, LoadKeeps, LiftKeeps, WriteKeeps, LandKeeps, Zenon
     DEF EbpfNext, Program, DrainLoop

--------------------------------------------------------------------------------
(* The denials: each is counted once, on its way from the program to the   *)
(* audit log.                                                              *)

Reports == [call : Calls, state : {"busy", "ready"}]
Emitting == {"emit", "emitlast"}
Tails == {c \in Calls : prog[c] \in {"reserve", "drop"}}

\* A denial with a record, in the ring or behind it.
Filed(c) == prog[c] \in {"submit", "done"} /\ ruling[c] = "deny"

\* A call is in one place of the ring, or in the hands of the drain, or drained.
PlacesInv ==
  /\ ring \in Seq(Reports) /\ drained \subseteq Calls
  /\ \A i, j \in 1..Len(ring) : i # j => ring[i].call # ring[j].call
  /\ \A i \in 1..Len(ring) : Filed(ring[i].call) /\ ring[i].call \notin drained
  /\ dpc \in Emitting => /\ rec \in Calls /\ rec \notin drained /\ Filed(rec)
                         /\ \A i \in 1..Len(ring) : ring[i].call # rec
  /\ \A c \in drained : Filed(c) /\ (sink = "up" => <<"denied", c>> \in records)
  /\ \A c \in Calls : prog[c] \in {"bump", "reserve", "drop", "submit"} => ruling[c] = "deny"

InHand == IF dpc \in Emitting THEN 1 ELSE 0

CountInv ==
  /\ IsFiniteSet(drained) /\ IsFiniteSet(Tails) /\ denied \in Nat /\ dropped \in Nat
  /\ denied = Cardinality(drained) + dropped + Len(ring) + Cardinality(Tails) + InHand

DenyInv == PlacesInv /\ CountInv

LEMMA InvAccounts == DenyInv => DenyAccounted
  BY Zenon DEF DenyInv, PlacesInv, CountInv, DenyAccounted, Filed, Tails, InHand, Emitting

LEMMA RingCalls ==
  ASSUME NEW r \in Seq(Reports), NEW i \in 1..Len(r)
  PROVE  r[i] \in Reports /\ r[i].call \in Calls
<1>1. r[i] \in Reports
  OBVIOUS
<1>. QED BY <1>1 DEF Reports

\* What the counts rest on.
Counting ==
  /\ IsFiniteSet({}) /\ Cardinality({}) = 0
  /\ \A S : IsFiniteSet(S) => Cardinality(S) \in Nat
  /\ \A S, c : IsFiniteSet(S) /\ c \notin S =>
       IsFiniteSet(S \cup {c}) /\ Cardinality(S \cup {c}) = Cardinality(S) + 1
  /\ \A S, c : IsFiniteSet(S) /\ c \in S =>
       IsFiniteSet(S \ {c}) /\ Cardinality(S \ {c}) = Cardinality(S) - 1

LEMMA DenyInitInv ==
  ASSUME Counting, EbpfInit
  PROVE  DenyInv
<1>1. /\ prog \in [Calls -> {"idle", "never"}] /\ ring = <<>> /\ drained = {} /\ dpc = "poll"
      /\ denied = 0 /\ dropped = 0
  BY Zenon DEF EbpfInit, DrainFresh
<1>2. Tails = {}
  BY <1>1, Zenon DEF Tails
<1>3. ring \in Seq(Reports) /\ Len(ring) = 0 /\ \A i \in 1..Len(ring) : FALSE
  BY <1>1
<1>4. PlacesInv
  BY <1>1, <1>3, Zenon DEF PlacesInv, Emitting
<1>5. Cardinality(drained) = 0 /\ Cardinality(Tails) = 0 /\ InHand = 0
  BY <1>1, <1>2, Zenon DEF Counting, InHand, Emitting
<1>6. IsFiniteSet(drained) /\ IsFiniteSet(Tails)
  BY <1>1, <1>2, Zenon DEF Counting
<1>7. /\ denied = Cardinality(drained) + dropped + Len(ring) + Cardinality(Tails) + InHand
      /\ denied \in Nat /\ dropped \in Nat
  BY <1>1, <1>3, <1>5
<1>. QED BY <1>4, <1>6, <1>7, Zenon DEF DenyInv, CountInv

\* A step that neither denies nor drains.
LEMMA NoDenial ==
  ASSUME DenyInv, UNCHANGED <<ring, denied, dropped, drained>>, records \subseteq records',
         sink' = "up" => sink = "up",
         dpc' \in Emitting <=> dpc \in Emitting, dpc \in Emitting => rec' = rec,
         Tails' = Tails, \A c \in Calls : Filed(c) => Filed(c)',
         \A c \in Calls : prog'[c] \in {"bump", "reserve", "drop", "submit"} => ruling'[c] = "deny"
  PROVE  DenyInv'
<1>1. InHand' = InHand
  BY Zenon DEF InHand
<1>2. CountInv'
  BY <1>1, Zenon DEF DenyInv, CountInv
<1>3. /\ ring \in Seq(Reports) /\ drained \subseteq Calls
      /\ \A i, j \in 1..Len(ring) : i # j => ring[i].call # ring[j].call
      /\ \A i \in 1..Len(ring) : Filed(ring[i].call) /\ ring[i].call \notin drained
      /\ dpc \in Emitting => /\ rec \in Calls /\ rec \notin drained /\ Filed(rec)
                             /\ \A i \in 1..Len(ring) : ring[i].call # rec
      /\ \A c \in drained : Filed(c) /\ (sink = "up" => <<"denied", c>> \in records)
  BY Zenon DEF DenyInv, PlacesInv
<1>4. \A i \in 1..Len(ring) : ring[i].call \in Calls
  BY <1>3, RingCalls, Zenon
<1>5. \A i \in 1..Len(ring) : Filed(ring[i].call)'
  BY <1>3, <1>4, Zenon DEF Filed
<1>6. \A c \in drained : Filed(c)' /\ (sink' = "up" => <<"denied", c>> \in records')
  BY <1>3, Zenon
<1>7. dpc' \in Emitting => /\ rec' \in Calls /\ rec' \notin drained /\ Filed(rec)'
                           /\ \A i \in 1..Len(ring) : ring[i].call # rec'
  BY <1>3, Zenon DEF Filed
<1>8. PlacesInv'
  BY <1>3, <1>5, <1>6, <1>7, Zenon DEF PlacesInv
<1>. QED BY <1>2, <1>8, Zenon DEF DenyInv

\* The steps that leave the programs and the ring alone.
LEMMA BesideDenials ==
  ASSUME DenyInv,
         \/ EbpfOutside \/ Stop \/ Lost \/ Flushed \/ Stat \/ Load \/ Lift \/ Write \/ Land
  PROVE  DenyInv'
<1>1. /\ UNCHANGED <<prog, ruling, ring, denied, dropped, drained, rec>>
      /\ records \subseteq records' /\ (sink' = "up" => sink = "up")
  <2>1. CASE EbpfOutside
    BY <2>1, Zenon DEF EbpfOutside, Gate, SinkFails, AskStop, run, stats, dloop
  <2>2. CASE Stop \/ Lost \/ Flushed \/ Stat \/ Load
    BY <2>2, Zenon DEF Stop, Lost, Flushed, Stat, Load, run, stats, route
  <2>3. CASE Lift \/ Write \/ Land
    BY <2>3, Zenon DEF Lift, Write, Land, run, stats, route
  <2>. QED BY <2>1, <2>2, <2>3, Zenon
<1>2. dpc' \in Emitting <=> dpc \in Emitting
  <2>1. CASE EbpfOutside
    BY <2>1, Zenon DEF EbpfOutside, dloop
  <2>2. CASE Stop \/ Lost
    BY <2>2, Zenon DEF Stop, Lost, Emitting
  <2>3. CASE Flushed
    BY <2>3, Zenon DEF Flushed, Emitting
  <2>4. CASE Stat
    BY <2>4, Zenon DEF Stat, Passing, Emitting
  <2>5. CASE Load \/ Lift
    BY <2>5, Zenon DEF Load, Lift, Emitting
  <2>6. CASE Write \/ Land
    BY <2>6, Zenon DEF Write, Land, Emitting
  <2>. QED BY <2>1, <2>2, <2>3, <2>4, <2>5, <2>6, Zenon
<1>3. Tails' = Tails /\ \A c \in Calls : Filed(c) => Filed(c)'
  BY <1>1, Zenon DEF Tails, Filed
<1>4. \A c \in Calls : prog[c] \in {"bump", "reserve", "drop", "submit"} => ruling[c] = "deny"
  BY Zenon DEF DenyInv, PlacesInv
<1>. QED BY <1>1, <1>2, <1>3, <1>4, NoDenial, Zenon

\* The scan of a program, up to its verdict.
Early == {"idle", "seq", "exp", "addr", "recheck"}

LEMMA EarlyMoves ==
  ASSUME EInv, Enter \/ ReadSeq \/ ReadExp \/ ReadAddr \/ Recheck
  PROVE  \E x \in Calls :
           /\ prog[x] \in Early /\ prog'[x] \in Early \cup {"bump", "done"}
           /\ prog'[x] = "bump" => ruling'[x] = "deny"
           /\ \A c \in Calls \ {x} : prog'[c] = prog[c] /\ ruling'[c] = ruling[c]
<1>1. /\ prog \in [Calls -> {"idle", "never", "seq", "exp", "addr", "recheck", "bump", "reserve",
                             "submit", "drop", "done"}]
      /\ ruling \in [Calls -> {"none", "rule", "grant", "deny"}]
  BY Zenon DEF EInv, ETyped
<1>. DEFINE Moves(x) == \/ \E s \in Early \ {"idle"} : prog' = [prog EXCEPT ![x] = s] /\ ruling' = ruling
                        \/ \E v \in {"rule", "grant"} : /\ prog' = [prog EXCEPT ![x] = "done"]
                                                        /\ ruling' = [ruling EXCEPT ![x] = v]
                        \/ prog' = [prog EXCEPT ![x] = "bump"] /\ ruling' = [ruling EXCEPT ![x] = "deny"]
<1>2. ASSUME NEW x \in Calls, NextSlot(x) PROVE Moves(x)
  BY <1>2, Zenon DEF NextSlot, Default, Step, Rule, Early
<1>3. \E x \in Calls : prog[x] \in Early /\ Moves(x)
  <2>1. CASE Enter
    BY <2>1, Zenon DEF Enter, Default, Step, Rule, Early
  <2>2. CASE ReadSeq
    BY <2>2, Zenon DEF ReadSeq, Default, Step, Rule, Early
  <2>3. CASE ReadExp
    BY <2>3, <1>2, Zenon DEF ReadExp, Step, Early
  <2>4. CASE ReadAddr
    BY <2>4, <1>2, Zenon DEF ReadAddr, Step, Early
  <2>5. CASE Recheck
    BY <2>5, Zenon DEF Recheck, Default, Step, Rule, Early
  <2>. QED BY <2>1, <2>2, <2>3, <2>4, <2>5, Zenon
<1>4. PICK x \in Calls : prog[x] \in Early /\ Moves(x)
  BY <1>3, Zenon
<1>5. prog'[x] \in Early \cup {"bump", "done"} /\ (prog'[x] = "bump" => ruling'[x] = "deny")
  BY <1>1, <1>4, Zenon DEF Early
<1>6. \A c \in Calls \ {x} : prog'[c] = prog[c] /\ ruling'[c] = ruling[c]
  BY <1>1, <1>4, Zenon
<1>. QED BY <1>4, <1>5, <1>6, Zenon

LEMMA EarlyDenials ==
  ASSUME EInv, DenyInv, Enter \/ ReadSeq \/ ReadExp \/ ReadAddr \/ Recheck
  PROVE  DenyInv'
<1>1. UNCHANGED <<ring, denied, dropped, drained, rec, dpc, records, sink>>
  BY Zenon DEF Enter, ReadSeq, ReadExp, ReadAddr, Recheck, stats, dloop
<1>2. PICK x \in Calls :
           /\ prog[x] \in Early /\ prog'[x] \in Early \cup {"bump", "done"}
           /\ prog'[x] = "bump" => ruling'[x] = "deny"
           /\ \A c \in Calls \ {x} : prog'[c] = prog[c] /\ ruling'[c] = ruling[c]
  BY EarlyMoves, Zenon
<1>3. \A c \in Calls : prog'[c] \in {"reserve", "drop"} <=> prog[c] \in {"reserve", "drop"}
  BY <1>2, Zenon DEF Early
<1>4. Tails' = Tails
  BY <1>3, Zenon DEF Tails
<1>5. \A c \in Calls : Filed(c) => Filed(c)'
  BY <1>2, Zenon DEF Filed, Early
<1>6. \A c \in Calls : prog'[c] \in {"bump", "reserve", "drop", "submit"} => ruling'[c] = "deny"
  BY <1>2, Zenon DEF Early, DenyInv, PlacesInv
<1>. QED BY <1>1, <1>4, <1>5, <1>6, NoDenial, Zenon

\* The ring and the places of a step that moves the programs on.
SameCalls ==
  /\ ring' \in Seq(Reports) /\ Len(ring') = Len(ring)
  /\ \A i \in 1..Len(ring) : ring'[i].call = ring[i].call

Extended(x) ==
  /\ ring' \in Seq(Reports) /\ Len(ring') = Len(ring) + 1 /\ Len(ring) \in Nat
  /\ \A i \in 1..Len(ring') : /\ i \in 1..Len(ring) => ring'[i].call = ring[i].call
                              /\ i \notin 1..Len(ring) => ring'[i].call = x /\ i = Len(ring')

LEMMA RingSubmits ==
  ASSUME ring \in Seq(Reports), NEW x,
         ring' = [i \in DOMAIN ring |->
                    IF ring[i].call = x THEN [ring[i] EXCEPT !.state = "ready"] ELSE ring[i]]
  PROVE  SameCalls
<1>1. DOMAIN ring = 1..Len(ring) /\ Len(ring) \in Nat
  OBVIOUS
<1>2. \A i \in 1..Len(ring) : ring[i] \in Reports
  OBVIOUS
<1>3. \A r \in Reports : /\ [r EXCEPT !.state = "ready"] \in Reports
                         /\ [r EXCEPT !.state = "ready"].call = r.call
  BY DEF Reports
<1>4. \A i \in 1..Len(ring) : ring'[i] \in Reports /\ ring'[i].call = ring[i].call
  BY <1>1, <1>2, <1>3, Zenon
<1>5. ring' = [i \in 1..Len(ring) |-> ring'[i]]
  BY <1>1, Zenon
<1>6. ring' \in Seq(Reports) /\ Len(ring') = Len(ring)
  BY <1>1, <1>4, <1>5
<1>. QED BY <1>4, <1>6, Zenon DEF SameCalls

LEMMA RingExtends ==
  ASSUME ring \in Seq(Reports), NEW x \in Calls,
         ring' = Append(ring, [call |-> x, state |-> "busy"])
  PROVE  Extended(x)
<1>. DEFINE r == [call |-> x, state |-> "busy"]
<1>1. r \in Reports /\ r.call = x
  BY DEF Reports
<1>. HIDE DEF r
<1>2. ring' = Append(ring, r)
  BY DEF r
<1>3. ring' \in Seq(Reports) /\ Len(ring') = Len(ring) + 1 /\ Len(ring) \in Nat
  BY <1>1, <1>2
<1>4. \A i \in 1..Len(ring') : /\ i \in 1..Len(ring) => ring'[i] = ring[i]
                               /\ i \notin 1..Len(ring) => ring'[i] = r /\ i = Len(ring')
  BY <1>1, <1>2, <1>3
<1>. QED BY <1>1, <1>3, <1>4, Zenon DEF Extended

\* What the places are after a step that leaves the drain alone.
LEMMA PlacesSame ==
  ASSUME DenyInv, UNCHANGED <<drained, rec, dpc, records, sink, ruling>>, SameCalls,
         \A c \in Calls : Filed(c) => Filed(c)',
         \A c \in Calls : prog'[c] \in {"bump", "reserve", "drop", "submit"} => ruling[c] = "deny"
  PROVE  PlacesInv'
<1>1. /\ ring \in Seq(Reports) /\ drained \subseteq Calls
      /\ \A i, j \in 1..Len(ring) : i # j => ring[i].call # ring[j].call
      /\ \A i \in 1..Len(ring) : Filed(ring[i].call) /\ ring[i].call \notin drained
      /\ dpc \in Emitting => /\ rec \in Calls /\ rec \notin drained /\ Filed(rec)
                             /\ \A i \in 1..Len(ring) : ring[i].call # rec
      /\ \A c \in drained : Filed(c) /\ (sink = "up" => <<"denied", c>> \in records)
  BY Zenon DEF DenyInv, PlacesInv
<1>2. \A i \in 1..Len(ring) : ring[i].call \in Calls
  BY <1>1, RingCalls, Zenon
<1>3. /\ ring' \in Seq(Reports)
      /\ \A i, j \in 1..Len(ring') : i # j => ring'[i].call # ring'[j].call
      /\ \A i \in 1..Len(ring') : ring'[i].call = ring[i].call /\ ring'[i].call \notin drained
      /\ dpc \in Emitting => \A i \in 1..Len(ring') : ring'[i].call # rec
  BY <1>1, Zenon DEF SameCalls
<1>4. \A i \in 1..Len(ring') : Filed(ring[i].call)'
  BY <1>1, <1>2, <1>3, Zenon DEF Filed, SameCalls
<1>5. \A c \in drained : Filed(c)'
  BY <1>1, Zenon
<1>6. dpc \in Emitting => Filed(rec)'
  BY <1>1, Zenon DEF Filed
<1>. QED BY <1>1, <1>3, <1>4, <1>5, <1>6, Zenon DEF PlacesInv

LEMMA PlacesKept ==
  ASSUME DenyInv, UNCHANGED <<ring, drained, rec, dpc, records, sink, ruling>>,
         \A c \in Calls : Filed(c) => Filed(c)',
         \A c \in Calls : prog'[c] \in {"bump", "reserve", "drop", "submit"} => ruling[c] = "deny"
  PROVE  PlacesInv'
<1>1. SameCalls
  BY Zenon DEF SameCalls, DenyInv, PlacesInv
<1>. QED BY <1>1, PlacesSame, Zenon

LEMMA PlacesExtended ==
  ASSUME DenyInv, UNCHANGED <<drained, rec, dpc, records, sink, ruling>>,
         NEW x \in Calls, Extended(x), Filed(x)', ~ Filed(x),
         \A c \in Calls : Filed(c) => Filed(c)',
         \A c \in Calls : prog'[c] \in {"bump", "reserve", "drop", "submit"} => ruling[c] = "deny"
  PROVE  PlacesInv'
<1>1. /\ ring \in Seq(Reports) /\ drained \subseteq Calls
      /\ \A i, j \in 1..Len(ring) : i # j => ring[i].call # ring[j].call
      /\ \A i \in 1..Len(ring) : Filed(ring[i].call) /\ ring[i].call \notin drained
      /\ dpc \in Emitting => /\ rec \in Calls /\ rec \notin drained /\ Filed(rec)
                             /\ \A i \in 1..Len(ring) : ring[i].call # rec
      /\ \A c \in drained : Filed(c) /\ (sink = "up" => <<"denied", c>> \in records)
  BY Zenon DEF DenyInv, PlacesInv
<1>2. x \notin drained /\ (dpc \in Emitting => rec # x)
      /\ \A i \in 1..Len(ring) : ring[i].call # x /\ ring[i].call \in Calls
  BY <1>1, RingCalls, Zenon
<1>3. \A i \in 1..Len(ring') : /\ ring'[i].call \notin drained
                               /\ dpc \in Emitting => ring'[i].call # rec
                               /\ Filed(ring[i].call)'
  <2>. SUFFICES ASSUME NEW i \in 1..Len(ring')
                PROVE  /\ ring'[i].call \notin drained
                       /\ dpc \in Emitting => ring'[i].call # rec
                       /\ Filed(ring[i].call)'
    OBVIOUS
  <2>1. CASE i \in 1..Len(ring)
    <3>1. ring'[i].call = ring[i].call /\ ring[i].call \in Calls /\ Filed(ring[i].call)
      BY <1>1, <1>2, <2>1, Zenon DEF Extended
    <3>. QED BY <1>1, <2>1, <3>1, Zenon DEF Filed
  <2>2. CASE i \notin 1..Len(ring)
    <3>1. ring'[i].call = x
      BY <2>2, Zenon DEF Extended
    <3>. QED BY <1>2, <3>1, Zenon DEF Filed
  <2>. QED BY <2>1, <2>2, Zenon
<1>4. \A i, j \in 1..Len(ring') : i # j => ring'[i].call # ring'[j].call
  <2>. SUFFICES ASSUME NEW i \in 1..Len(ring'), NEW j \in 1..Len(ring'), i # j
                PROVE  ring'[i].call # ring'[j].call
    OBVIOUS
  <2>1. /\ i \in 1..Len(ring) => ring'[i].call = ring[i].call
        /\ j \in 1..Len(ring) => ring'[j].call = ring[j].call
        /\ i \notin 1..Len(ring) => ring'[i].call = x /\ i = Len(ring')
        /\ j \notin 1..Len(ring) => ring'[j].call = x /\ j = Len(ring')
    BY Zenon DEF Extended
  <2>2. i \in 1..Len(ring) \/ j \in 1..Len(ring)
    BY <2>1, Zenon
  <2>. QED BY <1>1, <1>2, <2>1, <2>2, Zenon
<1>5. /\ \A c \in drained : Filed(c)'
      /\ dpc \in Emitting => Filed(rec)'
  BY <1>1, Zenon DEF Filed
<1>6. ring' \in Seq(Reports)
  BY Zenon DEF Extended
<1>. QED BY <1>1, <1>3, <1>4, <1>5, <1>6, Zenon DEF PlacesInv

\* The tail of a denial moves one call on.
LEMMA TailMove ==
  ASSUME EInv, NEW x \in Calls, NEW s \in {"reserve", "submit", "drop", "done"},
         prog' = [prog EXCEPT ![x] = s]
  PROVE  prog'[x] = s /\ \A c \in Calls \ {x} : prog'[c] = prog[c]
  BY Zenon DEF EInv, ETyped

\* The total of the five places a denial may be in.
Adds(t, a, b, c, d, e) == t = a + b + c + d + e

LEMMA OneMore ==
  ASSUME NEW t, NEW a \in Nat, NEW b \in Nat, NEW c \in Nat, NEW d \in Nat, NEW e \in Nat,
         Adds(t, a, b, c, d, e)
  PROVE  Adds(t + 1, a, b, c, d + 1, e)
  BY DEF Adds

\* bump_stat: the denial is counted, and owes a record.
LEMMA BumpDenials ==
  ASSUME Counting, EInv, DenyInv, Bump
  PROVE  DenyInv'
<1>1. /\ UNCHANGED <<ring, dropped, drained, rec, dpc, records, sink, ruling>>
      /\ denied' = denied + 1
  BY Zenon DEF Bump, dloop, route
<1>2. PICK x \in Calls : prog[x] = "bump" /\ prog' = [prog EXCEPT ![x] = "reserve"]
  BY Zenon DEF Bump, Step
<1>3. prog'[x] = "reserve" /\ \A c \in Calls \ {x} : prog'[c] = prog[c]
  BY <1>2, TailMove, Zenon
<1>4. Tails' = Tails \cup {x} /\ x \notin Tails
  BY <1>2, <1>3, Zenon DEF Tails
<1>5. /\ IsFiniteSet(drained) /\ IsFiniteSet(Tails) /\ denied \in Nat /\ dropped \in Nat
      /\ denied = Cardinality(drained) + dropped + Len(ring) + Cardinality(Tails) + InHand
      /\ ring \in Seq(Reports)
  BY Zenon DEF DenyInv, CountInv, PlacesInv
<1>6. IsFiniteSet(Tails') /\ Cardinality(Tails') = Cardinality(Tails) + 1
  BY <1>4, <1>5, Zenon DEF Counting
<1>7. InHand' = InHand /\ InHand \in {0, 1}
  BY <1>1, Zenon DEF InHand
<1>8. Cardinality(drained) \in Nat /\ Cardinality(Tails) \in Nat
  BY <1>5, Zenon DEF Counting
<1>9. Len(ring) \in Nat /\ dropped \in Nat
  BY <1>5
<1>10. denied' \in Nat
  BY <1>1, <1>5
<1>11. denied' = Cardinality(drained) + dropped + Len(ring) + Cardinality(Tails') + InHand
  <2>1. Adds(denied, Cardinality(drained), dropped, Len(ring), Cardinality(Tails), InHand)
    BY <1>5, Zenon DEF Adds
  <2>2. Adds(denied + 1, Cardinality(drained), dropped, Len(ring), Cardinality(Tails) + 1, InHand)
    <3>1. InHand \in Nat
      BY <1>7
    <3>. QED BY <1>8, <1>9, <2>1, <3>1, OneMore, Zenon
  <2>3. Adds(denied', Cardinality(drained), dropped, Len(ring), Cardinality(Tails'), InHand)
    BY <1>1, <1>6, <2>2, Zenon
  <2>. QED BY <2>3, Zenon DEF Adds
<1>12. CountInv'
  BY <1>1, <1>5, <1>6, <1>7, <1>10, <1>11, Zenon DEF CountInv
<1>13. /\ \A c \in Calls : Filed(c) => Filed(c)'
       /\ \A c \in Calls : prog'[c] \in {"bump", "reserve", "drop", "submit"} => ruling[c] = "deny"
  BY <1>1, <1>2, <1>3, Zenon DEF Filed, DenyInv, PlacesInv
<1>14. PlacesInv'
  BY <1>1, <1>13, PlacesKept, Zenon
<1>. QED BY <1>12, <1>14, Zenon DEF DenyInv

\* ringbuf_reserve: a record takes the place of the debt, or the ring is full.
LEMMA ReserveDenials ==
  ASSUME Counting, EInv, DenyInv, Reserve
  PROVE  DenyInv'
<1>1. UNCHANGED <<denied, dropped, drained, rec, dpc, records, sink, ruling>>
  BY Zenon DEF Reserve, dloop, route
<1>2. PICK x \in Calls :
        /\ prog[x] = "reserve"
        /\ \/ ring' = Append(ring, [call |-> x, state |-> "busy"])
              /\ prog' = [prog EXCEPT ![x] = "submit"]
           \/ ring' = ring /\ prog' = [prog EXCEPT ![x] = "drop"]
  BY Zenon DEF Reserve, Step
<1>3. ruling[x] = "deny"
  BY <1>2, Zenon DEF DenyInv, PlacesInv
<1>4. CASE ring' = ring /\ prog' = [prog EXCEPT ![x] = "drop"]
  <2>1. prog'[x] = "drop" /\ \A c \in Calls \ {x} : prog'[c] = prog[c]
    BY <1>4, TailMove, Zenon
  <2>2. \A c \in Calls : prog'[c] \in {"reserve", "drop"} <=> prog[c] \in {"reserve", "drop"}
    BY <1>2, <2>1, Zenon
  <2>3. Tails' = Tails
    BY <2>2, Zenon DEF Tails
  <2>4. /\ \A c \in Calls : Filed(c) => Filed(c)'
        /\ \A c \in Calls : prog'[c] \in {"bump", "reserve", "drop", "submit"} => ruling[c] = "deny"
    BY <1>1, <1>2, <1>3, <2>1, Zenon DEF Filed, DenyInv, PlacesInv
  <2>. QED BY <1>1, <1>4, <2>3, <2>4, NoDenial, Zenon
<1>5. CASE ring' = Append(ring, [call |-> x, state |-> "busy"])
           /\ prog' = [prog EXCEPT ![x] = "submit"]
  <2>1. prog'[x] = "submit" /\ \A c \in Calls \ {x} : prog'[c] = prog[c]
    BY <1>5, TailMove, Zenon
  <2>2. Tails' = Tails \ {x} /\ x \in Tails
    BY <1>2, <2>1, Zenon DEF Tails
  <2>3. /\ IsFiniteSet(drained) /\ IsFiniteSet(Tails) /\ denied \in Nat /\ dropped \in Nat
        /\ denied = Cardinality(drained) + dropped + Len(ring) + Cardinality(Tails) + InHand
        /\ ring \in Seq(Reports)
    BY Zenon DEF DenyInv, CountInv, PlacesInv
  <2>4. IsFiniteSet(Tails') /\ Cardinality(Tails') = Cardinality(Tails) - 1
    BY <2>2, <2>3, Zenon DEF Counting
  <2>5. InHand' = InHand /\ InHand \in {0, 1}
    BY <1>1, Zenon DEF InHand
  <2>6. Cardinality(drained) \in Nat /\ Cardinality(Tails) \in Nat
    BY <2>3, Zenon DEF Counting
  <2>7. Extended(x)
    BY <1>5, <2>3, RingExtends, Zenon
  <2>8. denied = Cardinality(drained) + dropped + Len(ring') + Cardinality(Tails') + InHand
    BY <2>3, <2>4, <2>5, <2>6, <2>7 DEF Extended
  <2>9. CountInv'
    BY <1>1, <2>3, <2>4, <2>5, <2>8, Zenon DEF CountInv
  <2>10. /\ \A c \in Calls : Filed(c) => Filed(c)'
         /\ \A c \in Calls : prog'[c] \in {"bump", "reserve", "drop", "submit"} => ruling[c] = "deny"
         /\ Filed(x)' /\ ~ Filed(x)
    BY <1>1, <1>2, <1>3, <2>1, Zenon DEF Filed, DenyInv, PlacesInv
  <2>11. PlacesInv'
    BY <1>1, <2>7, <2>10, PlacesExtended, Zenon
  <2>. QED BY <2>9, <2>11, Zenon DEF DenyInv
<1>. QED BY <1>2, <1>4, <1>5, Zenon

\* ringbuf_submit: the record becomes readable, where it is.
LEMMA SubmitDenials ==
  ASSUME EInv, DenyInv, Submit
  PROVE  DenyInv'
<1>1. UNCHANGED <<denied, dropped, drained, rec, dpc, records, sink, ruling>>
  BY Zenon DEF Submit, dloop, route
<1>2. PICK x \in Calls :
        /\ prog[x] = "submit" /\ prog' = [prog EXCEPT ![x] = "done"]
        /\ ring' = [i \in DOMAIN ring |->
                      IF ring[i].call = x THEN [ring[i] EXCEPT !.state = "ready"] ELSE ring[i]]
  BY Zenon DEF Submit, Step
<1>3. prog'[x] = "done" /\ \A c \in Calls \ {x} : prog'[c] = prog[c]
  BY <1>2, TailMove, Zenon
<1>4. ring \in Seq(Reports) /\ PlacesInv /\ CountInv
  BY Zenon DEF DenyInv, PlacesInv
<1>5. SameCalls
  BY <1>2, <1>4, RingSubmits, Zenon
<1>6. Tails' = Tails
  <2>1. \A c \in Calls : prog'[c] \in {"reserve", "drop"} <=> prog[c] \in {"reserve", "drop"}
    BY <1>2, <1>3, Zenon
  <2>. QED BY <2>1, Zenon DEF Tails
<1>7. InHand' = InHand /\ Len(ring') = Len(ring)
  BY <1>1, <1>5, Zenon DEF InHand, SameCalls
<1>8. CountInv'
  BY <1>1, <1>4, <1>6, <1>7, Zenon DEF CountInv
<1>9. /\ \A c \in Calls : Filed(c) => Filed(c)'
      /\ \A c \in Calls : prog'[c] \in {"bump", "reserve", "drop", "submit"} => ruling[c] = "deny"
  BY <1>1, <1>2, <1>3, Zenon DEF Filed, DenyInv, PlacesInv
<1>10. PlacesInv'
  BY <1>1, <1>5, <1>9, PlacesSame, Zenon
<1>. QED BY <1>8, <1>10, Zenon DEF DenyInv

\* The ring was full: the drop is counted in the place of the record.
LEMMA DropDenials ==
  ASSUME Counting, EInv, DenyInv, Drop
  PROVE  DenyInv'
<1>1. /\ UNCHANGED <<ring, denied, drained, rec, dpc, records, sink, ruling>>
      /\ dropped' = dropped + 1
  BY Zenon DEF Drop, dloop, route
<1>2. PICK x \in Calls : prog[x] = "drop" /\ prog' = [prog EXCEPT ![x] = "done"]
  BY Zenon DEF Drop, Step
<1>3. prog'[x] = "done" /\ \A c \in Calls \ {x} : prog'[c] = prog[c]
  BY <1>2, TailMove, Zenon
<1>4. Tails' = Tails \ {x} /\ x \in Tails
  BY <1>2, <1>3, Zenon DEF Tails
<1>5. /\ IsFiniteSet(drained) /\ IsFiniteSet(Tails) /\ denied \in Nat /\ dropped \in Nat
      /\ denied = Cardinality(drained) + dropped + Len(ring) + Cardinality(Tails) + InHand
      /\ ring \in Seq(Reports)
  BY Zenon DEF DenyInv, CountInv, PlacesInv
<1>6. IsFiniteSet(Tails') /\ Cardinality(Tails') = Cardinality(Tails) - 1
  BY <1>4, <1>5, Zenon DEF Counting
<1>7. InHand' = InHand /\ InHand \in {0, 1}
  BY <1>1, Zenon DEF InHand
<1>8. Cardinality(drained) \in Nat /\ Cardinality(Tails) \in Nat
  BY <1>5, Zenon DEF Counting
<1>9. /\ dropped' \in Nat
      /\ denied = Cardinality(drained) + dropped' + Len(ring) + Cardinality(Tails') + InHand
  BY <1>1, <1>5, <1>6, <1>7, <1>8
<1>10. CountInv'
  BY <1>1, <1>5, <1>6, <1>7, <1>9, Zenon DEF CountInv
<1>11. /\ \A c \in Calls : Filed(c) => Filed(c)'
       /\ \A c \in Calls : prog'[c] \in {"bump", "reserve", "drop", "submit"} => ruling[c] = "deny"
  BY <1>1, <1>2, <1>3, Zenon DEF Filed, DenyInv, PlacesInv
<1>12. PlacesInv'
  BY <1>1, <1>11, PlacesKept, Zenon
<1>. QED BY <1>10, <1>12, Zenon DEF DenyInv

\* pop: the oldest record leaves the ring and is in the hands of the drain.
Shifted ==
  /\ ring' \in Seq(Reports) /\ Len(ring) \in Nat /\ Len(ring) > 0
  /\ Len(ring') = Len(ring) - 1
  /\ \A i \in 1..Len(ring') : i + 1 \in 1..Len(ring) /\ i + 1 # 1 /\ ring'[i] = ring[i + 1]
  /\ \A i, j \in 1..Len(ring') : i # j => i + 1 # j + 1

LEMMA RingShifts ==
  ASSUME ring \in Seq(Reports), ring # <<>>, ring' = Tail(ring)
  PROVE  Shifted /\ Head(ring) = ring[1] /\ 1 \in 1..Len(ring)
<1>1. Len(ring) \in Nat /\ Len(ring) > 0
  OBVIOUS
<1>2. ring' \in Seq(Reports) /\ Len(ring') = Len(ring) - 1
  BY <1>1
<1>3. \A i \in 1..Len(ring') : i + 1 \in 1..Len(ring) /\ i + 1 # 1
  BY <1>1, <1>2
<1>4. \A i \in 1..Len(ring') : ring'[i] = ring[i + 1]
  BY <1>1, <1>2
<1>5. \A i, j \in 1..Len(ring') : i # j => i + 1 # j + 1
  BY <1>1, <1>2
<1>6. Head(ring) = ring[1] /\ 1 \in 1..Len(ring)
  BY <1>1
<1>. QED BY <1>1, <1>2, <1>3, <1>4, <1>5, <1>6, Zenon DEF Shifted

LEMMA PopDenials ==
  ASSUME Counting, EInv, DenyInv, Pop
  PROVE  DenyInv'
<1>1. /\ UNCHANGED <<denied, dropped, drained, records, sink, prog, ruling>>
      /\ rec' = Head(ring).call /\ ring' = Tail(ring) /\ ring # <<>>
      /\ dpc \notin Emitting /\ dpc' \in Emitting
  BY Zenon DEF Pop, Passing, HeadReady, Emitting, route, run
<1>2. /\ ring \in Seq(Reports) /\ drained \subseteq Calls
      /\ \A i, j \in 1..Len(ring) : i # j => ring[i].call # ring[j].call
      /\ \A i \in 1..Len(ring) : Filed(ring[i].call) /\ ring[i].call \notin drained
      /\ \A c \in drained : Filed(c) /\ (sink = "up" => <<"denied", c>> \in records)
      /\ \A c \in Calls : prog[c] \in {"bump", "reserve", "drop", "submit"} => ruling[c] = "deny"
  BY Zenon DEF DenyInv, PlacesInv
<1>3. Shifted /\ rec' = ring[1].call /\ 1 \in 1..Len(ring)
  BY <1>1, <1>2, RingShifts, Zenon
<1>4. rec' \in Calls /\ rec' \notin drained /\ Filed(rec)'
  BY <1>1, <1>2, <1>3, RingCalls, Zenon DEF Filed
<1>5. \A i \in 1..Len(ring') : /\ ring'[i].call # rec' /\ ring'[i].call \notin drained
                               /\ Filed(ring[i].call)'
  <2>. SUFFICES ASSUME NEW i \in 1..Len(ring')
                PROVE  /\ ring'[i].call # rec' /\ ring'[i].call \notin drained
                       /\ Filed(ring[i].call)'
    OBVIOUS
  <2>1. i + 1 \in 1..Len(ring) /\ i + 1 # 1 /\ ring'[i] = ring[i + 1]
    BY <1>3, Zenon DEF Shifted
  <2>2. ring[i + 1].call # ring[1].call
    BY <1>2, <1>3, <2>1, Zenon
  <2>. QED BY <1>1, <1>2, <1>3, <2>1, <2>2, Zenon DEF Filed
<1>6. \A i, j \in 1..Len(ring') : i # j => ring'[i].call # ring'[j].call
  <2>. SUFFICES ASSUME NEW i \in 1..Len(ring'), NEW j \in 1..Len(ring'), i # j
                PROVE  ring'[i].call # ring'[j].call
    OBVIOUS
  <2>1. /\ i + 1 \in 1..Len(ring) /\ ring'[i] = ring[i + 1]
        /\ j + 1 \in 1..Len(ring) /\ ring'[j] = ring[j + 1] /\ i + 1 # j + 1
    BY <1>3, Zenon DEF Shifted
  <2>. QED BY <1>2, <2>1, Zenon
<1>7. ring' \in Seq(Reports) /\ \A c \in drained : Filed(c)'
  BY <1>1, <1>2, <1>3, Zenon DEF Shifted, Filed
<1>8. PlacesInv'
  BY <1>1, <1>2, <1>4, <1>5, <1>6, <1>7, Zenon DEF PlacesInv
<1>9. /\ IsFiniteSet(drained) /\ IsFiniteSet(Tails) /\ denied \in Nat /\ dropped \in Nat
      /\ denied = Cardinality(drained) + dropped + Len(ring) + Cardinality(Tails) + InHand
  BY Zenon DEF DenyInv, CountInv
<1>10. Tails' = Tails /\ InHand = 0 /\ InHand' = 1
  BY <1>1, Zenon DEF Tails, InHand
<1>11. Cardinality(drained) \in Nat /\ Cardinality(Tails) \in Nat
  BY <1>9, Zenon DEF Counting
<1>12. denied = Cardinality(drained) + dropped + Len(ring') + Cardinality(Tails) + InHand'
  BY <1>3, <1>9, <1>10, <1>11 DEF Shifted
<1>13. CountInv'
  BY <1>1, <1>9, <1>10, <1>12, Zenon DEF CountInv
<1>. QED BY <1>8, <1>13, Zenon DEF DenyInv

\* emit_deny: the denial is drained, and recorded unless the sink has failed.
LEMMA EmitDenials ==
  ASSUME Counting, EInv, DenyInv, Emit
  PROVE  DenyInv'
<1>1. /\ UNCHANGED <<ring, denied, dropped, sink, prog, ruling>>
      /\ drained' = drained \cup {rec} /\ dpc \in Emitting /\ dpc' \notin Emitting
      /\ records' = IF sink = "up" THEN records \cup {<<"denied", rec>>} ELSE records
  BY Zenon DEF Emit, Committed, Emitting, run, stats
<1>2. /\ ring \in Seq(Reports) /\ drained \subseteq Calls
      /\ \A i, j \in 1..Len(ring) : i # j => ring[i].call # ring[j].call
      /\ \A i \in 1..Len(ring) : Filed(ring[i].call) /\ ring[i].call \notin drained
      /\ rec \in Calls /\ rec \notin drained /\ Filed(rec)
      /\ \A i \in 1..Len(ring) : ring[i].call # rec
      /\ \A c \in drained : Filed(c) /\ (sink = "up" => <<"denied", c>> \in records)
      /\ \A c \in Calls : prog[c] \in {"bump", "reserve", "drop", "submit"} => ruling[c] = "deny"
  BY <1>1, Zenon DEF DenyInv, PlacesInv
<1>3. \A c \in drained' : Filed(c)' /\ (sink' = "up" => <<"denied", c>> \in records')
  BY <1>1, <1>2, Zenon DEF Filed
<1>4. drained' \subseteq Calls /\ \A i \in 1..Len(ring) : Filed(ring[i].call)' /\ ring[i].call \notin drained'
  BY <1>1, <1>2, Zenon DEF Filed
<1>5. PlacesInv'
  BY <1>1, <1>2, <1>3, <1>4, Zenon DEF PlacesInv
<1>6. /\ IsFiniteSet(drained) /\ IsFiniteSet(Tails) /\ denied \in Nat /\ dropped \in Nat
      /\ denied = Cardinality(drained) + dropped + Len(ring) + Cardinality(Tails) + InHand
  BY Zenon DEF DenyInv, CountInv
<1>7. Tails' = Tails /\ InHand = 1 /\ InHand' = 0
  BY <1>1, Zenon DEF Tails, InHand
<1>8. /\ Cardinality(drained) \in Nat /\ Cardinality(Tails) \in Nat
      /\ IsFiniteSet(drained') /\ Cardinality(drained') = Cardinality(drained) + 1
  BY <1>1, <1>2, <1>6, Zenon DEF Counting
<1>9. denied = Cardinality(drained') + dropped + Len(ring) + Cardinality(Tails) + InHand'
  BY <1>2, <1>6, <1>7, <1>8
<1>10. CountInv'
  BY <1>1, <1>6, <1>7, <1>8, <1>9, Zenon DEF CountInv
<1>. QED BY <1>5, <1>10, Zenon DEF DenyInv

\* Every step of the route keeps the account.
LEMMA AccountKeeps ==
  ASSUME Counting, EInv, DenyInv, EbpfNext
  PROVE  DenyInv'
  BY BesideDenials, EarlyDenials, BumpDenials, ReserveDenials, SubmitDenials, DropDenials,
     PopDenials, EmitDenials, Zenon DEF EbpfNext, Program, DrainLoop

--------------------------------------------------------------------------------
(* The launch: the route that was not taken is never started.              *)

UnotifyIdle ==
  /\ worker = [c \in Calls |-> "none"] /\ reply = [c \in Calls |-> "none"] /\ pc = "poll"

EbpfIdle ==
  /\ ruling = [c \in Calls |-> "none"] /\ prog \in [Calls -> {"idle", "never"}]
  /\ drained = {} /\ ring = <<>> /\ denied = 0 /\ dropped = 0 /\ dpc = "poll"

LaunchInv ==
  \/ backend = "unotify" /\ UInv /\ QuietInv /\ EbpfIdle
  \/ backend = "ebpf" /\ EInv /\ DenyInv /\ UnotifyIdle

LEMMA LaunchInit ==
  ASSUME Counting, Init
  PROVE  LaunchInv
<1>1. UInv /\ QuietInv /\ EInv /\ DenyInv /\ backend \in {"unotify", "ebpf"}
  BY UInitInv, QuietInitInv, EInitInv, DenyInitInv, Zenon DEF Init, Routes
<1>2. UnotifyIdle
  BY Zenon DEF Init, Routes, SupervisorFresh, UnotifyIdle
<1>3. EbpfIdle
  BY Zenon DEF Init, Routes, DrainFresh, EbpfInit, EbpfIdle
<1>. QED BY <1>1, <1>2, <1>3, Zenon DEF LaunchInv

\* A step that changes nothing is one of neither route.
LEMMA LaunchStutters ==
  ASSUME LaunchInv, UNCHANGED vars
  PROVE  LaunchInv'
<1>1. /\ UNCHANGED <<env, sink, dest, judged, records, backend>>
      /\ UNCHANGED <<call, reply, basis, pc, cur, back, entries, pending, worker, outcome, sent>>
      /\ UNCHANGED <<prog, seen, at, latch, ruling, seq, slots, ring, denied, dropped, dpc, rec,
                     base, want, slot, drained>>
  BY Zenon DEF vars, unotify, ebpf, kernel, loop, cache, pool, run, maps, stats, sync, dloop
<1>2. ASSUME UInv, QuietInv PROVE UInv' /\ QuietInv'
  <2>1. EnvInv' /\ \A c \in Calls : (Grounds(c) => Grounds(c)') /\ (Approved(c) => Approved(c)')
    BY <1>1, <1>2, QuietFrame, Zenon DEF verdict
  <2>2. UTyped' /\ Within(entries)'
    BY <1>1, <1>2, Zenon DEF UInv, UTyped, Within, env
  <2>3. UInv'
    BY <1>1, <1>2, <2>1, <2>2, Zenon DEF UInv
  <2>4. QuietInv'
    <3>1. /\ \A c \in Calls : worker[c] \in Running => c \in pending'
          /\ pc' \in {"established", "answer"} => worker[cur'] = "exited"
      BY <1>1, <1>2, Zenon DEF QuietInv
    <3>. QED BY <1>1, <1>2, <3>1, NobodyAnswered, Zenon
  <2>. QED BY <2>3, <2>4
<1>3. ASSUME EInv, DenyInv PROVE EInv' /\ DenyInv'
  <2>1. ETyped'
    BY <1>1, <1>3, Zenon DEF EInv, ETyped
  <2>2. SeqInv'
    BY <1>1, <1>3, StillBacked, Zenon DEF EInv, SeqInv
  <2>3. EnvInv' /\ Grows
    BY <1>1, <1>3, StillEnv, Zenon
  <2>4. \A c \in Calls : Scan(c)'
    BY <1>1, <1>3, <2>3, ScanSame, Zenon DEF SameAt
  <2>5. EInv'
    BY <2>1, <2>2, <2>3, <2>4, Zenon DEF EInv
  <2>6. Tails' = Tails /\ \A c \in Calls : Filed(c) => Filed(c)'
    BY <1>1, Zenon DEF Tails, Filed
  <2>7. \A c \in Calls : prog[c] \in {"bump", "reserve", "drop", "submit"} => ruling[c] = "deny"
    BY <1>3, Zenon DEF DenyInv, PlacesInv
  <2>8. DenyInv'
    BY <1>1, <1>3, <2>6, <2>7, NoDenial, Zenon
  <2>. QED BY <2>5, <2>8
<1>4. CASE backend = "unotify" /\ UInv /\ QuietInv /\ EbpfIdle
  BY <1>1, <1>2, <1>4, Zenon DEF LaunchInv, EbpfIdle
<1>5. CASE backend = "ebpf" /\ EInv /\ DenyInv /\ UnotifyIdle
  BY <1>1, <1>3, <1>5, Zenon DEF LaunchInv, UnotifyIdle
<1>. QED BY <1>4, <1>5, Zenon DEF LaunchInv

LEMMA LaunchStep ==
  ASSUME Counting, LaunchInv, [Next]_vars
  PROVE  LaunchInv'
<1>1. CASE OnUnotify(UnotifyNext)
  <2>1. UInv /\ QuietInv /\ EbpfIdle /\ UnotifyNext /\ backend = "unotify"
    BY <1>1, Zenon DEF OnUnotify, LaunchInv
  <2>2. UNCHANGED <<backend, ruling, prog, drained, ring, denied, dropped, dpc>>
    BY <1>1, Zenon DEF OnUnotify, ebpf, run, stats, dloop
  <2>3. UInv' /\ QuietInv'
    BY <2>1, UnotifyKeeps, Zenon
  <2>. QED BY <2>1, <2>2, <2>3, Zenon DEF LaunchInv, EbpfIdle
<1>2. CASE OnEbpf(EbpfNext)
  <2>1. EInv /\ DenyInv /\ UnotifyIdle /\ EbpfNext /\ backend = "ebpf"
    BY <1>2, Zenon DEF OnEbpf, LaunchInv
  <2>2. UNCHANGED <<backend, worker, reply, pc>>
    BY <1>2, Zenon DEF OnEbpf, unotify, kernel, loop, pool
  <2>3. EInv' /\ DenyInv'
    BY <2>1, EbpfKeeps, AccountKeeps, Zenon
  <2>. QED BY <2>1, <2>2, <2>3, Zenon DEF LaunchInv, UnotifyIdle
<1>3. CASE UNCHANGED vars
  BY <1>3, LaunchStutters, Zenon
<1>. QED BY <1>1, <1>2, <1>3, Zenon DEF Next

LEMMA LaunchSafe ==
  ASSUME Counting, LaunchInv
  PROVE  ConnectsAuthorised /\ SuccessRecorded /\ EndIsQuiet /\ GrantAllowSound /\ DenyAccounted
<1>1. CASE backend = "unotify" /\ UInv /\ QuietInv /\ EbpfIdle
  <2>1. ConnectsAuthorised /\ SuccessRecorded /\ EndIsQuiet
    BY <1>1, InvAuthorises, InvQuiet, Zenon
  <2>2. GrantAllowSound
    BY <1>1, Zenon DEF EbpfIdle, GrantAllowSound
  <2>3. {c \in Calls : prog[c] \in {"reserve", "drop"}} = {} /\ drained = {}
        /\ dropped = 0 /\ denied = 0 /\ ring = <<>> /\ dpc = "poll"
    BY <1>1, Zenon DEF EbpfIdle
  <2>4. Cardinality({}) = 0
    BY Zenon DEF Counting
  <2>5. Len(ring) = 0
    BY <2>3
  <2>6. 0 + 0 + 0 + 0 + 0 = 0
    OBVIOUS
  <2>7. DenyAccounted
    BY <2>3, <2>4, <2>5, <2>6, Zenon DEF DenyAccounted
  <2>. QED BY <2>1, <2>2, <2>7
<1>2. CASE backend = "ebpf" /\ EInv /\ DenyInv /\ UnotifyIdle
  <2>1. GrantAllowSound /\ DenyAccounted
    BY <1>2, InvSound, InvAccounts, Zenon
  <2>2. ConnectsAuthorised /\ SuccessRecorded /\ EndIsQuiet
    BY <1>2, Zenon DEF UnotifyIdle, ConnectsAuthorised, SuccessRecorded, EndIsQuiet
  <2>. QED BY <2>1, <2>2
<1>. QED BY <1>1, <1>2, Zenon DEF LaunchInv

--------------------------------------------------------------------------------
(* The theorems.                                                           *)

INSTANCE FiniteSetTheorems

LEMMA CountingHolds == Counting
<1>1. IsFiniteSet({}) /\ Cardinality({}) = 0
  BY FS_EmptySet, Zenon
<1>2. \A S : IsFiniteSet(S) => Cardinality(S) \in Nat
  BY FS_CardinalityType, Zenon
<1>3. \A S, c : IsFiniteSet(S) /\ c \notin S =>
        IsFiniteSet(S \cup {c}) /\ Cardinality(S \cup {c}) = Cardinality(S) + 1
  BY FS_AddElement, Zenon
<1>4. \A S, c : IsFiniteSet(S) /\ c \in S =>
        IsFiniteSet(S \ {c}) /\ Cardinality(S \ {c}) = Cardinality(S) - 1
  BY FS_RemoveElement, Zenon
<1>. QED BY <1>1, <1>2, <1>3, <1>4, Zenon DEF Counting

LEMMA LaunchCorrect == Spec => []LaunchInv
<1>1. Init => LaunchInv
  BY CountingHolds, LaunchInit, Zenon
<1>2. LaunchInv /\ [Next]_vars => LaunchInv'
  BY CountingHolds, LaunchStep, Zenon
<1>. QED BY <1>1, <1>2, PTL DEF Spec

\* queue_emulation of supervisor.rs: whatever the gate, the sink, the task and
\* the workers do in between, a worker connects only a call with a durable
\* authorize record, and when the basis was a grant, one the gate had committed
\* for a recorded name and that had not expired at the verdict.
THEOREM WorkersAuthorised == Spec => []ConnectsAuthorised
<1>1. LaunchInv => ConnectsAuthorised
  BY CountingHolds, LaunchSafe, Zenon
<1>. QED BY <1>1, LaunchCorrect, PTL

\* emulated_result of supervisor.rs: the task learns of a success only for a
\* connect that happened and whose record is durable, however the worker, the
\* loop and a failing sink interleave.
THEOREM SuccessDurable == Spec => []SuccessRecorded
<1>1. LaunchInv => SuccessRecorded
  BY CountingHolds, LaunchSafe, Zenon
<1>. QED BY <1>1, LaunchCorrect, PTL

\* end of supervisor.rs: when the loop has returned every worker has been
\* joined and no call is parked, for any number of calls and workers.
THEOREM SupervisorEndsQuiet == Spec => []EndIsQuiet
<1>1. LaunchInv => EndIsQuiet
  BY CountingHolds, LaunchSafe, Zenon
<1>. QED BY <1>1, LaunchCorrect, PTL

\* The seqlock of prog.rs and write_grant_maps: a flow that passes on a grant
\* had one the gate committed, live on the clock of the program, whatever slots
\* are rewritten between its reads and whichever map update fails.
THEOREM GrantsNeverTorn == Spec => []GrantAllowSound
<1>1. LaunchInv => GrantAllowSound
  BY CountingHolds, LaunchSafe, Zenon
<1>. QED BY <1>1, LaunchCorrect, PTL

\* The stats of ebpf/supervisor.rs: every denial of the kernel is audited,
\* dropped and counted, in the ring or in the tail of its program, once.
THEOREM DenialsAccounted == Spec => []DenyAccounted
<1>1. LaunchInv => DenyAccounted
  BY CountingHolds, LaunchSafe, Zenon
<1>. QED BY <1>1, LaunchCorrect, PTL
================================================================================
