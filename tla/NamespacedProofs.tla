---------------------------- MODULE NamespacedProofs ----------------------------
(***************************************************************************)
(* Every connection the proxy splices stands on its own mapping, on a      *)
(* durable record and on grounds that held, for every number of flows,     *)
(* ports, mappings, grants and ticks.                                      *)
(***************************************************************************)
EXTENDS Namespaced, TLAPS

-----------------------------------------------------------------------------
(* What this route may rely on while the DNS gate runs beside it.  It reads *)
(* the table in memory, so only the table and its history matter.          *)

Named(k) == \E q \in recorded : Asks[q] = k.name

EnvTyped == /\ now \in Nat /\ grants \in [Keys -> Nat] /\ high \in [Keys -> Nat]
            /\ sink \in {"up", "failed"}

EnvInv ==
  /\ EnvTyped
  /\ \A k \in Keys : grants[k] <= high[k] /\ (high[k] > 0 => Named(k))

\* The history of expiries and of recorded queries only grows.
Grows ==
  /\ recorded \subseteq recorded'
  /\ \A k \in Keys : high[k] <= high'[k]

LEMMA EnvInitInv == EnvInit => EnvInv
<1>. SUFFICES ASSUME EnvInit PROVE EnvInv
  OBVIOUS
<1>1. now = 0 /\ grants = NoGrants /\ high = NoGrants /\ sink = "up"
  BY Zenon DEF EnvInit, Ledger!Init, NoGrants, Ledger!NoGrants, Keys, Ledger!Keys
<1>2. EnvTyped
  BY <1>1 DEF EnvTyped, NoGrants
<1>3. \A k \in Keys : grants[k] = 0 /\ high[k] = 0
  BY <1>1 DEF NoGrants
<1>. QED BY <1>2, <1>3 DEF EnvInv

\* What one step of the ledger does to the table: a grant appears or grows
\* only for a recorded query.
LEMMA LedgerMoves ==
  ASSUME EnvInv, Ledger!Next
  PROVE  /\ now' \in Nat /\ grants' \in [Keys -> Nat] /\ recorded \subseteq recorded'
         /\ \A k \in Keys : grants'[k] > grants[k] => Named(k)
<1>1. Ledger!Keys = Keys /\ Ledger!Swept(grants, now) = Swept(grants, now)
  BY Zenon DEF Keys, Ledger!Keys, Swept, Ledger!Swept
<1>2. /\ now \in Nat /\ grants \in [Keys -> Nat]
      /\ \A k \in Keys : grants[k] \in Nat /\ ~ (grants[k] > grants[k])
  BY DEF EnvInv, EnvTyped
<1>3. CASE Ledger!Tick
  <2>1. now' = now + 1 /\ UNCHANGED <<grants, recorded>>
    BY <1>3 DEF Ledger!Tick
  <2>. QED BY <1>2, <2>1
<1>4. CASE Ledger!Sweep
  <2>1. grants' = Swept(grants, now) /\ UNCHANGED <<now, recorded>>
    BY <1>1, <1>4 DEF Ledger!Sweep
  <2>2. \A k \in Keys : grants'[k] \in {grants[k], 0}
    BY <2>1 DEF Swept
  <2>3. grants' \in [Keys -> Nat] /\ \A k \in Keys : ~ (grants'[k] > grants[k])
    BY <1>2, <2>1, <2>2 DEF Swept
  <2>. QED BY <1>2, <2>1, <2>3
<1>5. CASE Ledger!Publish
  <2>1. PICK q \in recorded :
          /\ grants' \in [Keys -> 0..(now + MaxTTL)]
          /\ \A k \in Keys : grants'[k] # grants[k] => k.name = Asks[q]
          /\ UNCHANGED <<now, recorded>>
    BY <1>1, <1>5 DEF Ledger!Publish
  <2>2. grants' \in [Keys -> Nat]
    BY <1>2, <2>1, LimitsTyped
  <2>3. \A k \in Keys : grants'[k] > grants[k] => Named(k)
    BY <1>2, <2>1 DEF Named
  <2>. QED BY <1>2, <2>1, <2>2, <2>3
<1>6. CASE Ledger!Record \/ Ledger!Snapshot \/ Ledger!Replace \/ Ledger!Discard
  <2>1. now' = now /\ grants' = grants /\ recorded \subseteq recorded'
    BY <1>6 DEF Ledger!Record, Ledger!Snapshot, Ledger!Replace, Ledger!Discard
  <2>. QED BY <1>2, <2>1
<1>. QED BY <1>3, <1>4, <1>5, <1>6 DEF Ledger!Next

\* A step of the gate, or of the clock, keeps the invariant, and takes nothing
\* out of the history.
LEMMA GateKeeps ==
  ASSUME EnvInv, Gate
  PROVE  EnvInv' /\ Grows
<1>1. /\ grants \in [Keys -> Nat] /\ high \in [Keys -> Nat] /\ sink \in {"up", "failed"}
      /\ \A k \in Keys : grants[k] <= high[k] /\ (high[k] > 0 => Named(k))
  BY DEF EnvInv, EnvTyped
<1>2. /\ sink' = sink /\ Ledger!Next
      /\ high' = [k \in Keys |-> IF grants'[k] > high[k] THEN grants'[k] ELSE high[k]]
  BY DEF Gate
<1>3. /\ now' \in Nat /\ grants' \in [Keys -> Nat] /\ recorded \subseteq recorded'
      /\ \A k \in Keys : grants'[k] > grants[k] => Named(k)
  BY <1>2, LedgerMoves
<1>4. high' \in [Keys -> Nat]
  BY <1>1, <1>2, <1>3
<1>5. \A k \in Keys : high[k] <= high'[k] /\ grants'[k] <= high'[k]
  BY <1>1, <1>2, <1>3
<1>6. ASSUME NEW k \in Keys, high'[k] > 0 PROVE Named(k)'
  <2>1. Named(k)
    BY <1>1, <1>2, <1>3, <1>6
  <2>. QED BY <1>3, <2>1 DEF Named
<1>7. EnvTyped'
  BY <1>1, <1>2, <1>3, <1>4 DEF EnvTyped
<1>. QED BY <1>3, <1>5, <1>6, <1>7 DEF EnvInv, Grows

\* What the gate knew of a call it goes on knowing.
LEMMA LiveGrantGrows ==
  ASSUME EnvInv, EnvInv', Grows, NEW c \in Calls, judged[c] \in Int,
         dest'[c] = dest[c], judged'[c] = judged[c]
  PROVE  LiveGrant(c) => LiveGrant(c)'
<1>. SUFFICES ASSUME LiveGrant(c) PROVE LiveGrant(c)'
  OBVIOUS
<1>1. PICK k \in Keys : /\ k.addr = dest[c] /\ judged[c] < high[k]
                        /\ \E q \in recorded : Asks[q] = k.name
  BY DEF LiveGrant
<1>2. high[k] \in Nat /\ high'[k] \in Nat /\ high[k] <= high'[k]
  BY DEF Grows, EnvInv, EnvTyped
<1>3. judged'[c] < high'[k]
  BY <1>1, <1>2
<1>4. \E q \in recorded' : Asks[q] = k.name
  BY <1>1 DEF Grows
<1>5. dest'[c] \notin DeniedAddrs \cup Protected
  BY DEF LiveGrant
<1>. QED BY <1>1, <1>3, <1>4, <1>5 DEF LiveGrant

\* A step of the route leaves the gate and its history alone.
LEMMA RouteFrame ==
  ASSUME EnvInv, UNCHANGED env, sink' \in {"up", "failed"}
  PROVE  EnvInv' /\ Grows
<1>1. high \in [Keys -> Nat]
  BY DEF EnvInv, EnvTyped
<1>2. Grows
  BY <1>1 DEF Grows, env
<1>3. EnvInv'
  BY DEF EnvInv, EnvTyped, Named, env
<1>. QED BY <1>2, <1>3

-----------------------------------------------------------------------------
(* The NAT table, the stack and its connections.                           *)

\* A connection, with fields of any value but the flow.
Conn(r) ==
  /\ r = [flow |-> r.flow, pend |-> r.pend, eof |-> r.eof, fin |-> r.fin]
  /\ r.flow \in Calls \cup {NoCall}
  /\ r.flow = NoCall => r = NoConn

LEMMA NoConnFields == Conn(NoConn) /\ NoConn.flow = NoCall
  BY Zenon DEF Conn, NoConn

LEMMA PendKept ==
  ASSUME NEW r, Conn(r), r # NoConn, NEW x
  PROVE  LET s == [r EXCEPT !.pend = x] IN Conn(s) /\ s.flow = r.flow /\ s # NoConn
  BY DEF Conn, NoConn

LEMMA EofKept ==
  ASSUME NEW r, Conn(r), r # NoConn, NEW x
  PROVE  LET s == [r EXCEPT !.eof = x] IN Conn(s) /\ s.flow = r.flow /\ s # NoConn
  BY DEF Conn, NoConn

LEMMA FinKept ==
  ASSUME NEW r, Conn(r), r # NoConn, NEW x
  PROVE  LET s == [r EXCEPT !.fin = x] IN Conn(s) /\ s.flow = r.flow /\ s # NoConn
  BY DEF Conn, NoConn

LEMMA FlowSet ==
  ASSUME NEW c \in Calls
  PROVE  LET s == [NoConn EXCEPT !.flow = c] IN Conn(s) /\ s.flow = c /\ s # NoConn
  BY RouteTyped DEF Conn, NoConn

\* The two directions of the table are inverse, and ports are given out in
\* order.
NatInv ==
  /\ by_flow \in [Calls -> 0..Ports]
  /\ by_alloc \in [P -> Calls \cup {NoCall}]
  /\ next_alloc \in Nat \ {0}
  /\ associated \subseteq P
  /\ \A c \in Calls, p \in P : by_flow[c] = p <=> by_alloc[p] = c
  /\ \A p \in P : by_alloc[p] # NoCall => p < next_alloc

\* The verdict on flow c, whose mapping is p and is not the reaper's.
Stands(p, c) ==
  /\ by_alloc[p] = c /\ p \in associated
  /\ flow_basis[c] \in {"rule", "open", "grant"}
  /\ flow_basis[c] = "grant" => LiveGrant(c)

FlowsTyped ==
  /\ tcp \in [Calls -> {"idle", "never", "syn", "open", "reset", "closed"}]
  /\ dest \in [Calls -> Dests \cup {NoAddr}]
  /\ judged \in [Calls -> Int]
  /\ flow_basis \in [Calls -> {"none", "rule", "open", "grant"}]
  /\ \A c \in Calls : tcp[c] = "idle" => by_flow[c] = 0

ConnsTyped == conns = [p \in P |-> conns[p]] /\ \A p \in P : Conn(conns[p])

\* What the loop has in hand: ports without a connection while it accepts,
\* ports with one while it pumps.
LoopInv ==
  /\ todo \subseteq P
  /\ pc \in {"accept", "commit"} => \A p \in todo : conns[p] = NoConn
  /\ pc = "commit" => cur \in P \ todo /\ conns[cur] = NoConn /\ by_alloc[cur] \in Calls
  /\ pc \in {"pump", "fin", "move", "wake"} => \A p \in todo : conns[p] # NoConn
  /\ pc \in {"fin", "move"} => cur \in P /\ conns[cur] # NoConn
  /\ pc = "drop" => todo = {}

NInv ==
  /\ EnvInv /\ NatInv /\ FlowsTyped /\ ConnsTyped /\ LoopInv
  /\ \A p \in P, c \in Calls :
       /\ conns[p].flow = c => Stands(p, c) /\ <<"authorize", c>> \in records
       /\ pc = "commit" /\ cur = p /\ by_alloc[p] = c => Stands(p, c)

LEMMA InvSplices == NInv => SplicesAuthorised
<1>. SUFFICES ASSUME NInv, NEW p \in P, conns[p] # NoConn, NEW c, c = conns[p].flow
              PROVE  /\ by_alloc[p] = c /\ by_flow[c] = p /\ <<"authorize", c>> \in records
                     /\ flow_basis[c] \in {"rule", "open", "grant"}
                     /\ flow_basis[c] = "grant" => LiveGrant(c)
  BY DEF SplicesAuthorised
<1>1. c \in Calls
  BY Zenon DEF NInv, ConnsTyped, Conn
<1>2. Stands(p, c) /\ <<"authorize", c>> \in records
  BY <1>1, Zenon DEF NInv
<1>. QED BY <1>1, <1>2 DEF NInv, NatInv, Stands

LEMMA NInitInv == Init => NInv
<1>. SUFFICES ASSUME Init PROVE NInv
  OBVIOUS
<1>1. EnvInv
  BY EnvInitInv, Zenon DEF Init
<1>2. NatInv
  BY RouteTyped, PortsTyped DEF Init, Fresh, NatInv, P
<1>3. FlowsTyped
  BY DEF Init, Fresh, RouteInit, FlowsTyped
<1>4. ConnsTyped /\ \A p \in P : conns[p].flow = NoCall
  BY NoConnFields, Zenon DEF Init, Fresh, ConnsTyped
<1>5. LoopInv
  BY Zenon DEF Init, Fresh, LoopInv
<1>. QED BY RouteTyped, <1>1, <1>2, <1>3, <1>4, <1>5, Zenon DEF NInv, Init, Fresh

\* remove, of ports: what is left of the table stays linked.
LEMMA ForgetKeeps ==
  ASSUME NatInv, NEW S \in SUBSET P, Forget(S), UNCHANGED next_alloc
  PROVE  /\ NatInv'
         /\ \A p \in P \ S : /\ by_alloc'[p] = by_alloc[p]
                             /\ p \in associated => p \in associated'
         /\ \A c \in Calls : by_flow[c] = 0 => by_flow'[c] = 0
  BY RouteTyped, PortsTyped DEF NatInv, Forget, P

\* A verdict stands while its flow, its mapping and its history do.
LEMMA StandsKept ==
  ASSUME EnvInv, EnvInv', Grows, FlowsTyped, NEW p \in P, NEW c \in Calls, Stands(p, c),
         by_alloc'[p] = by_alloc[p], p \in associated',
         dest'[c] = dest[c], judged'[c] = judged[c], flow_basis'[c] = flow_basis[c]
  PROVE  Stands(p, c)'
<1>1. LiveGrant(c) => LiveGrant(c)'
  BY LiveGrantGrows, Zenon DEF FlowsTyped
<1>. QED BY <1>1, Zenon DEF Stands

SameFlow(p, c) ==
  /\ by_alloc'[p] = by_alloc[p] /\ (p \in associated => p \in associated')
  /\ dest'[c] = dest[c] /\ judged'[c] = judged[c] /\ flow_basis'[c] = flow_basis[c]

\* A step that splices nothing and judges nothing.
LEMMA StepKeeps ==
  ASSUME NInv, EnvInv', Grows, NatInv', FlowsTyped', ConnsTyped', LoopInv',
         records \subseteq records',
         \A p \in P, c \in Calls : conns'[p].flow = c => conns[p].flow = c /\ SameFlow(p, c),
         pc' = "commit" => pc = "commit" /\ cur' = cur,
         pc' = "commit" => \A c \in Calls : by_alloc[cur] = c => SameFlow(cur, c)
  PROVE  NInv'
<1>1. ASSUME NEW p \in P, NEW c \in Calls, conns'[p].flow = c
      PROVE  Stands(p, c)' /\ <<"authorize", c>> \in records'
  <2>1. Stands(p, c) /\ <<"authorize", c>> \in records /\ SameFlow(p, c)
    BY <1>1, Zenon DEF NInv
  <2>2. EnvInv /\ FlowsTyped
    BY Zenon DEF NInv
  <2>3. p \in associated'
    BY <2>1, Zenon DEF Stands, SameFlow
  <2>. QED BY <2>1, <2>2, <2>3, StandsKept, Zenon DEF SameFlow
<1>2. ASSUME NEW p \in P, NEW c \in Calls, pc' = "commit", cur' = p, by_alloc'[p] = c
      PROVE  Stands(p, c)'
  <2>1. pc = "commit" /\ cur = p /\ \A d \in Calls : by_alloc[p] = d => SameFlow(p, d)
    BY <1>2, Zenon
  <2>2. by_alloc[p] \in Calls
    BY <2>1, Zenon DEF NInv, LoopInv
  <2>3. by_alloc[p] = c /\ SameFlow(p, c)
    BY <1>2, <2>1, <2>2, Zenon DEF SameFlow
  <2>4. Stands(p, c) /\ EnvInv /\ FlowsTyped
    BY <2>1, <2>3, Zenon DEF NInv
  <2>5. p \in associated'
    BY <2>3, <2>4, Zenon DEF Stands, SameFlow
  <2>. QED BY <2>3, <2>4, <2>5, StandsKept, Zenon DEF SameFlow
<1>. QED BY <1>1, <1>2, Zenon DEF NInv

\* Steps that leave the gate alone.
LEMMA Steady ==
  ASSUME NInv, UNCHANGED <<env, sink>>
  PROVE  EnvInv' /\ Grows
<1>1. EnvInv /\ sink' \in {"up", "failed"}
  BY Zenon DEF NInv, EnvInv, EnvTyped
<1>. QED BY <1>1, RouteFrame, Zenon

\* What a step does not touch it keeps.
LEMMA NatKept ==
  ASSUME NInv, UNCHANGED <<by_flow, by_alloc, next_alloc, associated>>
  PROVE  NatInv'
  BY Zenon DEF NInv, NatInv

LEMMA FlowsKept ==
  ASSUME NInv, UNCHANGED <<tcp, dest, judged, flow_basis, by_flow>>
  PROVE  FlowsTyped'
  BY Zenon DEF NInv, FlowsTyped

LEMMA ConnsKept ==
  ASSUME NInv, UNCHANGED conns
  PROVE  ConnsTyped'
  BY Zenon DEF NInv, ConnsTyped

LEMMA LoopKept ==
  ASSUME NInv, UNCHANGED <<conns, pc, cur, todo, by_alloc>>
  PROVE  LoopInv'
  BY Zenon DEF NInv, LoopInv

LEMMA OutsideNKeeps == NInv /\ Outside => NInv'
<1>. SUFFICES ASSUME NInv, Outside PROVE NInv'
  OBVIOUS
<1>1. UNCHANGED <<tcp, by_flow, by_alloc, next_alloc, associated, conns, pc, cur, todo, flow_basis,
                  dest, judged, records>>
  BY Zenon DEF Outside, Gate, SinkFails, nvars, workload, nat, loop
<1>2. EnvInv' /\ Grows
  <2>1. CASE Gate
    BY <2>1, GateKeeps, Zenon DEF NInv
  <2>2. CASE SinkFails
    BY <2>2, RouteFrame, Zenon DEF SinkFails, NInv
  <2>. QED BY <2>1, <2>2, Zenon DEF Outside
<1>3. NatInv' /\ FlowsTyped' /\ ConnsTyped' /\ LoopInv'
  BY <1>1, NatKept, FlowsKept, ConnsKept, LoopKept, Zenon
<1>4. \A p \in P, c \in Calls : SameFlow(p, c)
  BY <1>1, Zenon DEF SameFlow
<1>5. pc = "commit" => cur \in P
  BY Zenon DEF NInv, LoopInv
<1>. QED BY <1>1, <1>2, <1>3, <1>4, <1>5, StepKeeps, Zenon

\* A flow that was never translated has no verdict to lose.
LEMMA DialKeeps == NInv /\ Dial => NInv'
<1>. SUFFICES ASSUME NInv, Dial PROVE NInv'
  OBVIOUS
<1>1. /\ UNCHANGED <<env, sink, by_flow, by_alloc, next_alloc, associated, conns, pc, cur, todo>>
      /\ UNCHANGED <<flow_basis, judged, records>>
  BY Zenon DEF Dial, nat, loop
<1>2. EnvInv' /\ Grows
  BY <1>1, Steady, Zenon
<1>3. NatInv' /\ ConnsTyped' /\ LoopInv'
  BY <1>1, NatKept, ConnsKept, LoopKept, Zenon
<1>4. FlowsTyped'
  BY <1>1 DEF Dial, NInv, FlowsTyped
<1>5. \A c \in Calls : by_flow[c] # 0 => dest'[c] = dest[c]
  BY ZenonT(30) DEF Dial, NInv, FlowsTyped
<1>6. \A p \in P, c \in Calls : by_alloc[p] = c => SameFlow(p, c)
  <2>1. \A p \in P, c \in Calls : by_alloc[p] = c => by_flow[c] # 0
    BY DEF NInv, NatInv, P
  <2>. QED BY <1>1, <1>5, <2>1, Zenon DEF SameFlow
<1>7. \A p \in P, c \in Calls : conns[p].flow = c => by_alloc[p] = c
  BY Zenon DEF NInv, Stands
<1>8. pc = "commit" => cur \in P
  BY Zenon DEF NInv, LoopInv
<1>. QED BY <1>1, <1>2, <1>3, <1>4, <1>6, <1>7, <1>8, StepKeeps, Zenon

LEMMA StaleUnassociated == ASSUME NInv PROVE Stale \in SUBSET P /\ Stale \cap associated = {}
  BY Zenon DEF Stale, Mapped

\* Steps that leave the connections alone keep the table of the spliced ones.
LEMMA MappedStep ==
  ASSUME NInv, UNCHANGED <<env, sink, dest, judged, flow_basis, conns>>,
         records \subseteq records', NatInv', FlowsTyped', LoopInv', pc' # "commit",
         \A p \in associated : by_alloc[p] # NoCall =>
                                 by_alloc'[p] = by_alloc[p] /\ p \in associated'
  PROVE  NInv'
<1>1. EnvInv' /\ Grows /\ ConnsTyped'
  BY Steady, ConnsKept, Zenon
<1>2. ASSUME NEW p \in P, NEW c \in Calls, conns[p].flow = c PROVE SameFlow(p, c)
  <2>1. Stands(p, c)
    BY <1>2, Zenon DEF NInv
  <2>. QED BY RouteTyped, <2>1, Zenon DEF Stands, SameFlow
<1>. QED BY <1>1, <1>2, StepKeeps, Zenon

\* A SYN translates a flow under a port of its own, or reaps what no
\* connection uses.
LEMMA SynInKeeps == NInv /\ SynIn => NInv'
<1>. SUFFICES ASSUME NInv, SynIn PROVE NInv'
  OBVIOUS
<1>1. /\ UNCHANGED <<env, sink, dest, judged, flow_basis, conns, records, tcp, pc, cur, todo>>
      /\ pc = "top"
  BY Zenon DEF SynIn, rest, workload, loop
<1>2. LoopInv'
  BY <1>1, Zenon DEF NInv, LoopInv
<1>. DEFINE reaped == IF Cardinality(Mapped) >= MaxMappings THEN Stale ELSE {}
<1>3. PICK c \in Calls :
        /\ tcp[c] = "syn"
        /\ \/ UNCHANGED nat
           \/ Forget(reaped) /\ UNCHANGED next_alloc
           \/ /\ by_flow[c] = 0 /\ next_alloc <= Ports
              /\ by_flow' = [d \in Calls |-> IF d = c THEN next_alloc
                                             ELSE IF by_flow[d] \in reaped THEN 0 ELSE by_flow[d]]
              /\ by_alloc' = [p \in P |-> IF p = next_alloc THEN c
                                          ELSE IF p \in reaped THEN NoCall ELSE by_alloc[p]]
              /\ next_alloc' = next_alloc + 1 /\ UNCHANGED associated
  BY Zenon DEF SynIn
<1>4. reaped \in SUBSET P /\ reaped \cap associated = {}
  BY StaleUnassociated, Zenon
<1>. HIDE DEF reaped
<1>5. CASE UNCHANGED nat
  <2>1. UNCHANGED <<by_flow, by_alloc, next_alloc, associated>>
    BY <1>5, Zenon DEF nat
  <2>. QED BY <1>1, <1>2, <2>1, NatKept, FlowsKept, MappedStep, Zenon
<1>6. CASE Forget(reaped) /\ UNCHANGED next_alloc
  <2>1. /\ NatInv' /\ \A c1 \in Calls : by_flow[c1] = 0 => by_flow'[c1] = 0
        /\ \A p \in P \ reaped : by_alloc'[p] = by_alloc[p] /\ (p \in associated => p \in associated')
    BY <1>4, <1>6, ForgetKeeps, Zenon DEF NInv
  <2>2. FlowsTyped'
    BY <1>1, <2>1, Zenon DEF NInv, FlowsTyped
  <2>3. associated \subseteq P \ reaped
    BY <1>4, Zenon DEF NInv, NatInv
  <2>. QED BY <1>1, <1>2, <2>1, <2>2, <2>3, MappedStep, ZenonT(30)
<1>7. CASE /\ by_flow[c] = 0 /\ next_alloc <= Ports
           /\ by_flow' = [d \in Calls |-> IF d = c THEN next_alloc
                                          ELSE IF by_flow[d] \in reaped THEN 0 ELSE by_flow[d]]
           /\ by_alloc' = [p \in P |-> IF p = next_alloc THEN c
                                       ELSE IF p \in reaped THEN NoCall ELSE by_alloc[p]]
           /\ next_alloc' = next_alloc + 1 /\ UNCHANGED associated
  <2>1. NatInv
    BY Zenon DEF NInv
  <2>2. next_alloc \in P /\ by_alloc[next_alloc] = NoCall /\ \A d \in Calls : by_flow[d] # next_alloc
    BY RouteTyped, PortsTyped, <1>7, <2>1 DEF NatInv, P
  <2>3. \A d \in Calls, p \in P : by_flow'[d] = p <=> by_alloc'[p] = d
    BY <1>4, <1>7, <2>1, <2>2 DEF NatInv, P
  <2>4. NatInv'
    BY <1>7, <2>1, <2>2, <2>3, SMTT(30) DEF NatInv, P
  <2>5. FlowsTyped'
    BY <1>1, <1>3, <1>7, Zenon DEF NInv, FlowsTyped
  <2>6. \A p \in associated : by_alloc[p] # NoCall => by_alloc'[p] = by_alloc[p] /\ p \in associated'
    BY <1>4, <1>7, <2>1, <2>2, ZenonT(30) DEF NatInv
  <2>. QED BY <1>1, <1>2, <2>4, <2>5, <2>6, MappedStep, Zenon
<1>. QED BY <1>3, <1>5, <1>6, <1>7, Zenon

\* No step of the proxy makes a flow idle again.
LEMMA TcpMoves ==
  ASSUME NInv, UNCHANGED <<dest, judged, flow_basis>>,
         tcp' \in [Calls -> {"idle", "never", "syn", "open", "reset", "closed"}],
         \A c \in Calls : tcp'[c] = "idle" => tcp[c] = "idle",
         \A c \in Calls : by_flow[c] = 0 => by_flow'[c] = 0
  PROVE  FlowsTyped'
  BY Zenon DEF NInv, FlowsTyped

LEMMA SegmentKeeps == NInv /\ Segment => NInv'
<1>. SUFFICES ASSUME NInv, Segment PROVE NInv'
  OBVIOUS
<1>1. /\ UNCHANGED <<env, sink, dest, judged, flow_basis, conns, records, pc, cur, todo>>
      /\ UNCHANGED <<by_flow, by_alloc, next_alloc, associated>> /\ pc = "top"
  BY Zenon DEF Segment, rest, nat, loop
<1>2. \E c \in Calls \cup {NoCall} : tcp' \in {tcp, [tcp EXCEPT ![c] = "closed"]}
  <2>1. \A p \in Mapped : by_alloc[p] \in Calls \cup {NoCall}
    BY DEF Mapped, NInv, NatInv
  <2>. QED BY <2>1, Zenon DEF Segment
<1>3. FlowsTyped'
  <2>1. /\ tcp' \in [Calls -> {"idle", "never", "syn", "open", "reset", "closed"}]
        /\ \A c \in Calls : tcp'[c] = "idle" => tcp[c] = "idle"
    BY <1>2, Zenon DEF NInv, FlowsTyped
  <2>. QED BY <1>1, <2>1, TcpMoves, ZenonT(30)
<1>4. NatInv' /\ LoopInv'
  BY <1>1, NatKept, LoopKept, ZenonT(30)
<1>. QED BY <1>1, <1>3, <1>4, MappedStep, Zenon

\* A step that changes one connection without a new flow, or ends it with its
\* mapping.
LEMMA ConnStep ==
  ASSUME NInv, UNCHANGED <<env, sink, dest, judged, flow_basis>>, records \subseteq records',
         NatInv', FlowsTyped', LoopInv', pc' # "commit", NEW p \in P, NEW r, Conn(r),
         conns' = [conns EXCEPT ![p] = r],
         r = NoConn \/ r.flow = conns[p].flow,
         \A q \in P : q # p \/ r # NoConn =>
           by_alloc'[q] = by_alloc[q] /\ (q \in associated => q \in associated')
  PROVE  NInv'
<1>1. ConnsTyped /\ EnvInv' /\ Grows
  BY Steady, Zenon DEF NInv
<1>2. conns'[p] = r /\ \A q \in P \ {p} : conns'[q] = conns[q]
  BY <1>1, Zenon DEF ConnsTyped
<1>3. ConnsTyped'
  <2>1. conns' = [q \in P |-> conns'[q]]
    BY <1>1, Zenon DEF ConnsTyped
  <2>2. \A q \in P : Conn(conns'[q])
    BY <1>1, <1>2, Zenon DEF ConnsTyped
  <2>. QED BY <2>1, <2>2, Zenon DEF ConnsTyped
<1>4. ASSUME NEW q \in P, NEW c \in Calls, conns'[q].flow = c
      PROVE  conns[q].flow = c /\ SameFlow(q, c)
  <2>1. q # p \/ r # NoConn
    BY RouteTyped, <1>2, <1>4, NoConnFields, Zenon
  <2>. QED BY <1>2, <1>4, <2>1, NoConnFields, ZenonT(30) DEF SameFlow
<1>. QED BY <1>1, <1>3, <1>4, StepKeeps, Zenon

\* The events name ports of the table.
Kinds == {"none", "data", "eof", "fail"}
EventsTyped == events \in Seq(P \X Kinds) /\ ev \in [P -> Kinds]

LEMMA EventsKeep == EventsTyped /\ [Next]_vars => EventsTyped'
<1>. SUFFICES ASSUME EventsTyped, [Next]_vars PROVE EventsTyped'
  OBVIOUS
<1>. USE DEF EventsTyped
<1>1. CASE Event
  <2>1. events # <<>> /\ events' = Tail(events) /\ ev' = ev
    BY <1>1, Zenon DEF Event, task
  <2>. QED BY <2>1
<1>2. CASE Backends
  <2>1. PICK p \in P : Backend(p)
    BY <1>2, Zenon DEF Backends
  <2>2. ev' \in [P -> Kinds]
    <3>1. ev' = ev \/ \E k \in Kinds : ev' = [ev EXCEPT ![p] = k]
      BY <2>1, Zenon DEF Backend, TcpConnect, Check, Enable, Recheck, Resume, Read, Recv, Emit, Sending,
                  Kinds
    <3>. QED BY <3>1, Zenon
  <2>3. events' = events \/ events' = Append(events, <<p, ev[p]>>)
    BY <2>1, Zenon DEF Backend, TcpConnect, Check, Enable, Recheck, Resume, Read, Recv, Emit
  <2>4. \A e \in P \X Kinds : Append(events, e) \in Seq(P \X Kinds)
    OBVIOUS
  <2>5. <<p, ev[p]>> \in P \X Kinds
    OBVIOUS
  <2>. QED BY <2>2, <2>3, <2>4, <2>5, ZenonT(30)
<1>3. ASSUME ~ Event, ~ Backends PROVE UNCHANGED <<events, ev>>
  BY <1>3, ZenonT(30) DEF Next, Loop, Outside, Dial, SynIn, Segment, Poll, Accept, Commit, Serve, Pull, SendFin,
              Move, Wake, Remove, Drop, Wait, task, nvars, vars
<1>. QED BY <1>1, <1>2, <1>3, Zenon

\* remove of one port, with the connection or before there is one.
LEMMA ForgetOne ==
  ASSUME NInv, NEW p \in P, Forget({p}), UNCHANGED next_alloc
  PROVE  /\ NatInv'
         /\ \A q \in P \ {p} : /\ by_alloc'[q] = by_alloc[q]
                               /\ q \in associated => q \in associated'
         /\ \A c \in Calls : by_flow[c] = 0 => by_flow'[c] = 0
<1>1. NatInv /\ {p} \in SUBSET P
  BY Zenon DEF NInv
<1>. QED BY <1>1, ForgetKeeps, ZenonT(30)

LEMMA ResetMoves ==
  ASSUME NInv, NEW c, Reset(c)
  PROVE  /\ tcp' \in [Calls -> {"idle", "never", "syn", "open", "reset", "closed"}]
         /\ \A d \in Calls : tcp'[d] = "idle" => tcp[d] = "idle"
  BY Zenon DEF Reset, NInv, FlowsTyped

LEMMA EventKeeps == NInv /\ EventsTyped /\ Event => NInv'
<1>. SUFFICES ASSUME NInv, EventsTyped, Event PROVE NInv'
  OBVIOUS
<1>1. /\ UNCHANGED <<env, sink, dest, judged, flow_basis, records, pc, cur, todo>>
      /\ pc = "top" /\ events # <<>>
  BY Zenon DEF Event, rest, loop
<1>2. Head(events)[1] \in P
  <2>1. Head(events) \in P \X Kinds
    BY <1>1 DEF EventsTyped
  <2>. QED BY <2>1, Zenon
<1>3. PICK p \in P : p = Head(events)[1]
  BY <1>2, Zenon
<1>4. LoopInv' /\ ConnsTyped /\ Conn(conns[p])
  BY <1>1, Zenon DEF NInv, LoopInv, ConnsTyped
<1>5. CASE UNCHANGED <<tcp, nat, conns>>
  <2>1. UNCHANGED <<tcp, by_flow, by_alloc, next_alloc, associated>>
    BY <1>5, Zenon DEF nat
  <2>. QED BY <1>1, <1>4, <1>5, <2>1, NatKept, FlowsKept, MappedStep, Zenon
<1>6. CASE /\ UNCHANGED <<tcp, nat>> /\ conns[p] # NoConn
           /\ \E x : \/ conns' = [conns EXCEPT ![p].pend = x]
                     \/ conns' = [conns EXCEPT ![p].eof = x]
  <2>1. UNCHANGED <<tcp, by_flow, by_alloc, next_alloc, associated>>
    BY <1>6, Zenon DEF nat
  <2>2. PICK x : \/ conns' = [conns EXCEPT ![p] = [conns[p] EXCEPT !.pend = x]]
                 \/ conns' = [conns EXCEPT ![p] = [conns[p] EXCEPT !.eof = x]]
    BY <1>6, Zenon
  <2>3. \E r : Conn(r) /\ r.flow = conns[p].flow /\ conns' = [conns EXCEPT ![p] = r]
    BY <1>4, <1>6, <2>2, PendKept, EofKept, ZenonT(30)
  <2>4. NatInv' /\ FlowsTyped'
    BY <1>1, <2>1, NatKept, FlowsKept, Zenon
  <2>. QED BY <1>1, <1>4, <2>1, <2>3, <2>4, ConnStep, Zenon
<1>7. CASE /\ conns' = [conns EXCEPT ![p] = NoConn]
           /\ Reset(conns[p].flow) /\ Forget({p}) /\ UNCHANGED next_alloc
  <2>1. FlowsTyped'
    BY <1>1, <1>7, ResetMoves, ForgetOne, TcpMoves, Zenon
  <2>. QED BY <1>1, <1>4, <1>7, <2>1, ForgetOne, NoConnFields, ConnStep, Zenon
<1>. QED BY <1>3, <1>5, <1>6, <1>7, Zenon DEF Event

\* The reaper of the poll takes no mapping of a connection.
LEMMA PollKeeps == NInv /\ Poll => NInv'
<1>. SUFFICES ASSUME NInv, Poll PROVE NInv'
  OBVIOUS
<1>1. /\ UNCHANGED <<env, sink, dest, judged, flow_basis, records, conns, next_alloc>>
      /\ pc' = "accept"
  BY Zenon DEF Poll, rest, Goto
<1>. DEFINE syns == {p \in P : sock[p].st = "syn"}
            taken == IF Cardinality(syns) <= ListenPool THEN {syns} ELSE kSubset(ListenPool, syns)
<1>2. /\ \E reaped \in {{}, Stale} : Forget(reaped)
      /\ \E S, T : tcp' = [c \in Calls |-> IF by_flow[c] \in S THEN "open"
                                           ELSE IF by_flow[c] \in T THEN "reset" ELSE tcp[c]]
      /\ \A p \in todo' : p \in P /\ conns[p] = NoConn
  <2>1. PICK opened \in taken, lost \in SUBSET syns, reaped \in {{}, Stale} :
          /\ lost \cap opened = {}
          /\ sock' = [p \in P |-> IF p \in opened THEN [sock[p] EXCEPT !.st = "open"]
                                  ELSE IF p \in syns THEN NoSock ELSE sock[p]]
          /\ tcp' = [c \in Calls |->
                       IF by_flow[c] \in opened THEN "open"
                       ELSE IF by_flow[c] \in syns \ lost THEN "reset" ELSE tcp[c]]
          /\ Forget(reaped)
          /\ todo' = {p \in P : sock'[p].st = "open" /\ conns[p] = NoConn}
    BY Zenon DEF Poll
  <2>. HIDE DEF syns, taken
  <2>. QED BY <2>1, ZenonT(30)
<1>. HIDE DEF syns, taken
<1>3. PICK reaped \in SUBSET P : Forget(reaped) /\ reaped \cap associated = {}
  BY <1>2, StaleUnassociated, Zenon
<1>4. /\ NatInv' /\ \A c \in Calls : by_flow[c] = 0 => by_flow'[c] = 0
      /\ \A p \in P \ reaped : by_alloc'[p] = by_alloc[p] /\ (p \in associated => p \in associated')
  BY <1>1, <1>3, ForgetKeeps, ZenonT(30) DEF NInv
<1>5. FlowsTyped'
  <2>1. PICK S, T : tcp' = [c \in Calls |-> IF by_flow[c] \in S THEN "open"
                                            ELSE IF by_flow[c] \in T THEN "reset" ELSE tcp[c]]
    BY <1>2, ZenonT(30)
  <2>2. /\ tcp' \in [Calls -> {"idle", "never", "syn", "open", "reset", "closed"}]
        /\ \A c \in Calls : tcp'[c] = "idle" => tcp[c] = "idle"
    BY <2>1, ZenonT(30) DEF NInv, FlowsTyped
  <2>. QED BY <1>1, <1>4, <2>2, TcpMoves, ZenonT(30)
<1>6. LoopInv'
  BY <1>1, <1>2, ZenonT(30) DEF LoopInv
<1>7. associated \subseteq P \ reaped
  BY <1>3, ZenonT(30) DEF NInv, NatInv
<1>. QED BY <1>1, <1>4, <1>5, <1>6, <1>7, MappedStep, Zenon

\* The table of the gate is read in its own ticks.
LEMMA VerdictStands ==
  ASSUME NInv, NEW a, Verdict(a) = "grant"
  PROVE  /\ a \notin DeniedAddrs \cup Protected
         /\ \E k \in Keys : k.addr = a /\ now < high[k] /\ \E q \in recorded : Asks[q] = k.name
<1>1. a \notin DeniedAddrs \cup Protected /\ Granted(a)
  BY Zenon DEF Verdict, Basis
<1>2. PICK k \in Keys : k.addr = a /\ grants[k] > now
  BY <1>1, ZenonT(30) DEF Granted
<1>3. now \in Nat /\ grants[k] \in Nat /\ high[k] \in Nat /\ grants[k] <= high[k]
      /\ (high[k] > 0 => Named(k))
  BY Zenon DEF NInv, EnvInv, EnvTyped
<1>4. now < high[k] /\ Named(k)
  BY <1>2, <1>3
<1>. QED BY <1>1, <1>2, <1>4, Zenon DEF Named

\* A flow is judged while it has no connection.
LEMMA AcceptKeeps == NInv /\ Accept => NInv'
<1>. SUFFICES ASSUME NInv, Accept PROVE NInv'
  OBVIOUS
<1>1. /\ UNCHANGED <<env, sink, dest, conns>> /\ records \subseteq records' /\ pc = "accept"
  BY Zenon DEF Accept, Committed
<1>2. PICK p \in todo :
        /\ todo' = todo \ {p}
        /\ \/ /\ pc' = "accept" /\ UNCHANGED <<tcp, nat, judged, flow_basis>>
           \/ /\ pc' = "accept" /\ Refused(p) /\ UNCHANGED <<judged, flow_basis>>
           \/ /\ by_alloc[p] # NoCall /\ Verdict(dest[by_alloc[p]]) # "deny"
              /\ pc' = "commit" /\ cur' = p
              /\ associated' = Associated(p) /\ judged' = [judged EXCEPT ![by_alloc[p]] = now]
              /\ flow_basis' = [flow_basis EXCEPT ![by_alloc[p]] = Verdict(dest[by_alloc[p]])]
              /\ UNCHANGED <<tcp, by_flow, by_alloc, next_alloc, records>>
  BY ZenonT(30) DEF Accept, Goto
<1>3. p \in P /\ todo \subseteq P /\ \A q \in todo : conns[q] = NoConn
  BY <1>1, Zenon DEF NInv, LoopInv
<1>4. pc' = "accept" => LoopInv'
  BY <1>1, <1>2, <1>3, ZenonT(30) DEF LoopInv
<1>5. CASE pc' = "accept" /\ UNCHANGED <<tcp, nat, judged, flow_basis>>
  <2>1. UNCHANGED <<by_flow, by_alloc, next_alloc, associated>>
    BY <1>5, Zenon DEF nat
  <2>. QED BY <1>1, <1>4, <1>5, <2>1, NatKept, FlowsKept, MappedStep
<1>6. CASE pc' = "accept" /\ Refused(p) /\ UNCHANGED <<judged, flow_basis>>
  <2>1. Forget({p}) /\ UNCHANGED next_alloc /\ Reset(by_alloc[p])
    BY <1>6 DEF Refused
  <2>2. FlowsTyped'
    BY <1>1, <1>3, <1>6, <2>1, ForgetOne, ResetMoves, TcpMoves, ZenonT(30)
  <2>3. conns' = [conns EXCEPT ![p] = NoConn]
    BY <1>1, <1>3, Zenon DEF NInv, ConnsTyped
  <2>. QED BY <1>1, <1>3, <1>4, <1>6, <2>1, <2>2, <2>3, ForgetOne, NoConnFields, ConnStep, ZenonT(30)
<1>7. CASE /\ by_alloc[p] # NoCall /\ Verdict(dest[by_alloc[p]]) # "deny"
           /\ pc' = "commit" /\ cur' = p
           /\ associated' = Associated(p) /\ judged' = [judged EXCEPT ![by_alloc[p]] = now]
           /\ flow_basis' = [flow_basis EXCEPT ![by_alloc[p]] = Verdict(dest[by_alloc[p]])]
           /\ UNCHANGED <<tcp, by_flow, by_alloc, next_alloc, records>>
  <2>0. NatInv
    BY Zenon DEF NInv
  <2>1. PICK c \in Calls : c = by_alloc[p] /\ by_flow[c] = p
    <3>1. by_alloc[p] \in Calls
      BY <1>3, <1>7, <2>0 DEF NatInv
    <3>2. by_flow[by_alloc[p]] = p
      BY <1>3, <2>0, <3>1, Zenon DEF NatInv
    <3>. QED BY <3>1, <3>2, Zenon
  <2>2. /\ judged' = [judged EXCEPT ![c] = now]
        /\ flow_basis' = [flow_basis EXCEPT ![c] = Verdict(dest[c])]
        /\ Verdict(dest[c]) \in {"rule", "open", "grant"}
        /\ associated' = associated \cup {p}
    BY <1>7, <2>1, Zenon DEF Verdict, Basis, Associated
  <2>3. judged'[c] = now /\ flow_basis'[c] = Verdict(dest[c])
        /\ \A d \in Calls \ {c} : judged'[d] = judged[d] /\ flow_basis'[d] = flow_basis[d]
    BY <2>2, Zenon DEF NInv, FlowsTyped
  <2>4. NatInv'
    <3>1. UNCHANGED <<by_flow, by_alloc, next_alloc>>
      BY <1>7, ZenonT(30)
    <3>2. associated' \subseteq P
      BY <1>3, <2>0, <2>2 DEF NatInv
    <3>. QED BY <2>0, <3>1, <3>2, Zenon DEF NatInv
  <2>5. FlowsTyped'
    <3>1. now \in Int
      <4>1. EnvTyped
        BY ZenonT(30) DEF NInv, EnvInv
      <4>. QED BY <4>1 DEF EnvTyped
    <3>2. judged' \in [Calls -> Int]
      BY <2>2, <3>1, ZenonT(30) DEF NInv, FlowsTyped
    <3>3. flow_basis' \in [Calls -> {"none", "rule", "open", "grant"}]
      BY <2>2, Zenon DEF NInv, FlowsTyped
    <3>. QED BY <1>1, <1>7, <3>2, <3>3, ZenonT(30) DEF NInv, FlowsTyped
  <2>6. EnvInv' /\ Grows /\ ConnsTyped'
    BY <1>1, Steady, ConnsKept, Zenon
  <2>7. LoopInv'
    BY <1>1, <1>2, <1>3, <1>7, <2>1, Zenon DEF LoopInv
  <2>8. Stands(p, c)'
    <3>1. ASSUME flow_basis'[c] = "grant" PROVE LiveGrant(c)'
      <4>1. Verdict(dest[c]) = "grant"
        BY <2>3, <3>1, Zenon
      <4>2. UNCHANGED <<high, recorded>>
        BY <1>1, Zenon DEF env
      <4>3. UNCHANGED dest /\ judged'[c] = now
        BY <1>1, <2>3, Zenon
      <4>4. /\ dest[c] \notin DeniedAddrs \cup Protected
            /\ \E k \in Keys : k.addr = dest[c] /\ now < high[k]
                              /\ \E q \in recorded : Asks[q] = k.name
        BY <4>1, VerdictStands, Zenon
      <4>. QED BY <4>2, <4>3, <4>4, ZenonT(30) DEF LiveGrant
    <3>. QED BY <1>7, <2>1, <2>2, <2>3, <3>1, ZenonT(30) DEF Stands
  <2>9. ASSUME NEW q \in P, NEW d \in Calls, conns'[q].flow = d
        PROVE  Stands(q, d)' /\ <<"authorize", d>> \in records'
    <3>1. Stands(q, d) /\ <<"authorize", d>> \in records /\ EnvInv /\ FlowsTyped
      BY <1>1, <2>9, Zenon DEF NInv
    <3>2. q # p
      BY RouteTyped, <1>1, <1>3, <2>9, NoConnFields, ZenonT(30)
    <3>3. d # c
      BY <2>1, <3>1, <3>2, ZenonT(30) DEF Stands, NInv, NatInv
    <3>4. q \in associated' /\ by_alloc'[q] = by_alloc[q] /\ dest'[d] = dest[d]
      BY <1>1, <1>7, <2>2, <3>1, Zenon DEF Stands
    <3>. QED BY <1>1, <2>3, <2>6, <3>1, <3>3, <3>4, StandsKept, ZenonT(30)
  <2>. QED BY <1>7, <2>1, <2>4, <2>5, <2>6, <2>7, <2>8, <2>9, ZenonT(30) DEF NInv
<1>. QED BY <1>2, <1>5, <1>6, <1>7, Zenon

\* The connection appears once its record is durable, on the verdict in hand.
LEMMA CommitKeeps == NInv /\ Commit => NInv'
<1>. SUFFICES ASSUME NInv, Commit PROVE NInv'
  OBVIOUS
<1>1. /\ UNCHANGED <<env, sink, dest, judged, flow_basis, todo>> /\ records \subseteq records'
      /\ pc = "commit" /\ pc' = "accept"
  BY ZenonT(30) DEF Commit, Committed, Goto
<1>2. cur \in P \ todo /\ conns[cur] = NoConn /\ by_alloc[cur] \in Calls
  BY <1>1, ZenonT(30) DEF NInv, LoopInv
<1>3. PICK p \in P, c \in Calls : p = cur /\ c = by_alloc[p] /\ p \notin todo /\ conns[p] = NoConn
  BY <1>2, Zenon
<1>4. todo \subseteq P /\ \A q \in todo : conns[q] = NoConn /\ q # p
  BY <1>1, <1>3, Zenon DEF NInv, LoopInv
<1>5. CASE sink # "up"
  <2>1. Forget({p}) /\ UNCHANGED <<next_alloc, conns>> /\ Reset(by_alloc[p])
    BY <1>3, <1>5, Zenon DEF Commit, Refused
  <2>2. FlowsTyped'
    BY <1>1, <2>1, ForgetOne, ResetMoves, TcpMoves, ZenonT(30)
  <2>3. conns' = [conns EXCEPT ![p] = NoConn]
    BY <1>3, <2>1, ZenonT(30) DEF NInv, ConnsTyped
  <2>4. LoopInv'
    BY <1>1, <1>4, <2>1, ZenonT(30) DEF LoopInv
  <2>. QED BY <1>1, <2>1, <2>2, <2>3, <2>4, ForgetOne, NoConnFields, ConnStep, Zenon
<1>6. CASE sink = "up"
  <2>1. /\ conns' = [conns EXCEPT ![p] = [conns[p] EXCEPT !.flow = c]]
        /\ records' = records \cup {<<"authorize", c>>} /\ UNCHANGED <<tcp, nat>>
    BY <1>3, <1>6, Zenon DEF Commit, Committed
  <2>2. UNCHANGED <<by_flow, by_alloc, next_alloc, associated>>
    BY <2>1, Zenon DEF nat
  <2>3. PICK r : r = [NoConn EXCEPT !.flow = c] /\ Conn(r) /\ r.flow = c
    BY FlowSet, Zenon
  <2>4. conns' = [conns EXCEPT ![p] = r]
    BY <1>3, <2>1, <2>3, ZenonT(30)
  <2>5. ConnsTyped
    BY Zenon DEF NInv
  <2>6. conns'[p] = r /\ \A q \in P \ {p} : conns'[q] = conns[q]
    BY <2>4, <2>5, Zenon DEF ConnsTyped
  <2>7. ConnsTyped'
    <3>1. conns' = [q \in P |-> conns'[q]]
      BY <2>4, <2>5, Zenon DEF ConnsTyped
    <3>2. \A q \in P : Conn(conns'[q])
      BY <2>3, <2>5, <2>6, Zenon DEF ConnsTyped
    <3>. QED BY <3>1, <3>2, Zenon DEF ConnsTyped
  <2>8. EnvInv' /\ Grows /\ NatInv' /\ FlowsTyped'
    BY <1>1, <2>1, <2>2, Steady, NatKept, FlowsKept
  <2>9. LoopInv'
    BY <1>1, <1>4, <2>6, ZenonT(30) DEF LoopInv
  <2>10. ASSUME NEW q \in P, NEW d \in Calls, conns'[q].flow = d
         PROVE  Stands(q, d)' /\ <<"authorize", d>> \in records'
    <3>1. Stands(q, d) /\ <<"authorize", d>> \in records'
      <4>1. CASE q = p
        <5>1. d = c
          BY <2>3, <2>6, <2>10, <4>1, Zenon
        <5>. QED BY <1>1, <1>3, <2>1, <4>1, <5>1, Zenon DEF NInv
      <4>2. CASE q # p
        BY <2>1, <2>6, <2>10, <4>2, SMTT(30) DEF NInv
      <4>. QED BY <4>1, <4>2, Zenon
    <3>2. q \in associated' /\ EnvInv /\ FlowsTyped
      BY <2>2, <3>1, ZenonT(30) DEF Stands, NInv
    <3>. QED BY <1>1, <2>2, <2>8, <3>1, <3>2, StandsKept, ZenonT(30)
  <2>. QED BY <1>1, <2>7, <2>8, <2>9, <2>10, Zenon DEF NInv
<1>. QED BY <1>5, <1>6, Zenon

\* The steps that only move the loop along.
LEMMA TurnKeeps ==
  ASSUME NInv, Serve \/ Pull \/ Wake \/ Drop \/ Wait
  PROVE  NInv'
<1>1. /\ UNCHANGED <<env, sink, dest, judged, flow_basis, conns, records, tcp>>
      /\ UNCHANGED <<by_flow, by_alloc, next_alloc, associated>>
  BY Zenon DEF Serve, Pull, Wake, Drop, Wait, rest, workload, nat
<1>2. LoopInv' /\ pc' # "commit"
  <2>1. CASE Serve
    BY <2>1, <1>1, Zenon DEF Serve, Goto, NInv, LoopInv
  <2>2. CASE Pull
    <3>1. /\ pc = "pump" /\ todo' = todo
          /\ \E p \in todo : \/ UNCHANGED <<pc, cur>>
                             \/ pc' \in {"fin", "move"} /\ cur' = p
      BY <2>2, Zenon DEF Pull, Goto
    <3>. QED BY <1>1, <3>1, Zenon DEF NInv, LoopInv
  <2>3. CASE Wake
    BY <2>3, <1>1, Zenon DEF Wake, Goto, NInv, LoopInv
  <2>4. CASE Drop
    <3>1. pc' = "pump" /\ todo' = todo
      BY <2>4, Zenon DEF Drop, Goto
    <3>. QED BY <2>4, <3>1, <1>1, ZenonT(30) DEF Drop, NInv, LoopInv
  <2>5. CASE Wait
    BY <2>5, <1>1, Zenon DEF Wait, Goto, NInv, LoopInv
  <2>. QED BY <2>1, <2>2, <2>3, <2>4, <2>5, Zenon
<1>. QED BY <1>1, <1>2, NatKept, FlowsKept, MappedStep, ZenonT(30)

\* The pump changes a connection and leaves its flow alone.
LEMMA PumpKeeps ==
  ASSUME NInv, SendFin \/ Move
  PROVE  NInv'
<1>1. /\ UNCHANGED <<env, sink, dest, judged, flow_basis, records, tcp>>
      /\ UNCHANGED <<by_flow, by_alloc, next_alloc, associated>>
  BY Zenon DEF SendFin, Move, rest, workload, nat
<1>2. PICK p \in P : p = cur /\ conns[p] # NoConn
  BY Zenon DEF SendFin, Move, NInv, LoopInv
<1>3. PICK x : \/ conns' = [conns EXCEPT ![p] = [conns[p] EXCEPT !.fin = x]]
               \/ conns' = [conns EXCEPT ![p] = [conns[p] EXCEPT !.pend = x]]
  BY <1>2, Zenon DEF SendFin, Move
<1>4. ConnsTyped /\ Conn(conns[p])
  BY Zenon DEF NInv, ConnsTyped
<1>5. PICK r : Conn(r) /\ r.flow = conns[p].flow /\ r # NoConn /\ conns' = [conns EXCEPT ![p] = r]
  <2>1. CASE conns' = [conns EXCEPT ![p] = [conns[p] EXCEPT !.fin = x]]
    BY <1>2, <1>4, <2>1, FinKept, Zenon
  <2>2. CASE conns' = [conns EXCEPT ![p] = [conns[p] EXCEPT !.pend = x]]
    BY <1>2, <1>4, <2>2, PendKept, Zenon
  <2>. QED BY <1>3, <2>1, <2>2, Zenon
<1>6. conns'[p] # NoConn /\ \A q \in P \ {p} : conns'[q] = conns[q]
  BY <1>4, <1>5, Zenon DEF ConnsTyped
<1>7. pc \in {"fin", "move"} /\ todo' \in {todo, todo \ {p}}
      /\ ((pc' = "move" /\ cur' = p) \/ pc' \in {"wake", "pump"})
  BY <1>2, Zenon DEF SendFin, Move, Goto
<1>8. \A q \in todo' : q \in P /\ conns'[q] # NoConn
  BY <1>6, <1>7, Zenon DEF NInv, LoopInv
<1>9. LoopInv'
  BY <1>6, <1>7, <1>8, Zenon DEF LoopInv
<1>10. NatInv' /\ FlowsTyped'
  BY <1>1, NatKept, FlowsKept, Zenon
<1>. QED BY <1>1, <1>5, <1>7, <1>9, <1>10, ConnStep, ZenonT(30)

LEMMA RemoveKeeps == NInv /\ Remove => NInv'
<1>. SUFFICES ASSUME NInv, Remove PROVE NInv'
  OBVIOUS
<1>1. /\ UNCHANGED <<env, sink, dest, judged, flow_basis, records, tcp, next_alloc, todo>>
      /\ todo = {}
  BY Zenon DEF Remove, rest, workload
<1>2. PICK p \in P : conns' = [conns EXCEPT ![p] = NoConn] /\ Forget({p}) /\ pc' = "drop"
  BY ZenonT(30) DEF Remove, Goto
<1>3. LoopInv'
  BY <1>1, <1>2, Zenon DEF LoopInv
<1>4. FlowsTyped'
  BY <1>1, <1>2, ForgetOne, ZenonT(30) DEF NInv, FlowsTyped
<1>. QED BY <1>1, <1>2, <1>3, <1>4, ForgetOne, NoConnFields, ConnStep, Zenon

\* The backends touch neither the table nor the connections.
LEMMA BackendsKeep == NInv /\ (Backends \/ UNCHANGED vars) => NInv'
<1>. SUFFICES ASSUME NInv, Backends \/ UNCHANGED vars PROVE NInv'
  OBVIOUS
<1>1. UNCHANGED <<rest, tcp, nat, conns, loop>>
  BY Zenon DEF Backends, Backend, vars, nvars, workload
<1>2. /\ UNCHANGED <<env, sink, dest, judged, flow_basis, records, tcp, conns, pc, cur, todo>>
      /\ UNCHANGED <<by_flow, by_alloc, next_alloc, associated>>
  BY <1>1, Zenon DEF rest, nat, loop
<1>3. EnvInv' /\ Grows /\ NatInv' /\ FlowsTyped' /\ ConnsTyped' /\ LoopInv'
  BY <1>2, Steady, NatKept, FlowsKept, ConnsKept, LoopKept, ZenonT(30)
<1>4. \A p \in P, c \in Calls : SameFlow(p, c)
  BY <1>2, ZenonT(30) DEF SameFlow
<1>5. pc = "commit" => cur \in P
  BY Zenon DEF NInv, LoopInv
<1>. QED BY <1>2, <1>3, <1>4, <1>5, StepKeeps, Zenon

LEMMA NInvCorrect == Spec => [](NInv /\ EventsTyped)
<1>1. Init => NInv /\ EventsTyped
  <2>1. Init => EventsTyped
    BY DEF Init, Fresh, EventsTyped, Kinds
  <2>. QED BY <2>1, NInitInv, Zenon
<1>2. NInv /\ EventsTyped /\ [Next]_vars => NInv' /\ EventsTyped'
  BY EventsKeep, OutsideNKeeps, DialKeeps, SynInKeeps, SegmentKeeps, EventKeeps, PollKeeps,
     AcceptKeeps, CommitKeeps, TurnKeeps, PumpKeeps, RemoveKeeps, BackendsKeep, Zenon DEF Next, Loop
<1>. QED BY <1>1, <1>2, PTL DEF Spec

\* stack_loop of stack.rs: whatever the gate, the sink, the workload and the
\* backends do in between, a connection stands on its own mapping, which the
\* reaper cannot take, on an authorize record that was durable first, and on
\* grounds that held when it was judged.
THEOREM ConnectionsAuthorised == Spec => []SplicesAuthorised
  BY InvSplices, NInvCorrect, PTL

--------------------------------------------------------------------------------
(* The credit of a connection                                              *)

INSTANCE FiniteSetTheorems

\* The events of a sequence that are e.
Count(s, e) == Cardinality({i \in DOMAIN s : s[i] = e})

LEMMA CountFinite ==
  ASSUME NEW S, NEW s \in Seq(S), NEW e
  PROVE  IsFiniteSet({i \in DOMAIN s : s[i] = e}) /\ Count(s, e) \in Nat
<1>1. Len(s) \in Nat /\ DOMAIN s = 1..Len(s)
  OBVIOUS
<1>2. IsFiniteSet(1..Len(s))
  BY <1>1, FS_Interval
<1>3. {i \in DOMAIN s : s[i] = e} \in SUBSET (1..Len(s))
  BY <1>1, Zenon
<1>4. IsFiniteSet({i \in DOMAIN s : s[i] = e})
  BY <1>2, <1>3, FS_Subset, Zenon
<1>. QED BY <1>4, FS_CardinalityType, Zenon DEF Count

LEMMA AppendCount ==
  ASSUME NEW S, NEW s \in Seq(S), NEW x \in S, NEW e
  PROVE  Count(Append(s, x), e) = IF x = e THEN Count(s, e) + 1 ELSE Count(s, e)
<1>. DEFINE I == {i \in DOMAIN s : s[i] = e}
            J == {i \in DOMAIN Append(s, x) : Append(s, x)[i] = e}
            n == Len(s) + 1
<1>1. IsFiniteSet(I)
  BY CountFinite, Zenon
<1>2. J = IF x = e THEN I \cup {n} ELSE I
  OBVIOUS
<1>3. n \notin I
  OBVIOUS
<1>. HIDE DEF I, J, n
<1>4. Cardinality(I \cup {n}) = Cardinality(I) + 1
  BY <1>1, <1>3, FS_AddElement, Zenon
<1>5. Count(s, e) = Cardinality(I) /\ Count(Append(s, x), e) = Cardinality(J)
  BY Zenon DEF I, J, Count
<1>. QED BY <1>2, <1>4, <1>5, Zenon

LEMMA TailCount ==
  ASSUME NEW S, NEW s \in Seq(S), s # <<>>, NEW e
  PROVE  Count(Tail(s), e) = IF Head(s) = e THEN Count(s, e) - 1 ELSE Count(s, e)
<1>. DEFINE I == {i \in DOMAIN s : s[i] = e}
            J == {i \in DOMAIN Tail(s) : Tail(s)[i] = e}
            f == [j \in J |-> j + 1]
<1>1. IsFiniteSet(I)
  BY CountFinite, Zenon
<1>2. Tail(s) \in Seq(S)
  OBVIOUS
<1>3. IsFiniteSet(J)
  BY <1>2, CountFinite, Zenon
<1>4. /\ Len(s) \in Nat \ {0} /\ DOMAIN s = 1..Len(s)
      /\ DOMAIN Tail(s) = 1..(Len(s) - 1)
      /\ \A i \in 1..(Len(s) - 1) : Tail(s)[i] = s[i + 1]
      /\ Head(s) = s[1]
  OBVIOUS
<1>5. I \subseteq 1..Len(s) /\ J \subseteq 1..(Len(s) - 1)
      /\ (\A j \in J : j + 1 \in I \ {1})
      /\ (\A i \in I \ {1} : i - 1 \in J /\ (i - 1) + 1 = i)
  BY <1>4
<1>6. 1 \in I <=> Head(s) = e
  BY <1>4
<1>. HIDE DEF I, J
<1>7. f \in Bijection(J, I \ {1})
  <2>1. f \in [J -> I \ {1}]
    BY <1>5
  <2>2. \A a, b \in J : f[a] = f[b] => a = b
    BY <1>5
  <2>3. \A t \in I \ {1} : \E j \in J : f[j] = t
    <3>. SUFFICES ASSUME NEW t \in I \ {1} PROVE \E j \in J : f[j] = t
      OBVIOUS
    <3>. QED BY <1>5
  <2>. HIDE DEF f
  <2>4. DOMAIN f = J
    BY <2>1, Zenon
  <2>. QED BY <2>1, <2>2, <2>3, <2>4, Zenon DEF Bijection, Injection, Surjection, IsInjective
<1>. HIDE DEF f
<1>8. ExistsBijection(J, I \ {1})
  BY <1>7, Zenon DEF ExistsBijection
<1>9. Cardinality(I \ {1}) = Cardinality(J)
  BY <1>3, <1>8, FS_Bijection, Zenon
<1>10. Cardinality(I \ {1}) = IF 1 \in I THEN Cardinality(I) - 1 ELSE Cardinality(I)
  BY <1>1, FS_RemoveElement, Zenon
<1>11. Count(s, e) = Cardinality(I) /\ Count(Tail(s), e) = Cardinality(J)
  BY Zenon DEF I, J, Count
<1>. QED BY <1>6, <1>9, <1>10, <1>11, Zenon

\* A translated port is used once: the port of a connection that is gone is
\* not mapped again, and what was never spliced has read nothing.  A backend
\* has an event in hand only while it sends it.
UsedOnce ==
  /\ DOMAIN spliced = P
  /\ \A p \in P : spliced[p] # "none" =>
       p < next_alloc /\ (conns[p] = NoConn => by_alloc[p] = NoCall)
  /\ \A p \in P : spliced[p] = "none" =>
       conns[p] = NoConn /\ credit[p] = 0 /\ \A i \in DOMAIN events : events[i][1] # p
  /\ \A p \in P : spliced[p] # "emit" => ev[p] = "none"

States == {"none", "syn", "open", "closewait", "finwait", "lastack", "closed"}
Socks == [st : States, rx : Int, tx : Int]

Counted == sock \in [P -> Socks] /\ credit \in [P -> Int] /\ \A p \in P : conns[p].pend \in Int

\* What the backend of p has read and the pump has not moved.
Owed(p) == conns[p].pend + Count(events, <<p, "data">>) + (IF ev[p] = "data" THEN 1 ELSE 0)

CreditInv == UsedOnce /\ Counted /\ \A p \in P : conns[p] # NoConn => credit[p] = Owed(p)

LEMMA CreditInit == Init => CreditInv
<1>. SUFFICES ASSUME Init PROVE CreditInv
  OBVIOUS
<1>1. UsedOnce
  <2>1. /\ spliced = [p \in P |-> "none"] /\ ev = [p \in P |-> "none"] /\ credit = [p \in P |-> 0]
        /\ events = <<>> /\ conns = [p \in P |-> NoConn]
    BY Zenon DEF Init, Fresh
  <2>2. DOMAIN events = {}
    BY <2>1
  <2>3. \A p \in P : conns[p] = NoConn /\ spliced[p] = "none" /\ ev[p] = "none" /\ credit[p] = 0
    BY <2>1, Zenon
  <2>. QED BY <2>1, <2>2, <2>3, Zenon DEF UsedOnce
<1>2. NoSock \in Socks
  BY DEF NoSock, Socks, States
<1>5. NoConn.pend \in Int
  BY DEF NoConn
<1>3. Counted
  <2>1. sock \in [P -> Socks]
    BY <1>2, Zenon DEF Init, Fresh
  <2>2. credit = [p \in P |-> 0] /\ conns = [p \in P |-> NoConn]
    BY Zenon DEF Init, Fresh
  <2>3. credit \in [P -> Int]
    BY <2>2
  <2>. QED BY <1>5, <2>1, <2>2, <2>3, Zenon DEF Counted
<1>4. \A p \in P : conns[p] = NoConn
  BY Zenon DEF Init, Fresh
<1>. QED BY <1>1, <1>3, <1>4, Zenon DEF CreditInv

\* A step that reads nothing and moves nothing: it may end a connection with
\* its mapping, and maps only ports that were never used.
LEMMA CreditFrame ==
  ASSUME NatInv, NatInv', CreditInv, UNCHANGED <<credit, events, ev, spliced>>,
         sock' \in [P -> Socks], next_alloc <= next_alloc',
         \A p \in P : conns'[p] = NoConn \/ (conns[p] # NoConn /\ conns'[p].pend = conns[p].pend),
         \A p \in P : conns[p] # NoConn /\ conns'[p] = NoConn => by_alloc'[p] = NoCall,
         \A p \in P : p < next_alloc /\ by_alloc[p] = NoCall => by_alloc'[p] = NoCall
  PROVE  CreditInv'
<1>1. \A p \in P : p < next_alloc => p < next_alloc'
  BY DEF NatInv, P
<1>2. UsedOnce'
  BY <1>1, Zenon DEF CreditInv, UsedOnce
<1>3. NoConn.pend \in Int
  BY DEF NoConn
<1>4. Counted'
  BY <1>3, Zenon DEF CreditInv, Counted
<1>5. ASSUME NEW p \in P, conns'[p] # NoConn PROVE credit'[p] = Owed(p)'
  BY <1>5, Zenon DEF CreditInv, Owed
<1>. QED BY <1>2, <1>4, <1>5, Zenon DEF CreditInv

\* The same, of a step that leaves the connections and the cursor alone.
LEMMA CreditQuiet ==
  ASSUME NatInv, NatInv', CreditInv, UNCHANGED <<credit, events, ev, spliced, conns, next_alloc>>,
         sock' \in [P -> Socks],
         \A p \in P : by_alloc[p] = NoCall => by_alloc'[p] = NoCall
  PROVE  CreditInv'
<1>1. next_alloc <= next_alloc'
  BY DEF NatInv
<1>. QED BY <1>1, CreditFrame, Zenon

LEMMA SockFields ==
  ASSUME NEW r \in Socks, NEW x \in States, NEW n \in Int
  PROVE  /\ NoSock \in Socks /\ [r EXCEPT !.st = x] \in Socks
         /\ [r EXCEPT !.rx = n] \in Socks /\ [r EXCEPT !.tx = n] \in Socks
         /\ r.rx \in Int /\ r.tx \in Int /\ r.st \in States
  BY DEF NoSock, Socks, States

LEMMA SockSet ==
  ASSUME CreditInv, NEW p, NEW r \in Socks, sock' = [sock EXCEPT ![p] = r]
  PROVE  sock' \in [P -> Socks]
  BY Zenon DEF CreditInv, Counted

LEMMA FreedTyped ==
  ASSUME CreditInv, NEW p, Freed(p)
  PROVE  sock' \in [P -> Socks]
<1>1. NoSock \in Socks
  BY DEF NoSock, Socks, States
<1>. QED BY <1>1, SockSet, Zenon DEF Freed

LEMMA ForgetUnmaps ==
  ASSUME NatInv, NEW S, Forget(S)
  PROVE  /\ \A p \in P : by_alloc[p] = NoCall => by_alloc'[p] = NoCall
         /\ \A p \in P : p \in S => by_alloc'[p] = NoCall
  BY Zenon DEF Forget

\* The steps that leave the sockets, the table and the connections alone.
LEMMA OtherCredit ==
  ASSUME NInv, NInv', CreditInv,
         \/ Outside \/ Dial \/ Serve \/ Wake \/ Drop \/ Wait \/ UNCHANGED vars
  PROVE  CreditInv'
<1>1. UNCHANGED <<credit, events, ev, spliced, conns, next_alloc, by_alloc, sock>>
  BY Zenon DEF Outside, Dial, Serve, Wake, Drop, Wait, vars, nvars, nat, task, shared
<1>2. sock' \in [P -> Socks] /\ NatInv /\ NatInv'
  BY <1>1, Zenon DEF CreditInv, Counted, NInv
<1>. QED BY <1>1, <1>2, CreditQuiet, Zenon

LEMMA SynInCredit ==
  ASSUME NInv, NInv', CreditInv, SynIn
  PROVE  CreditInv'
<1>1. UNCHANGED <<credit, events, ev, spliced, conns>> /\ NatInv /\ NatInv'
  BY Zenon DEF SynIn, task, shared, NInv
<1>. DEFINE reaped == IF Cardinality(Mapped) >= MaxMappings THEN Stale ELSE {}
<1>2. PICK c \in Calls :
        \/ sock' = [sock EXCEPT ![by_flow[c]].st = "syn"] /\ UNCHANGED nat
        \/ Forget(reaped) /\ UNCHANGED <<next_alloc, sock>>
        \/ /\ by_alloc' = [p \in P |-> IF p = next_alloc THEN c
                                       ELSE IF p \in reaped THEN NoCall ELSE by_alloc[p]]
           /\ next_alloc' = next_alloc + 1
           /\ sock' = [sock EXCEPT ![next_alloc].st = "syn"]
  BY Zenon DEF SynIn
<1>. HIDE DEF reaped
<1>3. sock' \in [P -> Socks]
  <2>1. sock \in [P -> Socks]
    BY Zenon DEF CreditInv, Counted
  <2>2. ASSUME NEW q, sock' = [sock EXCEPT ![q].st = "syn"] PROVE sock' \in [P -> Socks]
    BY <2>1, <2>2, Zenon DEF Socks, States
  <2>. QED BY <1>2, <2>1, <2>2, Zenon
<1>4. CASE UNCHANGED nat
  <2>1. UNCHANGED <<next_alloc, by_alloc>>
    BY <1>4, Zenon DEF nat
  <2>. QED BY <1>1, <1>3, <2>1, CreditQuiet, Zenon
<1>5. CASE Forget(reaped) /\ UNCHANGED next_alloc
  BY <1>1, <1>3, <1>5, ForgetUnmaps, CreditQuiet, Zenon
<1>6. CASE /\ by_alloc' = [p \in P |-> IF p = next_alloc THEN c
                                       ELSE IF p \in reaped THEN NoCall ELSE by_alloc[p]]
           /\ next_alloc' = next_alloc + 1
  <2>1. next_alloc <= next_alloc'
    BY <1>1, <1>6 DEF NatInv
  <2>2. \A p \in P : p < next_alloc => p # next_alloc
    BY <1>1 DEF NatInv, P
  <2>3. \A p \in P : p < next_alloc /\ by_alloc[p] = NoCall => by_alloc'[p] = NoCall
    BY <1>6, <2>2, Zenon
  <2>. QED BY <1>1, <1>3, <2>1, <2>3, CreditFrame, Zenon
<1>. QED BY <1>2, <1>4, <1>5, <1>6, Zenon

LEMMA SegmentCredit ==
  ASSUME NInv, NInv', CreditInv, Segment
  PROVE  CreditInv'
<1>1. UNCHANGED <<credit, events, ev, spliced, conns, next_alloc, by_alloc>> /\ NatInv /\ NatInv'
  BY Zenon DEF Segment, nat, task, shared, NInv
<1>2. PICK p \in P :
        \/ sock' = [sock EXCEPT ![p] = [sock[p] EXCEPT !.rx = sock[p].rx + 1]]
        \/ sock' = [sock EXCEPT ![p] = [sock[p] EXCEPT !.tx = sock[p].tx - 1]]
        \/ sock' = [sock EXCEPT ![p] = [sock[p] EXCEPT !.st = "closewait"]]
        \/ sock' = [sock EXCEPT ![p] = [sock[p] EXCEPT !.st = "closed"]]
  BY Zenon DEF Segment, Mapped
<1>3. sock[p] \in Socks
  BY Zenon DEF CreditInv, Counted
<1>4. sock[p].rx + 1 \in Int /\ sock[p].tx - 1 \in Int
  BY <1>3 DEF Socks
<1>5. \E r \in Socks : sock' = [sock EXCEPT ![p] = r]
  <2>1. "closewait" \in States /\ "closed" \in States
    BY DEF States
  <2>2. /\ [sock[p] EXCEPT !.rx = sock[p].rx + 1] \in Socks
        /\ [sock[p] EXCEPT !.tx = sock[p].tx - 1] \in Socks
        /\ [sock[p] EXCEPT !.st = "closewait"] \in Socks
        /\ [sock[p] EXCEPT !.st = "closed"] \in Socks
    BY <1>3, <1>4, <2>1, SockFields, Zenon
  <2>. QED BY <1>2, <2>2, Zenon
<1>6. sock' \in [P -> Socks]
  BY <1>5, SockSet, Zenon
<1>. QED BY <1>1, <1>6, CreditQuiet, Zenon

LEMMA PollCredit ==
  ASSUME NInv, NInv', CreditInv, Poll
  PROVE  CreditInv'
<1>1. UNCHANGED <<credit, events, ev, spliced, conns, next_alloc>> /\ NatInv /\ NatInv'
  BY Zenon DEF Poll, task, shared, NInv
<1>. DEFINE syns == {p \in P : sock[p].st = "syn"}
            taken == IF Cardinality(syns) <= ListenPool THEN {syns} ELSE kSubset(ListenPool, syns)
<1>2. /\ \E S : Forget(S)
      /\ \E S, T : sock' = [p \in P |-> IF p \in S THEN [sock[p] EXCEPT !.st = "open"]
                                        ELSE IF p \in T THEN NoSock ELSE sock[p]]
  <2>1. PICK opened \in taken, lost \in SUBSET syns, reaped \in {{}, Stale} :
          /\ lost \cap opened = {}
          /\ sock' = [p \in P |-> IF p \in opened THEN [sock[p] EXCEPT !.st = "open"]
                                  ELSE IF p \in syns THEN NoSock ELSE sock[p]]
          /\ tcp' = [c \in Calls |->
                       IF by_flow[c] \in opened THEN "open"
                       ELSE IF by_flow[c] \in syns \ lost THEN "reset" ELSE tcp[c]]
          /\ Forget(reaped)
          /\ todo' = {p \in P : sock'[p].st = "open" /\ conns[p] = NoConn}
    BY Zenon DEF Poll
  <2>. HIDE DEF syns, taken
  <2>. QED BY <2>1, Zenon
<1>. HIDE DEF syns, taken
<1>3. sock' \in [P -> Socks]
  <2>1. ASSUME NEW p \in P
        PROVE  NoSock \in Socks /\ sock[p] \in Socks /\ [sock[p] EXCEPT !.st = "open"] \in Socks
    <3>1. sock[p] \in Socks /\ "open" \in States /\ 0 \in Int
      BY DEF CreditInv, Counted, States
    <3>. QED BY <3>1, SockFields, Zenon
  <2>. QED BY <1>2, <2>1, Zenon
<1>. QED BY <1>1, <1>2, <1>3, ForgetUnmaps, CreditQuiet, Zenon

LEMMA AcceptCredit ==
  ASSUME NInv, NInv', CreditInv, Accept
  PROVE  CreditInv'
<1>1. UNCHANGED <<credit, events, ev, spliced, conns>> /\ NatInv /\ NatInv'
  BY Zenon DEF Accept, task, shared, NInv
<1>2. PICK p :
        \/ Freed(p) /\ UNCHANGED nat
        \/ Refused(p)
        \/ UNCHANGED <<by_alloc, next_alloc, sock>>
  BY Zenon DEF Accept
<1>3. \/ Freed(p) \/ UNCHANGED sock
  BY <1>2, Zenon DEF Refused
<1>4. sock' \in [P -> Socks]
  BY <1>3, FreedTyped, Zenon DEF CreditInv, Counted
<1>5. UNCHANGED next_alloc /\ (UNCHANGED by_alloc \/ Forget({p}))
  BY <1>2, Zenon DEF nat, Refused
<1>. QED BY <1>1, <1>4, <1>5, ForgetUnmaps, CreditQuiet, Zenon

LEMMA PullCredit ==
  ASSUME NInv, NInv', CreditInv, Pull
  PROVE  CreditInv'
<1>1. UNCHANGED <<credit, events, ev, spliced, conns, next_alloc, by_alloc>> /\ NatInv /\ NatInv'
  BY Zenon DEF Pull, nat, task, shared, NInv
<1>2. PICK p \in todo :
        \/ sock' = [sock EXCEPT ![p] = [sock[p] EXCEPT !.rx = sock[p].rx - 1]]
        \/ sock' = [sock EXCEPT ![p] = [sock[p] EXCEPT !.st = "closed"]]
        \/ UNCHANGED sock
  BY Zenon DEF Pull
<1>3. p \in P
  BY Zenon DEF NInv, LoopInv
<1>4. sock[p] \in Socks /\ sock \in [P -> Socks]
  BY <1>3, Zenon DEF CreditInv, Counted
<1>5. sock[p].rx - 1 \in Int
  BY <1>4 DEF Socks
<1>6. UNCHANGED sock \/ \E r \in Socks : sock' = [sock EXCEPT ![p] = r]
  <2>1. "closed" \in States
    BY DEF States
  <2>2. /\ [sock[p] EXCEPT !.rx = sock[p].rx - 1] \in Socks
        /\ [sock[p] EXCEPT !.st = "closed"] \in Socks
    BY <1>4, <1>5, <2>1, SockFields, Zenon
  <2>. QED BY <1>2, <2>2, Zenon
<1>7. sock' \in [P -> Socks]
  BY <1>4, <1>6, SockSet, Zenon
<1>. QED BY <1>1, <1>7, CreditQuiet, Zenon

\* The fields of a connection but one.
LEMMA PendSet ==
  ASSUME NEW r, Conn(r), NEW x, NEW n
  PROVE  /\ [r EXCEPT !.pend = n].pend = n
         /\ [r EXCEPT !.eof = x].pend = r.pend
         /\ [r EXCEPT !.fin = x].pend = r.pend
         /\ [r EXCEPT !.flow = x].pend = r.pend
  BY DEF Conn

LEMMA FinCredit ==
  ASSUME NInv, NInv', CreditInv, SendFin
  PROVE  CreditInv'
<1>1. /\ UNCHANGED <<credit, events, ev, spliced, next_alloc, by_alloc, sock>>
      /\ NatInv /\ NatInv' /\ ConnsTyped
  BY Zenon DEF SendFin, nat, task, shared, NInv
<1>2. PICK p \in P : p = cur /\ conns[p] # NoConn
  BY Zenon DEF SendFin, NInv, LoopInv
<1>3. conns' = [conns EXCEPT ![p] = [conns[p] EXCEPT !.fin = "yes"]]
  BY <1>2, Zenon DEF SendFin
<1>4. Conn(conns[p]) /\ P = DOMAIN conns
  BY <1>1, Zenon DEF ConnsTyped
<1>5. /\ conns'[p] # NoConn /\ conns'[p].pend = conns[p].pend
      /\ \A q \in P \ {p} : conns'[q] = conns[q]
  BY <1>2, <1>3, <1>4, FinKept, PendSet, Zenon
<1>6. sock' \in [P -> Socks] /\ next_alloc <= next_alloc'
  BY <1>1 DEF CreditInv, Counted, NatInv
<1>7. \A q \in P : conns'[q] = NoConn \/ (conns[q] # NoConn /\ conns'[q].pend = conns[q].pend)
  BY <1>2, <1>5, Zenon
<1>8. \A q \in P : conns[q] # NoConn => conns'[q] # NoConn
  BY <1>5, Zenon
<1>. QED BY <1>1, <1>6, <1>7, <1>8, CreditFrame, Zenon

\* A step that ends the connection of a port and its mapping.
LEMMA EndCredit ==
  ASSUME NInv, NInv', CreditInv, NEW p \in P, Freed(p), Forget({p}),
         conns' = [conns EXCEPT ![p] = NoConn],
         UNCHANGED <<credit, events, ev, spliced, next_alloc>>
  PROVE  CreditInv'
<1>1. NatInv /\ NatInv' /\ P = DOMAIN conns
  BY Zenon DEF NInv, ConnsTyped
<1>2. conns'[p] = NoConn /\ \A q \in P \ {p} : conns'[q] = conns[q]
  BY <1>1, Zenon
<1>3. by_alloc'[p] = NoCall /\ \A q \in P : by_alloc[q] = NoCall => by_alloc'[q] = NoCall
  BY <1>1, ForgetUnmaps, Zenon
<1>4. sock' \in [P -> Socks]
  BY FreedTyped, Zenon
<1>5. next_alloc <= next_alloc'
  BY <1>1 DEF NatInv
<1>6. \A q \in P : conns'[q] = NoConn \/ (conns[q] # NoConn /\ conns'[q].pend = conns[q].pend)
  BY <1>2, Zenon
<1>7. \A q \in P : conns[q] # NoConn /\ conns'[q] = NoConn => by_alloc'[q] = NoCall
  BY <1>2, <1>3, Zenon
<1>. QED BY <1>1, <1>3, <1>4, <1>5, <1>6, <1>7, CreditFrame, Zenon

LEMMA RemoveCredit ==
  ASSUME NInv, NInv', CreditInv, Remove
  PROVE  CreditInv'
<1>1. UNCHANGED <<credit, events, ev, spliced, next_alloc>>
  BY Zenon DEF Remove, task
<1>2. PICK p \in P : conns' = [conns EXCEPT ![p] = NoConn] /\ Freed(p) /\ Forget({p})
  BY Zenon DEF Remove
<1>. QED BY <1>1, <1>2, EndCredit, Zenon

\* An event that is consumed is no event of a port that was never spliced.
LEMMA UsedOnceKept ==
  ASSUME UsedOnce, UNCHANGED <<credit, ev, spliced, next_alloc>>,
         \A q \in P : (\A i \in DOMAIN events : events[i][1] # q) =>
                       \A i \in DOMAIN events' : events'[i][1] # q,
         \A q \in P : conns'[q] = NoConn => by_alloc'[q] = NoCall \/ conns[q] = NoConn,
         \A q \in P : conns[q] = NoConn => conns'[q] = NoConn,
         \A q \in P : by_alloc[q] = NoCall => by_alloc'[q] = NoCall
  PROVE  UsedOnce'
<1>1. \A q \in P : spliced'[q] # "none" =>
        q < next_alloc' /\ (conns'[q] = NoConn => by_alloc'[q] = NoCall)
  BY Zenon DEF UsedOnce
<1>2. \A q \in P : spliced'[q] = "none" =>
        conns'[q] = NoConn /\ credit'[q] = 0 /\ \A i \in DOMAIN events' : events'[i][1] # q
  BY Zenon DEF UsedOnce
<1>3. DOMAIN spliced' = P /\ \A q \in P : spliced'[q] # "emit" => ev'[q] = "none"
  BY Zenon DEF UsedOnce
<1>. QED BY <1>1, <1>2, <1>3, Zenon DEF UsedOnce

\* An event leaves the queue: its data joins the backlog of the connection.
LEMMA EventCredit ==
  ASSUME NInv, NInv', EventsTyped, CreditInv, Event
  PROVE  CreditInv'
<1>1. /\ UNCHANGED <<credit, ev, spliced, next_alloc>> /\ NatInv /\ NatInv' /\ ConnsTyped
      /\ events # <<>> /\ events' = Tail(events)
  BY Zenon DEF Event, nat, task, NInv, Forget
<1>2. events \in Seq(P \X Kinds)
  BY Zenon DEF EventsTyped
<1>3. Head(events) \in P \X Kinds
  BY <1>1, <1>2
<1>4. PICK p \in P, k \in Kinds : Head(events) = <<p, k>>
  BY <1>3
<1>5. Head(events)[1] = p /\ Head(events)[2] = k
  BY <1>4
<1>6. \A q \in P : Count(events', <<q, "data">>)
                     = IF Head(events) = <<q, "data">> THEN Count(events, <<q, "data">>) - 1
                       ELSE Count(events, <<q, "data">>)
  BY <1>1, <1>2, TailCount, Zenon
<1>7. \A q \in P : Count(events, <<q, "data">>) \in Nat
  BY <1>2, CountFinite, Zenon
<1>8. \A i \in DOMAIN events' : \E j \in DOMAIN events : events'[i] = events[j]
  <2>1. /\ Len(events) \in Nat \ {0} /\ DOMAIN events = 1..Len(events)
        /\ DOMAIN events' = 1..(Len(events) - 1)
        /\ \A i \in 1..(Len(events) - 1) : events'[i] = events[i + 1]
    BY <1>1, <1>2
  <2>2. \A i \in 1..(Len(events) - 1) : i + 1 \in 1..Len(events)
    BY <2>1
  <2>. QED BY <2>1, <2>2, Zenon
<1>9. \A q \in P : (\A i \in DOMAIN events : events[i][1] # q) =>
                     \A i \in DOMAIN events' : events'[i][1] # q
  BY <1>8, Zenon
<1>10. Conn(conns[p]) /\ P = DOMAIN conns
  BY <1>1, Zenon DEF ConnsTyped
<1>11. CASE conns[p] = NoConn /\ UNCHANGED <<nat, sock, conns>>
  <2>1. UsedOnce'
    BY <1>1, <1>9, <1>11, UsedOnceKept, Zenon DEF CreditInv, nat
  <2>2. Counted'
    BY <1>1, <1>11, Zenon DEF CreditInv, Counted
  <2>3. ASSUME NEW q \in P, conns'[q] # NoConn PROVE credit'[q] = Owed(q)'
    <3>1. Head(events) # <<q, "data">>
      BY <1>4, <1>11, <2>3
    <3>2. Count(events', <<q, "data">>) = Count(events, <<q, "data">>)
      BY <1>6, <3>1, Zenon
    <3>. QED BY <1>1, <1>11, <2>3, <3>2, Zenon DEF CreditInv, Owed
  <2>. QED BY <2>1, <2>2, <2>3, Zenon DEF CreditInv
<1>12. CASE /\ conns[p] # NoConn /\ k = "data" /\ UNCHANGED <<nat, sock>>
            /\ conns' = [conns EXCEPT ![p].pend = @ + 1]
  <2>1. conns' = [conns EXCEPT ![p] = [conns[p] EXCEPT !.pend = conns[p].pend + 1]]
    BY <1>12, Zenon
  <2>2. /\ conns'[p] # NoConn /\ conns'[p].pend = conns[p].pend + 1
        /\ \A q \in P \ {p} : conns'[q] = conns[q]
    <3>. DEFINE r == [conns[p] EXCEPT !.pend = conns[p].pend + 1]
    <3>1. r # NoConn
      BY <1>10, <1>12, PendKept, Zenon
    <3>3. r.pend = conns[p].pend + 1
      BY <1>10, PendSet, Zenon
    <3>2. conns' = [conns EXCEPT ![p] = r]
      BY <2>1, Zenon
    <3>. HIDE DEF r
    <3>. QED BY <1>10, <3>1, <3>2, <3>3, Zenon
  <2>3. UsedOnce'
    <3>1. \A q \in P : conns'[q] = NoConn => conns[q] = NoConn
      BY <2>2, Zenon
    <3>2. \A q \in P : conns[q] = NoConn => conns'[q] = NoConn
      BY <1>12, <2>2, Zenon
    <3>3. UsedOnce /\ UNCHANGED by_alloc
      BY <1>12, Zenon DEF CreditInv, nat
    <3>. QED BY <1>1, <1>9, <3>1, <3>2, <3>3, UsedOnceKept, Zenon
  <2>4. Counted'
    <3>1. conns[p].pend + 1 \in Int
      BY DEF CreditInv, Counted
    <3>2. \A q \in P : conns'[q].pend \in Int
      BY <2>2, <3>1, Zenon DEF CreditInv, Counted
    <3>. QED BY <1>1, <1>12, <3>2, Zenon DEF CreditInv, Counted
  <2>5. ASSUME NEW q \in P, conns'[q] # NoConn PROVE credit'[q] = Owed(q)'
    <3>1. CASE q = p
      <4>1. Count(events', <<p, "data">>) = Count(events, <<p, "data">>) - 1
        BY <1>4, <1>6, <1>12, Zenon
      <4>2. conns[p].pend \in Int /\ Count(events, <<p, "data">>) \in Nat
        BY <1>7, Zenon DEF CreditInv, Counted
      <4>3. PICK y \in {0, 1} : y = IF ev[p] = "data" THEN 1 ELSE 0
        BY Zenon
      <4>4. credit[p] = conns[p].pend + Count(events, <<p, "data">>) + y
        BY <1>12, <4>3, Zenon DEF CreditInv, Owed
      <4>5. Owed(p)' = conns'[p].pend + Count(events', <<p, "data">>) + y
        BY <1>1, <4>3, Zenon DEF Owed
      <4>6. (conns[p].pend + 1) + (Count(events, <<p, "data">>) - 1) + y
              = conns[p].pend + Count(events, <<p, "data">>) + y
        BY <4>2
      <4>. QED BY <1>1, <2>2, <3>1, <4>1, <4>4, <4>5, <4>6, Zenon
    <3>2. CASE q # p
      <4>1. Head(events) # <<q, "data">>
        BY <1>4, <3>2
      <4>2. Count(events', <<q, "data">>) = Count(events, <<q, "data">>)
        BY <1>6, <4>1, Zenon
      <4>. QED BY <1>1, <2>2, <2>5, <3>2, <4>2, Zenon DEF CreditInv, Owed
    <3>. QED BY <3>1, <3>2, Zenon
  <2>. QED BY <2>3, <2>4, <2>5, Zenon DEF CreditInv
<1>13. CASE /\ conns[p] # NoConn /\ k # "data"
            /\ \/ conns' = [conns EXCEPT ![p].eof = "yes"] /\ UNCHANGED <<nat, sock>>
               \/ conns' = [conns EXCEPT ![p] = NoConn] /\ Freed(p) /\ Forget({p})
  <2>1. \A q \in P : Count(events', <<q, "data">>) = Count(events, <<q, "data">>)
    <3>1. \A q \in P : Head(events) # <<q, "data">>
      BY <1>4, <1>13
    <3>. QED BY <1>6, <3>1, Zenon
  <2>2. /\ \A q \in P \ {p} : conns'[q] = conns[q]
        /\ conns'[p] = NoConn \/ (conns'[p] # NoConn /\ conns'[p].pend = conns[p].pend)
    <3>1. CASE conns' = [conns EXCEPT ![p].eof = "yes"]
      <4>1. conns' = [conns EXCEPT ![p] = [conns[p] EXCEPT !.eof = "yes"]]
        BY <3>1, Zenon
      <4>. QED BY <1>10, <1>13, <4>1, EofKept, PendSet, Zenon
    <3>2. CASE conns' = [conns EXCEPT ![p] = NoConn]
      BY <1>10, <3>2, Zenon
    <3>. QED BY <1>13, <3>1, <3>2, Zenon
  <2>3. /\ \A q \in P : by_alloc[q] = NoCall => by_alloc'[q] = NoCall
        /\ conns'[p] = NoConn => by_alloc'[p] = NoCall
    <3>1. CASE conns' = [conns EXCEPT ![p].eof = "yes"] /\ UNCHANGED nat
      <4>1. conns' = [conns EXCEPT ![p] = [conns[p] EXCEPT !.eof = "yes"]]
        BY <3>1, Zenon
      <4>2. conns'[p] # NoConn
        BY <1>10, <1>13, <4>1, EofKept, Zenon
      <4>. QED BY <3>1, <4>2, Zenon DEF nat
    <3>2. CASE Forget({p})
      BY <1>1, <3>2, ForgetUnmaps, Zenon
    <3>. QED BY <1>13, <3>1, <3>2, Zenon
  <2>4. UsedOnce'
    <3>1. \A q \in P : conns'[q] = NoConn => by_alloc'[q] = NoCall \/ conns[q] = NoConn
      BY <2>2, <2>3, Zenon
    <3>2. \A q \in P : conns[q] = NoConn => conns'[q] = NoConn
      BY <1>13, <2>2, Zenon
    <3>. QED BY <1>1, <1>9, <2>3, <3>1, <3>2, UsedOnceKept, Zenon DEF CreditInv
  <2>5. Counted'
    <3>1. NoConn.pend \in Int
      BY DEF NoConn
    <3>2. \A q \in P : conns'[q].pend \in Int
      BY <2>2, <3>1, Zenon DEF CreditInv, Counted
    <3>3. sock' \in [P -> Socks]
      BY <1>13, FreedTyped, Zenon DEF CreditInv, Counted
    <3>. QED BY <1>1, <3>2, <3>3, Zenon DEF CreditInv, Counted
  <2>6. ASSUME NEW q \in P, conns'[q] # NoConn PROVE credit'[q] = Owed(q)'
    <3>1. conns[q] # NoConn /\ conns'[q].pend = conns[q].pend
      BY <1>13, <2>2, <2>6, Zenon
    <3>. QED BY <1>1, <2>1, <3>1, Zenon DEF CreditInv, Owed
  <2>. QED BY <2>4, <2>5, <2>6, Zenon DEF CreditInv
<1>. QED
  <2>1. k = "data" => k # "eof" /\ k # "fail"
    OBVIOUS
  <2>. QED BY <1>5, <1>11, <1>12, <1>13, <2>1, Zenon DEF Event

\* A spliced connection starts with nothing read.
LEMMA CommitCredit ==
  ASSUME NInv, NInv', EventsTyped, CreditInv, Commit
  PROVE  CreditInv'
<1>1. /\ UNCHANGED <<credit, events, ev>> /\ NatInv /\ NatInv' /\ ConnsTyped
      /\ pc = "commit"
  BY Zenon DEF Commit, NInv
<1>2. PICK p \in P : p = cur /\ conns[p] = NoConn /\ by_alloc[p] \in Calls
  BY <1>1, Zenon DEF NInv, LoopInv
<1>3. CASE sink # "up"
  <2>1. Refused(p) /\ UNCHANGED <<conns, spliced>>
    BY <1>2, <1>3, Zenon DEF Commit
  <2>2. Freed(p) /\ Forget({p}) /\ UNCHANGED next_alloc
    BY <2>1, Zenon DEF Refused
  <2>3. sock' \in [P -> Socks]
    BY <2>2, FreedTyped, Zenon
  <2>. QED BY <1>1, <2>1, <2>2, <2>3, ForgetUnmaps, CreditQuiet, Zenon
<1>4. CASE sink = "up"
  <2>1. /\ conns' = [conns EXCEPT ![p] = [conns[p] EXCEPT !.flow = by_alloc[p]]]
        /\ spliced' = [spliced EXCEPT ![p] = "dial"]
        /\ UNCHANGED <<nat, sock>>
    BY <1>2, <1>4, Zenon DEF Commit
  <2>2. UNCHANGED <<by_alloc, next_alloc>>
    BY <2>1, Zenon DEF nat
  <2>3. p < next_alloc /\ spliced[p] = "none"
    <3>1. by_alloc[p] # NoCall
      BY <1>2, RouteTyped, Zenon
    <3>. QED BY <1>1, <1>2, <3>1, Zenon DEF NatInv, CreditInv, UsedOnce
  <2>4. P = DOMAIN conns /\ P = DOMAIN spliced /\ Conn(conns[p])
    BY <1>1, Zenon DEF ConnsTyped, CreditInv, UsedOnce
  <2>5. /\ conns'[p] # NoConn /\ conns'[p].pend = conns[p].pend
        /\ \A q \in P \ {p} : conns'[q] = conns[q]
    <3>. DEFINE r == [conns[p] EXCEPT !.flow = by_alloc[p]]
    <3>1. r # NoConn
      BY <1>2, FlowSet, Zenon
    <3>2. r.pend = conns[p].pend
      BY <2>4, PendSet, Zenon
    <3>3. conns' = [conns EXCEPT ![p] = r]
      BY <2>1, Zenon
    <3>. HIDE DEF r
    <3>. QED BY <2>4, <3>1, <3>2, <3>3, Zenon
  <2>6. /\ spliced'[p] = "dial" /\ DOMAIN spliced' = P
        /\ \A q \in P \ {p} : spliced'[q] = spliced[q]
    BY <2>1, <2>4, Zenon
  <2>7. UsedOnce'
    <3>1. ev[p] = "none"
      BY <2>3 DEF CreditInv, UsedOnce
    <3>2. \A q \in P : spliced'[q] # "none" =>
            q < next_alloc /\ (conns'[q] = NoConn => by_alloc[q] = NoCall)
      BY <2>3, <2>5, <2>6, Zenon DEF CreditInv, UsedOnce
    <3>3. \A q \in P : spliced'[q] = "none" =>
            conns'[q] = NoConn /\ credit[q] = 0 /\ \A i \in DOMAIN events : events[i][1] # q
      <4>1. \A q \in P : spliced'[q] = "none" => spliced[q] = "none" /\ conns'[q] = conns[q]
        BY <2>5, <2>6
      <4>. QED BY <4>1, Zenon DEF CreditInv, UsedOnce
    <3>4. \A q \in P : spliced'[q] # "emit" => ev[q] = "none"
      BY <2>6, <3>1, Zenon DEF CreditInv, UsedOnce
    <3>. QED BY <1>1, <2>2, <2>6, <3>2, <3>3, <3>4, Zenon DEF UsedOnce
  <2>8. Counted'
    <3>1. \A q \in P : conns'[q].pend = conns[q].pend
      BY <2>5, Zenon
    <3>. QED BY <1>1, <2>1, <3>1, Zenon DEF CreditInv, Counted
  <2>9. ASSUME NEW q \in P, conns'[q] # NoConn PROVE credit'[q] = Owed(q)'
    <3>1. CASE q # p
      BY <1>1, <2>5, <2>9, <3>1, Zenon DEF CreditInv, Owed
    <3>2. CASE q = p
      <4>1. /\ ev[p] = "none" /\ credit[p] = 0
            /\ \A i \in DOMAIN events : events[i][1] # p
        BY <2>3 DEF CreditInv, UsedOnce
      <4>2. {i \in DOMAIN events : events[i] = <<p, "data">>} = {}
        BY <4>1
      <4>3. Count(events, <<p, "data">>) = 0
        BY <4>2, FS_EmptySet, Zenon DEF Count
      <4>4. conns'[p].pend = 0
        BY <1>2, <2>5 DEF NoConn
      <4>5. Owed(p)' = 0 + 0 + 0
        BY <1>1, <4>1, <4>3, <4>4 DEF Owed
      <4>. QED BY <1>1, <3>2, <4>1, <4>5
    <3>. QED BY <3>1, <3>2, Zenon
  <2>. QED BY <2>7, <2>8, <2>9, Zenon DEF CreditInv
<1>. QED BY <1>3, <1>4, Zenon

\* What the pump moves leaves the backlog and the credit together.
LEMMA MoveCredit ==
  ASSUME NInv, NInv', EventsTyped, CreditInv, Move
  PROVE  CreditInv'
<1>1. UNCHANGED <<events, ev, spliced, next_alloc, by_alloc>> /\ NatInv /\ ConnsTyped
  BY Zenon DEF Move, nat, task, NInv
<1>2. PICK p \in P : p = cur /\ conns[p] # NoConn
  BY Zenon DEF Move, NInv, LoopInv
<1>3. /\ sock[p] \in Socks /\ sock[p].tx \in Int /\ conns[p].pend \in Int /\ credit[p] \in Int
      /\ P = DOMAIN credit /\ P = DOMAIN conns /\ Conn(conns[p])
  BY <1>1, Zenon DEF CreditInv, Counted, ConnsTyped, Socks
<1>. DEFINE m == IF MaySend(p) THEN Min({conns[p].pend, BufCap - sock[p].tx}) ELSE 0
            closes == conns[p].eof = "yes" /\ conns[p].pend - m = 0 /\ MaySend(p)
<1>4. m \in Int
  <2>. DEFINE b == BufCap - sock[p].tx
              S == {conns[p].pend, b}
  <2>1. b \in Int
    BY <1>3, PortsTyped
  <2>2. \E x \in S : \A y \in S : x <= y
    <3>. HIDE DEF b
    <3>. QED BY <1>3, <2>1
  <2>3. S \subseteq Int
    BY <1>3, <2>1, Zenon
  <2>. HIDE DEF S
  <2>4. Min(S) \in Int
    BY <2>2, <2>3, Zenon DEF Min
  <2>. QED BY <2>4 DEF S
<1>5. /\ conns' = [conns EXCEPT ![p] = [conns[p] EXCEPT !.pend = conns[p].pend - m]]
      /\ credit' = [credit EXCEPT ![p] = credit[p] - m]
      /\ sock' = [sock EXCEPT ![p].tx = @ + m,
                              ![p].st = IF ~closes THEN @
                                        ELSE IF @ = "open" THEN "finwait" ELSE "lastack"]
  BY <1>2, Zenon DEF Move, Released
<1>6. sock' \in [P -> Socks]
  <2>. HIDE DEF m, closes
  <2>1. sock[p].tx + m \in Int /\ sock \in [P -> Socks]
    BY <1>3, <1>4 DEF CreditInv, Counted
  <2>2. \A x \in States : (IF ~closes THEN x ELSE IF x = "open" THEN "finwait" ELSE "lastack") \in States
    BY Zenon DEF States
  <2>. QED BY <1>3, <1>5, <2>1, <2>2, Zenon DEF Socks
<1>. HIDE DEF m, closes
<1>7. credit'[p] = credit[p] - m /\ \A q \in P \ {p} : credit'[q] = credit[q]
  BY <1>3, <1>5, Zenon
<1>8. /\ conns'[p] # NoConn /\ conns'[p].pend = conns[p].pend - m
      /\ \A q \in P \ {p} : conns'[q] = conns[q]
  <2>. DEFINE r == [conns[p] EXCEPT !.pend = conns[p].pend - m]
  <2>1. r # NoConn
    BY <1>2, <1>3, PendKept, Zenon
  <2>2. r.pend = conns[p].pend - m
    BY <1>3, PendSet, Zenon
  <2>3. conns' = [conns EXCEPT ![p] = r]
    BY <1>5, Zenon
  <2>. HIDE DEF r
  <2>. QED BY <1>3, <2>1, <2>2, <2>3, Zenon
<1>9. UsedOnce'
  <2>1. spliced[p] # "none"
    BY <1>2, Zenon DEF CreditInv, UsedOnce
  <2>2. \A q \in P : (conns'[q] = NoConn <=> conns[q] = NoConn) /\ (q # p => credit'[q] = credit[q])
    BY <1>2, <1>7, <1>8, Zenon
  <2>. QED BY <1>1, <2>1, <2>2, Zenon DEF CreditInv, UsedOnce
<1>10. Counted'
  <2>1. credit[p] - m \in Int /\ conns[p].pend - m \in Int
    BY <1>3, <1>4
  <2>2. credit' \in [P -> Int]
    BY <1>5, <2>1, Zenon DEF CreditInv, Counted
  <2>3. \A q \in P : conns'[q].pend \in Int
    BY <1>8, <2>1, Zenon DEF CreditInv, Counted
  <2>. QED BY <1>6, <2>2, <2>3, Zenon DEF Counted
<1>11. ASSUME NEW q \in P, conns'[q] # NoConn PROVE credit'[q] = Owed(q)'
  <2>1. CASE q # p
    BY <1>1, <1>7, <1>8, <1>11, <2>1, Zenon DEF CreditInv, Owed
  <2>2. CASE q = p
    <3>1. PICK n \in Nat : n = Count(events, <<p, "data">>)
      BY CountFinite, Zenon DEF EventsTyped
    <3>2. PICK y \in {0, 1} : y = IF ev[p] = "data" THEN 1 ELSE 0
      BY Zenon
    <3>3. credit[p] = conns[p].pend + n + y
      BY <1>2, <3>1, <3>2, Zenon DEF CreditInv, Owed
    <3>4. Owed(p)' = conns'[p].pend + n + y
      BY <1>1, <3>1, <3>2, Zenon DEF Owed
    <3>5. credit[p] - m = (conns[p].pend - m) + n + y
      BY <1>3, <1>4, <3>3
    <3>. QED BY <1>7, <1>8, <2>2, <3>4, <3>5, Zenon
  <2>. QED BY <2>1, <2>2, Zenon
<1>. QED BY <1>9, <1>10, <1>11, Zenon DEF CreditInv

\* What a step of the backend of p does to the credit: nothing, or it reads a
\* unit and has its event in hand, or it sends the event.
Reads(p) == credit' = [credit EXCEPT ![p] = credit[p] + 1] /\ ev' = [ev EXCEPT ![p] = "data"]
Sends(p) == events' = Append(events, <<p, ev[p]>>) /\ ev' = [ev EXCEPT ![p] = "none"]
Other(p) == ev' = ev \/ ev' = [ev EXCEPT ![p] = "eof"] \/ ev' = [ev EXCEPT ![p] = "fail"]

BackendEffect(p) ==
  /\ spliced[p] # "none"
  /\ \E x : spliced' = [spliced EXCEPT ![p] = x] /\ x # "none" /\ (x # "emit" => ev'[p] = "none")
  /\ \/ spliced[p] # "emit" /\ Reads(p) /\ UNCHANGED events
     \/ Sends(p) /\ UNCHANGED credit
     \/ spliced[p] # "emit" /\ Other(p) /\ UNCHANGED <<events, credit>>

LEMMA BackendEffects ==
  ASSUME EventsTyped, CreditInv, NEW p \in P, Backend(p)
  PROVE  BackendEffect(p)
<1>1. DOMAIN ev = P /\ (spliced[p] # "emit" => ev[p] = "none")
  BY Zenon DEF EventsTyped, CreditInv, UsedOnce
<1>2. CASE TcpConnect(p)
  BY <1>1, <1>2, Zenon DEF TcpConnect, Task, Sending, BackendEffect, Other, shared
<1>3. CASE Check(p)
  BY <1>1, <1>3, Zenon DEF Check, Task, BackendEffect, Other, shared
<1>4. CASE Enable(p)
  BY <1>1, <1>4, Zenon DEF Enable, Task, BackendEffect, Other
<1>5. CASE Recheck(p)
  BY <1>1, <1>5, Zenon DEF Recheck, Task, BackendEffect, Other
<1>6. CASE Resume(p)
  BY <1>1, <1>6, Zenon DEF Resume, Task, BackendEffect, Other
<1>7. CASE Read(p)
  BY <1>1, <1>7, Zenon DEF Read, Task, Sending, BackendEffect, Other, Reads
<1>8. CASE Recv(p)
  BY <1>1, <1>8, Zenon DEF Recv, Task, Sending, BackendEffect, Other
<1>9. CASE Emit(p)
  BY <1>1, <1>9, Zenon DEF Emit, Task, BackendEffect, Sends, shared
<1>. QED BY <1>2, <1>3, <1>4, <1>5, <1>6, <1>7, <1>8, <1>9, Zenon DEF Backend

\* A unit is counted when it is read, and stays counted while its event is in
\* hand, in the queue and in the backlog.
LEMMA BackendCredit ==
  ASSUME NInv, EventsTyped, EventsTyped', CreditInv, Backends
  PROVE  CreditInv'
<1>1. PICK p \in P : Backend(p)
  BY Zenon DEF Backends
<1>2. UNCHANGED <<conns, sock, by_alloc, next_alloc>>
  BY <1>1, Zenon DEF Backend, nat
<1>3. BackendEffect(p)
  BY <1>1, BackendEffects, Zenon
<1>4. PICK x : /\ spliced' = [spliced EXCEPT ![p] = x] /\ x # "none"
               /\ x # "emit" => ev'[p] = "none"
  BY <1>3, Zenon DEF BackendEffect
<1>5. P = DOMAIN spliced /\ P = DOMAIN ev /\ P = DOMAIN credit /\ UsedOnce /\ Counted
  BY Zenon DEF CreditInv, UsedOnce, Counted, EventsTyped
<1>6. spliced'[p] = x /\ DOMAIN spliced' = P /\ \A q \in P \ {p} : spliced'[q] = spliced[q]
  BY <1>4, <1>5, Zenon
<1>7. /\ spliced[p] # "none"
      /\ \/ spliced[p] # "emit" /\ Reads(p) /\ UNCHANGED events
         \/ Sends(p) /\ UNCHANGED credit
         \/ spliced[p] # "emit" /\ Other(p) /\ UNCHANGED <<events, credit>>
  BY <1>3, Zenon DEF BackendEffect
<1>8. \A q \in P \ {p} : ev'[q] = ev[q] /\ credit'[q] = credit[q]
  BY <1>5, <1>7, Zenon DEF Reads, Sends, Other
<1>9. events \in Seq(P \X Kinds) /\ <<p, ev[p]>> \in P \X Kinds
  <2>1. events \in Seq(P \X Kinds) /\ ev[p] \in Kinds
    BY Zenon DEF EventsTyped
  <2>. QED BY <2>1, Zenon
<1>10. events' = events \/ events' = Append(events, <<p, ev[p]>>)
  BY <1>7, Zenon DEF Sends
<1>11. \A q \in P \ {p} : (\A i \in DOMAIN events : events[i][1] # q) =>
                            \A i \in DOMAIN events' : events'[i][1] # q
  <2>1. CASE events' = events
    BY <2>1, Zenon
  <2>2. CASE events' = Append(events, <<p, ev[p]>>)
    <3>1. /\ Len(events) \in Nat /\ DOMAIN events = 1..Len(events)
          /\ DOMAIN events' = 1..(Len(events) + 1)
          /\ \A i \in 1..Len(events) : events'[i] = events[i]
          /\ events'[Len(events) + 1] = <<p, ev[p]>>
      BY <1>9, <2>2
    <3>2. \A i \in DOMAIN events' : i \in DOMAIN events \/ i = Len(events) + 1
      BY <3>1
    <3>3. events'[Len(events) + 1][1] = p
      BY <3>1
    <3>. QED BY <3>1, <3>2, <3>3, Zenon
  <2>. QED BY <1>10, <2>1, <2>2, Zenon
<1>12. UsedOnce'
  <2>1. \A q \in P : spliced'[q] # "none" =>
          q < next_alloc /\ (conns[q] = NoConn => by_alloc[q] = NoCall)
    BY <1>5, <1>6, <1>7, Zenon DEF UsedOnce
  <2>2. \A q \in P : spliced'[q] = "none" => q # p /\ spliced[q] = "none"
    BY <1>4, <1>6, Zenon
  <2>3. \A q \in P : spliced'[q] = "none" =>
          conns[q] = NoConn /\ credit'[q] = 0 /\ \A i \in DOMAIN events' : events'[i][1] # q
    BY <1>5, <1>8, <1>11, <2>2, Zenon DEF UsedOnce
  <2>4. \A q \in P : spliced'[q] # "emit" => ev'[q] = "none"
    BY <1>4, <1>5, <1>6, <1>8, Zenon DEF UsedOnce
  <2>. QED BY <1>2, <1>6, <2>1, <2>3, <2>4, Zenon DEF UsedOnce
<1>13. Counted'
  <2>1. credit[p] + 1 \in Int
    BY <1>5 DEF Counted
  <2>2. credit' \in [P -> Int]
    BY <1>5, <1>7, <2>1, Zenon DEF Counted, Reads
  <2>. QED BY <1>2, <1>5, <2>2, Zenon DEF Counted
<1>14. \A q \in P : Count(events', <<q, "data">>)
                      = IF events' # events /\ <<p, ev[p]>> = <<q, "data">>
                          THEN Count(events, <<q, "data">>) + 1 ELSE Count(events, <<q, "data">>)
  <2>1. CASE events' = events
    BY <2>1, Zenon
  <2>2. CASE events' # events
    <3>1. events' = Append(events, <<p, ev[p]>>)
      BY <1>10, <2>2, Zenon
    <3>2. \A q \in P : Count(events', <<q, "data">>)
                      = IF <<p, ev[p]>> = <<q, "data">>
                          THEN Count(events, <<q, "data">>) + 1 ELSE Count(events, <<q, "data">>)
      <4>1. PICK e \in P \X Kinds : e = <<p, ev[p]>>
        BY <1>9, Zenon
      <4>2. \A d : Count(Append(events, e), d) = IF e = d THEN Count(events, d) + 1 ELSE Count(events, d)
        <5>. DEFINE E == P \X Kinds
        <5>1. events \in Seq(E) /\ e \in E
          BY <1>9, Zenon
        <5>. HIDE DEF E
        <5>. QED BY <5>1, AppendCount, Zenon
      <4>3. events' = Append(events, e)
        BY <3>1, <4>1, Zenon
      <4>. QED BY <4>1, <4>2, <4>3
    <3>. QED BY <2>2, <3>2, Zenon
  <2>. QED BY <2>1, <2>2, Zenon
<1>15. ASSUME NEW q \in P, conns'[q] # NoConn PROVE credit'[q] = Owed(q)'
  <2>1. credit[q] = Owed(q)
    BY <1>2, <1>15, Zenon DEF CreditInv
  <2>2. CASE q # p
    <3>1. <<p, ev[p]>> # <<q, "data">>
      BY <2>2
    <3>2. Count(events', <<q, "data">>) = Count(events, <<q, "data">>)
      BY <1>14, <3>1, Zenon
    <3>3. credit'[q] = credit[q] /\ ev'[q] = ev[q]
      BY <1>8, <2>2, Zenon
    <3>. QED BY <1>2, <2>1, <3>2, <3>3, Zenon DEF Owed
  <2>3. CASE q = p
    <3>1. PICK n \in Nat : n = Count(events, <<p, "data">>)
      BY <1>9, CountFinite, Zenon
    <3>2. PICK b \in Int : b = conns[p].pend
      BY <1>5, Zenon DEF Counted
    <3>3. credit[p] = b + n + (IF ev[p] = "data" THEN 1 ELSE 0)
      BY <2>1, <2>3, <3>1, <3>2, Zenon DEF Owed
    <3>4. Owed(p)' = b + Count(events', <<p, "data">>) + (IF ev'[p] = "data" THEN 1 ELSE 0)
      BY <1>2, <3>2, Zenon DEF Owed
    <3>5. CASE spliced[p] # "emit" /\ Reads(p) /\ UNCHANGED events
      <4>1. /\ ev[p] = "none" /\ ev'[p] = "data" /\ credit'[p] = credit[p] + 1
        BY <1>5, <3>5, Zenon DEF UsedOnce, Reads
      <4>2. credit[p] = b + n + 0
        BY <3>3, <4>1
      <4>3. Owed(p)' = b + n + 1
        BY <3>1, <3>4, <3>5, <4>1, Zenon
      <4>. QED BY <2>3, <4>1, <4>2, <4>3
    <3>6. CASE Sends(p) /\ UNCHANGED credit
      <4>1. ev'[p] = "none" /\ events' = Append(events, <<p, ev[p]>>)
        BY <1>5, <3>6, Zenon DEF Sends
      <4>6. events' # events
        BY <1>9, <4>1
      <4>2. Count(events', <<p, "data">>) = IF <<p, ev[p]>> = <<p, "data">> THEN n + 1 ELSE n
        BY <1>14, <3>1, <4>6, Zenon
      <4>3. <<p, ev[p]>> = <<p, "data">> <=> ev[p] = "data"
        OBVIOUS
      <4>4. "none" # "data"
        OBVIOUS
      <4>5. Owed(p)' = b + (IF ev[p] = "data" THEN n + 1 ELSE n) + 0
        BY <3>4, <4>1, <4>2, <4>3, <4>4, Zenon
      <4>. QED BY <2>3, <3>3, <3>6, <4>5
    <3>7. CASE spliced[p] # "emit" /\ Other(p) /\ UNCHANGED <<events, credit>>
      <4>1. ev[p] # "data" /\ ev'[p] # "data"
        <5>1. ev[p] = "none"
          BY <1>5, <3>7, Zenon DEF UsedOnce
        <5>2. ev'[p] \in {"none", "eof", "fail"}
          BY <1>5, <3>7, <5>1, Zenon DEF Other
        <5>. QED BY <5>1, <5>2
      <4>. QED BY <2>3, <3>1, <3>3, <3>4, <3>7, <4>1, Zenon
    <3>. QED BY <1>7, <3>5, <3>6, <3>7, Zenon
  <2>. QED BY <2>2, <2>3, Zenon
<1>. QED BY <1>12, <1>13, <1>15, Zenon DEF CreditInv

LEMMA CreditStep == NInv /\ EventsTyped /\ CreditInv /\ [Next]_vars /\ NInv' /\ EventsTyped' => CreditInv'
  BY OtherCredit, SynInCredit, SegmentCredit, EventCredit, PollCredit, AcceptCredit, CommitCredit,
     PullCredit, FinCredit, MoveCredit, RemoveCredit, BackendCredit, Zenon DEF Next, Loop

\* FlowCredit of stack/backend.rs: whatever the backend and the pump do in
\* between, the credit of a connection is what its backend has read and the
\* pump has not moved: the backlog, the events queued and the one in hand.
THEOREM CreditCounted == Spec => []CreditExact
<1>1. CreditInv => CreditExact
  BY Zenon DEF CreditInv, CreditExact, Owed, Count
<1>2. Init => CreditInv
  BY CreditInit, Zenon
<1>. QED BY <1>1, <1>2, CreditStep, NInvCorrect, PTL DEF Spec
================================================================================
