------------------------------- MODULE Namespaced -------------------------------
(***************************************************************************)
(* The egress proxy of a network namespace (src/warden/namespaced): the    *)
(* loop of the TCP stack translates the flows of the workload, judges      *)
(* each new connection on the grants of the DNS gate (flow_gate.rs),       *)
(* records it and splices it to a backend task that dials the destination. *)
(*                                                                         *)
(* The loop and the backends run on several threads.  They share the       *)
(* channel of a connection, the channel of the events, and the credit of   *)
(* the connection with its Notify.  A step of the loop ends where it has   *)
(* touched one of them or waits for the audit log.                         *)
(*                                                                         *)
(* A call is a flow, one 4-tuple of the workload.  A translated port is    *)
(* used once: the cursor does not wrap within the bound.  Data is counted  *)
(* in units, the size of one read.                                         *)
(***************************************************************************)
EXTENDS EgressEnv, Sequences, FiniteSetsExt

CONSTANTS Ports,       \* the translated ports, 1..Ports
          MaxMappings, \* MAX_NAT_MAPPINGS
          Deadline,    \* NAT_ASSOCIATE_DEADLINE, in ticks
          ListenPool,  \* LISTEN_POOL
          MaxFlows,    \* MAX_TCP_FLOWS
          ChanCap,     \* BACKEND_CHANNEL
          EventsCap,   \* EVENTS_CHANNEL
          PendingCap,  \* CONN_PENDING_CAP
          BufCap       \* SOCK_BUF, of each direction

ASSUME PortsTyped == Ports \in Nat /\ BufCap \in Nat

VARIABLES tcp,      \* a flow as the workload sees it
          load,     \* the units the workload has still to send
          supply,   \* the units the remote of a port has still to send
          by_flow, by_alloc, next_alloc, minted, associated, \* the NAT table
          sock,     \* the socket of the stack at a port
          conns,    \* the connection at a port
          pc, cur, todo, \* the loop, and the ports it has still to serve
          flow_basis, \* what the verdict on a flow rested on
          events,   \* the events of the backends, <<port, kind>>
          spliced,  \* the backend task of a port
          ev,       \* the event it is sending
          chan,     \* its channel
          sender,   \* the sender of the channel, owned by the connection
          shut,     \* the ports whose backend has shut down its writing side
          credit, permit, waiter \* FlowCredit: the bytes, and the Notify

workload == <<tcp, load, supply>>
nat == <<by_flow, by_alloc, next_alloc, minted, associated>>
loop == <<pc, cur, todo, flow_basis>>
task == <<spliced, ev, shut>>
notify == <<permit, waiter>>
shared == <<chan, sender, credit, notify>>
rest == <<env, sink, dest, judged, stop, records>>
nvars == <<workload, nat, sock, conns, loop, events, task, shared>>
vars == <<rest, nvars>>

P == 1..Ports
NoSock == [st |-> "none", rx |-> 0, tx |-> 0]
NoConn == [flow |-> NoCall, pend |-> 0, eof |-> "no", fin |-> "no"]

\* The proxy before the first packet.
Fresh ==
  /\ pc = "top" /\ cur = 0 /\ todo = {} /\ flow_basis = [c \in Calls |-> "none"]
  /\ by_flow = [c \in Calls |-> 0] /\ by_alloc = [p \in P |-> NoCall] /\ next_alloc = 1
  /\ minted = [p \in P |-> 0] /\ associated = {}
  /\ sock = [p \in P |-> NoSock] /\ conns = [p \in P |-> NoConn] /\ events = <<>>
  /\ spliced = [p \in P |-> "none"] /\ ev = [p \in P |-> "none"] /\ shut = {}
  /\ chan = [p \in P |-> <<>>] /\ sender = [p \in P |-> "none"]
  /\ credit = [p \in P |-> 0] /\ permit = [p \in P |-> 0] /\ waiter = [p \in P |-> "no"]

Init ==
  /\ EnvInit /\ RouteInit /\ Fresh /\ tcp \in [Calls -> {"idle", "never"}]
  /\ load \in [Calls -> 0..ChanCap + 1] /\ supply \in [P -> 0..PendingCap + 1]

Outside == (Gate \/ SinkFails) /\ UNCHANGED nvars

--------------------------------------------------------------------------------
(* The NAT table (nat.rs).                                                 *)

Mapped == {p \in P : by_alloc[p] # NoCall}

\* reap_expired: minted, never associated, past the deadline.
Stale == {p \in Mapped \ associated : now - minted[p] > Deadline}

\* remove, of a set of ports
Forget(S) ==
  /\ by_flow' = [c \in Calls |-> IF by_flow[c] \in S THEN 0 ELSE by_flow[c]]
  /\ by_alloc' = [p \in P |-> IF p \in S THEN NoCall ELSE by_alloc[p]]
  /\ minted' = [p \in P |-> IF p \in S THEN 0 ELSE minted[p]]
  /\ associated' = associated \ S

\* The workload connects.
Dial ==
  /\ \E c \in Calls, a \in Dests :
       /\ tcp[c] = "idle" /\ tcp' = [tcp EXCEPT ![c] = "syn"] /\ dest' = [dest EXCEPT ![c] = a]
  /\ UNCHANGED <<env, sink, judged, stop, records, load, supply, nat, sock, conns, loop,
                 events, task, shared>>

\* dnat_in of a SYN, first or repeated: a known flow keeps its port; for a new
\* one a full table is reaped once, and refuses if it is still full.
SynIn ==
  /\ pc = "top" /\ events = <<>>
  /\ \E c \in Calls :
       /\ tcp[c] = "syn"
       /\ LET old == by_flow[c]
              full == Cardinality(Mapped) >= MaxMappings
              reaped == IF full THEN Stale ELSE {}
          IN \/ /\ old # 0 /\ sock[old] = NoSock
                /\ sock' = [sock EXCEPT ![old].st = "syn"] /\ UNCHANGED nat
             \/ /\ old = 0 /\ Cardinality(Mapped \ reaped) >= MaxMappings
                /\ Forget(reaped) /\ UNCHANGED <<next_alloc, sock>>
             \/ /\ old = 0 /\ Cardinality(Mapped \ reaped) < MaxMappings /\ next_alloc <= Ports
                /\ by_flow' = [d \in Calls |-> IF d = c THEN next_alloc
                                               ELSE IF by_flow[d] \in reaped THEN 0 ELSE by_flow[d]]
                /\ by_alloc' = [p \in P |-> IF p = next_alloc THEN c
                                            ELSE IF p \in reaped THEN NoCall ELSE by_alloc[p]]
                /\ minted' = [p \in P |-> IF p = next_alloc THEN now
                                          ELSE IF p \in reaped THEN 0 ELSE minted[p]]
                /\ next_alloc' = next_alloc + 1
                /\ sock' = [sock EXCEPT ![next_alloc].st = "syn"] /\ UNCHANGED associated
  /\ UNCHANGED <<rest, workload, conns, loop, events, task, shared>>

\* Segments of an established flow, through its mapping: data, an
\* acknowledgement of what the stack sent, a FIN, a RST.
Segment ==
  /\ pc = "top" /\ events = <<>>
  /\ \E p \in Mapped :
       LET c == by_alloc[p]
           s == sock[p]
       IN \/ /\ s.st \in {"open", "finwait"} /\ load[c] > 0 /\ s.rx < BufCap
             /\ load' = [load EXCEPT ![c] = @ - 1] /\ sock' = [sock EXCEPT ![p].rx = @ + 1]
             /\ UNCHANGED tcp
          \/ /\ s.tx > 0 /\ s.st # "closed" /\ sock' = [sock EXCEPT ![p].tx = @ - 1]
             /\ UNCHANGED <<tcp, load>>
          \/ /\ load[c] = 0 /\ s.st = "open" /\ sock' = [sock EXCEPT ![p].st = "closewait"]
             /\ UNCHANGED <<tcp, load>>
          \/ /\ s.tx = 0
             /\ s.st = "lastack" \/ (s.st = "finwait" /\ load[c] = 0)
             /\ sock' = [sock EXCEPT ![p].st = "closed"]
             /\ tcp' = [tcp EXCEPT ![c] = "closed"] /\ UNCHANGED load
          \/ /\ s.st \in {"open", "closewait", "finwait", "lastack"}
             /\ sock' = [sock EXCEPT ![p].st = "closed"]
             /\ tcp' = [tcp EXCEPT ![c] = "closed"] /\ UNCHANGED load
  /\ UNCHANGED <<rest, supply, nat, conns, loop, events, task, shared>>

--------------------------------------------------------------------------------
(* The stack loop (stack.rs).                                              *)

Goto(step, p) == pc' = step /\ cur' = p

\* abort and poll: the RST goes out through the mapping, unless the queue of
\* the TUN writer is full.
Reset(c) == tcp' = tcp \/ tcp' = [tcp EXCEPT ![c] = "reset"]

Freed(p) == sock' = [sock EXCEPT ![p] = NoSock]

\* One event of a backend, before the poll.  An event of a connection that is
\* gone is dropped.
Event ==
  /\ pc = "top" /\ events # <<>> /\ events' = Tail(events)
  /\ LET p == Head(events)[1]
         kind == Head(events)[2]
     IN \/ /\ conns[p] = NoConn
           /\ UNCHANGED <<tcp, nat, sock, conns, sender>>
        \/ /\ conns[p] # NoConn /\ kind = "data" /\ conns' = [conns EXCEPT ![p].pend = @ + 1]
           /\ UNCHANGED <<tcp, nat, sock, sender>>
        \/ /\ conns[p] # NoConn /\ kind = "eof" /\ conns' = [conns EXCEPT ![p].eof = "yes"]
           /\ UNCHANGED <<tcp, nat, sock, sender>>
        \/ /\ conns[p] # NoConn /\ kind = "fail" /\ conns' = [conns EXCEPT ![p] = NoConn]
           /\ Reset(conns[p].flow) /\ Freed(p) /\ Forget({p}) /\ UNCHANGED next_alloc
           /\ sender' = [sender EXCEPT ![p] = "dropped"]
  /\ UNCHANGED <<rest, load, supply, loop, task, chan, credit, notify>>

\* poll, ensure_listeners, reap_if_due and the scan.  A SYN that finds no
\* listening socket is answered with a RST and leaves its mapping behind.
Poll ==
  /\ pc = "top" /\ events = <<>>
  /\ LET syns == {p \in P : sock[p].st = "syn"}
         taken == IF Cardinality(syns) <= ListenPool THEN {syns} ELSE kSubset(ListenPool, syns)
     IN \E opened \in taken, lost \in SUBSET (syns), reaped \in {{}, Stale} :
          /\ lost \cap opened = {}
          /\ sock' = [p \in P |-> IF p \in opened THEN [sock[p] EXCEPT !.st = "open"]
                                  ELSE IF p \in syns THEN NoSock ELSE sock[p]]
          /\ tcp' = [c \in Calls |->
                       IF by_flow[c] \in opened THEN "open"
                       ELSE IF by_flow[c] \in syns \ lost THEN "reset" ELSE tcp[c]]
          /\ Forget(reaped)
          /\ todo' = {p \in P : sock'[p].st = "open" /\ conns[p] = NoConn}
  /\ Goto("accept", 0) /\ UNCHANGED flow_basis
  /\ UNCHANGED <<rest, load, supply, next_alloc, conns, events, task, shared>>

\* FlowGate::verdict reads the table of the gate itself, in its own ticks.
Granted(a) == \E k \in Keys : k.addr = a /\ grants[k] > now

Verdict(a) == IF sink = "failed" THEN "deny" ELSE Basis(a, Granted(a))

Refused(p) ==
  /\ Reset(by_alloc[p]) /\ Freed(p) /\ Forget({p}) /\ UNCHANGED next_alloc

\* Mutant: an accepted mapping stays in the reach of the reaper.
AssociatedWith(p) == associated

\* mark_associated
Associated(p) == associated \cup {p}

\* A new connection, up to its verdict.  Without a mapping the RST finds no way
\* back; over the limit, or denied, the flow is reset and its mapping removed.
Accept ==
  /\ pc = "accept" /\ todo # {}
  /\ \E p \in todo :
       LET c == by_alloc[p]
           full == Cardinality({q \in P : conns[q] # NoConn}) >= MaxFlows
       IN /\ todo' = todo \ {p}
          /\ \/ /\ c = NoCall /\ Goto("accept", 0)
                /\ Freed(p) /\ UNCHANGED <<tcp, nat, judged, flow_basis, records>>
             \/ /\ c # NoCall /\ full /\ Goto("accept", 0)
                /\ Refused(p) /\ UNCHANGED <<judged, flow_basis, records>>
             \/ /\ c # NoCall /\ ~full /\ Verdict(dest[c]) = "deny" /\ Goto("accept", 0)
                /\ Refused(p) /\ Committed("denied", c) /\ UNCHANGED <<judged, flow_basis>>
             \/ /\ c # NoCall /\ ~full /\ Verdict(dest[c]) # "deny" /\ Goto("commit", p)
                /\ associated' = Associated(p) /\ judged' = [judged EXCEPT ![c] = now]
                /\ flow_basis' = [flow_basis EXCEPT ![c] = Verdict(dest[c])]
                /\ UNCHANGED <<tcp, by_flow, by_alloc, minted, next_alloc, sock, records>>
  /\ UNCHANGED <<env, sink, dest, stop, load, supply, conns, events, task, shared>>

\* authorize is durable before the backend is spawned; a refused record
\* refuses the flow.
Commit ==
  /\ pc = "commit" /\ Goto("accept", 0)
  /\ LET c == by_alloc[cur]
     IN /\ Committed("authorize", c)
        /\ IF sink = "up"
             THEN /\ conns' = [conns EXCEPT ![cur].flow = c]
                  /\ spliced' = [spliced EXCEPT ![cur] = "dial"]
                  /\ sender' = [sender EXCEPT ![cur] = "held"]
                  /\ UNCHANGED <<tcp, nat, sock>>
             ELSE Refused(cur) /\ UNCHANGED <<conns, spliced, sender>>
  /\ UNCHANGED <<env, sink, dest, judged, stop, load, supply, todo, flow_basis, events, ev, shut, chan,
                 credit, notify>>

\* The pump takes the connections one by one, in an order that is of no
\* consequence: they share nothing.  The closed ones are removed afterwards.
Serve ==
  /\ pc = "accept" /\ todo = {} /\ Goto("pump", 0)
  /\ todo' = {p \in P : conns[p] # NoConn}
  /\ UNCHANGED <<rest, workload, nat, sock, conns, flow_basis, events, task, shared>>

Alive(p) == spliced[p] # "ended"

MaySend(p) == sock[p].st \in {"open", "closewait"}

FinDue(p) == sock[p].st = "closewait" /\ conns[p].fin = "no"

\* One turn of the pull: a chunk moves while the channel has room; a channel
\* whose backend is gone aborts the flow.
Pull ==
  /\ pc = "pump"
  /\ \E p \in todo :
       /\ \A q \in todo : p <= q
       /\ \/ /\ sock[p].rx > 0 /\ Alive(p) /\ Len(chan[p]) < ChanCap
             /\ chan' = [chan EXCEPT ![p] = Append(@, "data")]
             /\ sock' = [sock EXCEPT ![p].rx = @ - 1] /\ UNCHANGED <<pc, cur>>
          \/ /\ sock[p].rx > 0 /\ ~Alive(p)
             /\ sock' = [sock EXCEPT ![p].st = "closed"] /\ Goto("move", p) /\ UNCHANGED chan
          \/ /\ sock[p].rx = 0 \/ (Alive(p) /\ Len(chan[p]) = ChanCap)
             /\ Goto(IF FinDue(p) THEN "fin" ELSE "move", p) /\ UNCHANGED <<chan, sock>>
  /\ UNCHANGED <<rest, workload, nat, conns, todo, flow_basis, events, task, sender, credit,
                 notify>>

\* The FIN of the workload: one try_send, whatever becomes of it.
SendFin ==
  /\ pc = "fin" /\ Goto("move", cur)
  /\ conns' = [conns EXCEPT ![cur].fin = "yes"]
  /\ chan' = IF Alive(cur) /\ Len(chan[cur]) < ChanCap
               THEN [chan EXCEPT ![cur] = Append(@, "fin")] ELSE chan
  /\ UNCHANGED <<rest, workload, nat, sock, todo, flow_basis, events, task, sender, credit, notify>>

\* Mutant: what moved to the socket is not given back to the backend.
ReleasedLate(p, moved) == credit[p]

\* fetch_sub
Released(p, moved) == credit[p] - moved

\* The backlog moves to the socket and its credit is released; a flow whose
\* remote is done closes once the backlog is empty.
Move ==
  /\ pc = "move"
  /\ LET p == cur
         moved == IF MaySend(p) THEN Min({conns[p].pend, BufCap - sock[p].tx}) ELSE 0
         left == conns[p].pend - moved
         closes == conns[p].eof = "yes" /\ left = 0 /\ MaySend(p)
     IN /\ conns' = [conns EXCEPT ![p].pend = left]
        /\ sock' = [sock EXCEPT ![p].tx = @ + moved,
                                ![p].st = IF ~closes THEN @
                                          ELSE IF @ = "open" THEN "finwait" ELSE "lastack"]
        /\ credit' = [credit EXCEPT ![p] = Released(p, moved)]
        /\ todo' = todo \ {p}
        /\ IF moved > 0 THEN Goto("wake", p) ELSE Goto("pump", 0)
  /\ UNCHANGED <<rest, workload, nat, flow_basis, events, task, chan, sender, notify>>

\* notify_waiters wakes a waiter and leaves no permit.
NotifyWaiters(p) ==
  /\ waiter' = [waiter EXCEPT ![p] = IF @ = "waiting" THEN "done" ELSE @]
  /\ UNCHANGED permit

\* notify_one wakes the waiter, or leaves a permit for the next one.
NotifyOne(p) ==
  IF waiter[p] = "waiting"
    THEN waiter' = [waiter EXCEPT ![p] = "notified"] /\ UNCHANGED permit
    ELSE permit' = [permit EXCEPT ![p] = 1] /\ UNCHANGED waiter

\* Mutant: the pump wakes only when the whole backlog has moved.
WakeWhenEmpty ==
  /\ pc = "wake" /\ Goto("pump", 0)
  /\ IF conns[cur].pend = 0 THEN NotifyOne(cur) ELSE UNCHANGED notify
  /\ UNCHANGED <<rest, workload, nat, sock, conns, todo, flow_basis, events, task, chan, sender,
                 credit>>

Wake ==
  /\ pc = "wake" /\ NotifyOne(cur) /\ Goto("pump", 0)
  /\ UNCHANGED <<rest, workload, nat, sock, conns, todo, flow_basis, events, task, chan, sender,
                 credit>>

\* A closed connection: its waiters are notified, the mapping is removed, and
\* the sender is dropped with the connection.
Remove ==
  /\ pc = "pump" /\ todo = {}
  /\ \E p \in P :
       /\ conns[p] # NoConn /\ sock[p].st = "closed" /\ Goto("drop", p)
       /\ conns' = [conns EXCEPT ![p] = NoConn] /\ NotifyWaiters(p)
       /\ Freed(p) /\ Forget({p})
  /\ UNCHANGED <<rest, workload, next_alloc, todo, flow_basis, events, task, chan, sender, credit>>

Drop ==
  /\ pc = "drop" /\ sender' = [sender EXCEPT ![cur] = "dropped"] /\ Goto("pump", 0)
  /\ UNCHANGED <<rest, workload, nat, sock, conns, todo, flow_basis, events, task, chan, credit,
                 notify>>

\* The end of a pass.
Wait ==
  /\ pc = "pump" /\ todo = {} /\ Goto("top", 0)
  /\ \A p \in P : conns[p] # NoConn => sock[p].st # "closed"
  /\ UNCHANGED <<rest, workload, nat, sock, conns, todo, flow_basis, events, task, shared>>

--------------------------------------------------------------------------------
(* A backend task (tcp_backend of stack/backend.rs).                       *)

Task(p, step) == spliced' = [spliced EXCEPT ![p] = step]
Sending(p, kind) == ev' = [ev EXCEPT ![p] = kind] /\ Task(p, "emit")

TcpConnect(p) ==
  /\ spliced[p] = "dial"
  /\ (Task(p, "check") /\ UNCHANGED ev) \/ Sending(p, "fail")
  /\ UNCHANGED <<supply, events, shut, shared>>

\* The head of the throttle: the sender may be gone, or there may be room.
Check(p) ==
  /\ spliced[p] = "check"
  /\ Task(p, IF sender[p] = "dropped" THEN "ended"
             ELSE IF credit[p] < PendingCap THEN "select" ELSE "enable")
  /\ UNCHANGED <<supply, events, ev, shut, shared>>

\* enable: a permit is taken at once, else the future is registered.
Enable(p) ==
  /\ spliced[p] = "enable" /\ Task(p, "recheck")
  /\ waiter' = [waiter EXCEPT ![p] = IF permit[p] = 1 THEN "done" ELSE "waiting"]
  /\ permit' = [permit EXCEPT ![p] = 0]
  /\ UNCHANGED <<supply, events, ev, shut, chan, sender, credit>>

\* The second look at the credit.  A future that is dropped after notify_one
\* reached it passes the permit on.
Recheck(p) ==
  /\ spliced[p] = "recheck"
  /\ IF credit[p] < PendingCap
       THEN /\ Task(p, "select") /\ waiter' = [waiter EXCEPT ![p] = "no"]
            /\ permit' = [permit EXCEPT ![p] = IF waiter[p] = "notified" THEN 1 ELSE @]
       ELSE Task(p, "parked") /\ UNCHANGED notify
  /\ UNCHANGED <<supply, events, ev, shut, chan, sender, credit>>

Resume(p) ==
  /\ spliced[p] = "parked" /\ waiter[p] \in {"notified", "done"}
  /\ Task(p, "check") /\ waiter' = [waiter EXCEPT ![p] = "no"]
  /\ UNCHANGED <<supply, events, ev, shut, chan, sender, credit, permit>>

\* select, the read: data, the end of the stream, or an error.
Read(p) ==
  /\ spliced[p] = "select"
  /\ \/ /\ supply[p] > 0 /\ supply' = [supply EXCEPT ![p] = @ - 1]
        /\ credit' = [credit EXCEPT ![p] = @ + 1] /\ Sending(p, "data")
     \/ supply[p] = 0 /\ Sending(p, "eof") /\ UNCHANGED <<supply, credit>>
     \/ Sending(p, "fail") /\ UNCHANGED <<supply, credit>>
  /\ UNCHANGED <<events, shut, chan, sender, notify>>

\* select, the channel: data is written, unless the writing side is shut down;
\* a channel without a sender ends the task when it is empty.
Recv(p) ==
  /\ spliced[p] = "select"
  /\ \/ /\ chan[p] # <<>> /\ chan' = [chan EXCEPT ![p] = Tail(@)]
        /\ IF Head(chan[p]) = "fin"
             THEN shut' = shut \cup {p} /\ Task(p, "check") /\ UNCHANGED ev
             ELSE /\ (p \notin shut /\ Task(p, "check") /\ UNCHANGED ev) \/ Sending(p, "fail")
                  /\ UNCHANGED shut
     \/ /\ chan[p] = <<>> /\ sender[p] = "dropped" /\ Task(p, "ended")
        /\ UNCHANGED <<ev, shut, chan>>
  /\ UNCHANGED <<supply, events, sender, credit, notify>>

\* events.send waits for room.
Emit(p) ==
  /\ spliced[p] = "emit" /\ Len(events) < EventsCap
  /\ events' = Append(events, <<p, ev[p]>>) /\ ev' = [ev EXCEPT ![p] = "none"]
  /\ Task(p, IF ev[p] = "data" THEN "check" ELSE "ended")
  /\ UNCHANGED <<supply, shut, shared>>

--------------------------------------------------------------------------------
Loop ==
  \/ SynIn \/ Segment \/ Event \/ Poll \/ Accept \/ Commit \/ Serve
  \/ Pull \/ SendFin \/ Move \/ Wake \/ Remove \/ Drop \/ Wait

Backend(p) ==
  /\ TcpConnect(p) \/ Check(p) \/ Enable(p) \/ Recheck(p) \/ Resume(p) \/ Read(p) \/ Recv(p) \/ Emit(p)
  /\ UNCHANGED <<rest, tcp, load, nat, sock, conns, loop>>

Backends == \E p \in P : Backend(p)

Next == Outside \/ Dial \/ Loop \/ Backends

Spec == Init /\ [][Next]_vars

\* The loop keeps turning, and the runtime polls the tasks that can run: with
\* finitely much data, that some task is polled is all the properties need.
Fairness == WF_vars(Loop) /\ WF_vars(Backends)

--------------------------------------------------------------------------------
(* Properties.                                                             *)

\* stack_loop: a connection stands on its own mapping, out of the reach of the
\* reaper, and was spliced on a verdict that was recorded first; a grant it
\* rests on was live when it was judged.
SplicesAuthorised ==
  \A p \in P : conns[p] # NoConn =>
    LET c == conns[p].flow
    IN /\ by_alloc[p] = c /\ by_flow[c] = p
       /\ <<"authorize", c>> \in records
       /\ flow_basis[c] \in {"rule", "open", "grant"}
       /\ flow_basis[c] = "grant" => LiveGrant(c)

\* FlowCredit: between the pump's fetch_sub and the backend's fetch_add, the
\* credit is what the backend has read and the workload has not been given.
CreditExact ==
  \A p \in P : conns[p] # NoConn =>
    credit[p] = conns[p].pend + Cardinality({i \in DOMAIN events : events[i] = <<p, "data">>})
                + (IF ev[p] = "data" THEN 1 ELSE 0)

\* The throttle: a backend parked on the backlog of a live connection resumes
\* once there is room, in whatever order it looked, registered and was woken.
ParkedResumes ==
  LET stuck == {p \in P : spliced[p] = "parked" /\ conns[p] # NoConn /\ credit[p] < PendingCap}
  IN stuck # {} ~> stuck = {}
================================================================================
