------------------------------ MODULE MCNamespaced ------------------------------
(* A small instance of Namespaced, from two kinds of reachable states: one    *)
(* flow that was just spliced, with data in both directions to come, and two  *)
(* flows about to compete for the tables and the listening socket, with the   *)
(* mapping of a third one that found no listening socket.                     *)
EXTENDS Namespaced, TLC

CONSTANTS n1, a1, c1, c3

MCAsks == [q \in Queries |-> n1]

\* A flow c to a1 has port 1, since the tick before.
Holding(c) ==
  /\ gate = "none" /\ recorded = Queries /\ published = Queries
  /\ grants = [k \in Keys |-> IF k.addr = a1 THEN MaxTime ELSE 0] /\ high = grants
  /\ draft = NoImage /\ file = NoImage /\ mtime = 0 /\ stop = "no"
  /\ dest = [d \in Calls |-> IF d = c THEN a1 ELSE NoAddr]
  /\ by_flow = [d \in Calls |-> IF d = c THEN 1 ELSE 0]
  /\ by_alloc = [p \in P |-> IF p = 1 THEN c ELSE NoCall] /\ next_alloc = 2
  /\ minted = [p \in P |-> IF p = 1 THEN MaxTime - 1 ELSE 0]
  /\ pc = "top" /\ cur = 0 /\ todo = {} /\ events = <<>>
  /\ ev = [p \in P |-> "none"] /\ shut = {} /\ chan = [p \in P |-> <<>>]
  /\ credit = [p \in P |-> 0] /\ permit = credit /\ waiter = [p \in P |-> "no"]

\* It was spliced, and the audit log has stopped since.
Spliced ==
  /\ Holding(c1) /\ now = MaxTime /\ sink = "failed" /\ records = {<<"authorize", c1>>}
  /\ judged = [c \in Calls |-> IF c = c1 THEN MaxTime - 1 ELSE -1]
  /\ flow_basis = [c \in Calls |-> IF c = c1 THEN "grant" ELSE "none"]
  /\ tcp = [c \in Calls |-> IF c = c1 THEN "open" ELSE "never"] /\ associated = {1}
  /\ load = [c \in Calls |-> ChanCap + 1] /\ supply = [p \in P |-> PendingCap + 1]
  /\ sock = [p \in P |-> IF p = 1 THEN [NoSock EXCEPT !.st = "open"] ELSE NoSock]
  /\ conns = [p \in P |-> IF p = 1 THEN [NoConn EXCEPT !.flow = c1] ELSE NoConn]
  /\ spliced = [p \in P |-> IF p = 1 THEN "dial" ELSE "none"]
  /\ sender = [p \in P |-> IF p = 1 THEN "held" ELSE "none"]

\* Its SYN was refused.
Rivals ==
  /\ Holding(c3) /\ now = MaxTime - 1 /\ sink = "up" /\ records = {}
  /\ judged = [c \in Calls |-> -1] /\ flow_basis = [c \in Calls |-> "none"]
  /\ tcp = [c \in Calls |-> IF c = c3 THEN "reset" ELSE "idle"] /\ associated = {}
  /\ load = [c \in Calls |-> 0] /\ supply = [p \in P |-> 0]
  /\ sock = [p \in P |-> NoSock] /\ conns = [p \in P |-> NoConn]
  /\ spliced = [p \in P |-> "none"] /\ sender = [p \in P |-> "none"]

MCSpec == (Spliced \/ Rivals) /\ [][Next]_vars /\ Fairness
================================================================================
