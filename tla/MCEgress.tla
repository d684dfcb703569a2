-------------------------------- MODULE MCEgress --------------------------------
(* A small instance of Egress, from four kinds of reachable states: a launch *)
(* without a gate; a call under the first of two grants, while the route has *)
(* still to load the second, or while the gate is exporting it; and the gate *)
(* about to answer a query.                                                  *)
EXTENDS Egress, TLC

CONSTANTS q1, n1, a1, a2, c1

MCAsks == [q \in Queries |-> n1]

\* a1 is granted for two ticks at MaxTime - 1, a2 for fewer.
First == [k \in Keys |-> IF k.addr = a1 THEN MaxTime + 1 ELSE 0]
Second == [k \in Keys |-> IF k.addr = a1 THEN MaxTime + 1 ELSE MaxTime]
Laid == [i \in 1..GrantSlots |-> IF i = 1 THEN [addr |-> a1, exp |-> Secs(MaxTime + 1)]
                                          ELSE Sentinel]

Reader(g) ==
  /\ entries = g /\ slots = Laid /\ want = Laid /\ seq = 2 /\ base = 0
  /\ sig = <<mtime, 1>> /\ allowSig = sig /\ statSig = NoSig

OneCall == call = [c \in Calls |-> IF c = c1 THEN "idle" ELSE "never"]

\* The gate has stopped, and the route has the file of both grants to load;
\* under Ebpf the audit log has stopped too.
Granted ==
  /\ now = MaxTime - 1 /\ gate = "none" /\ sink = (IF backend = "ebpf" THEN "failed" ELSE "up")
  /\ recorded = Queries /\ published = Queries /\ grants = Second /\ high = grants
  /\ draft = NoImage /\ file = Image(grants, now) /\ mtime = now
  /\ OneCall /\ Reader(Image(First, now))

Exporting ==
  /\ backend = "unotify" /\ now = MaxTime /\ gate = "up" /\ sink = "up"
  /\ recorded = Queries /\ published = Queries
  /\ grants = [k \in Keys |-> MaxTime + 1] /\ high = grants
  /\ draft = Image(grants, now) /\ file = Image(First, now) /\ mtime = now
  /\ OneCall /\ Reader(file)

Learning ==
  /\ now = MaxTime /\ gate = "up" /\ sink = "up"
  /\ recorded = Queries \ {q1} /\ published = recorded /\ grants = First /\ high = grants
  /\ draft = NoImage /\ file = Image(grants, now) /\ mtime = now
  /\ call = [c \in Calls |-> "never"] /\ Reader(file)

\* Two calls at once; under Unotify the audit log has stopped.
Ungated ==
  /\ now = MaxTime /\ gate = "none" /\ sink = (IF backend = "ebpf" THEN "up" ELSE "failed")
  /\ recorded = {} /\ published = {} /\ grants = NoGrants /\ high = grants
  /\ draft = NoImage /\ file = NoImage /\ mtime = 0
  /\ call = [c \in Calls |-> "idle"]
  /\ entries = NoGrants /\ slots = Cleared /\ want = slots /\ seq = 0 /\ base = 0
  /\ sig = NoSig /\ allowSig = sig /\ statSig = NoSig

MCInit == Routes /\ (Granted \/ Exporting \/ Learning \/ Ungated) /\ prog = call

MCSpec == MCInit /\ [][Next]_vars /\ Fairness
================================================================================
