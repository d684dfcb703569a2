-------------------------------- MODULE EgressEnv --------------------------------
(***************************************************************************)
(* What the egress routes of src/warden share: the rules of the policy,    *)
(* the snapshot file of the DNS gate (the steps of GrantLedger), and the   *)
(* audit log, which the gate and the route use together.                   *)
(***************************************************************************)
EXTENDS GrantTable

CONSTANTS Calls,         \* connect calls of the sandboxed task, each made once
          NoCall,
          DeniedAddrs, AllowedAddrs, Protected, \* the rules, by address
          DenyAllOthers,
          MaxWorkers,    \* MAX_EMU_WORKERS
          GrantSlots,    \* GRANT_SLOTS
          RingSize       \* the records the ring buffer holds

ASSUME RouteTyped ==
  /\ NoCall \notin Calls /\ DenyAllOthers \in BOOLEAN
  /\ MaxWorkers \in Nat \ {0} /\ GrantSlots \in Nat \ {0} /\ RingSize \in Nat \ {0}

VARIABLES now, grants, recorded, published, draft, file, \* GrantLedger's
          gate,    \* "up", or "none": a launch without a gate, or one that stopped
          mtime,   \* the modification time of the snapshot file
          high,    \* the latest expiry the table ever had for a key (history)
          sink,    \* "up", or "failed" for good: commits are refused
          dest,    \* the destination of a call, once the route has read it
          judged,  \* the time of the verdict on a call (history), -1 before
          stop,    \* the stop eventfd of the route's thread
          records  \* the durable records of the route

Ledger == INSTANCE GrantLedger

env == <<now, grants, recorded, published, draft, file, gate, mtime, high>>

Dests == Addrs \cup DeniedAddrs \cup AllowedAddrs

NoSig == <<>>
NoAddr == "none"

EnvInit ==
  Ledger!Init /\ gate \in {"up", "none"} /\ mtime = 0 /\ high = NoGrants /\ sink = "up"

RouteInit ==
  /\ stop = "no" /\ records = {}
  /\ dest = [c \in Calls |-> NoAddr] /\ judged = [c \in Calls |-> -1]

\* The time passes, or the DNS gate takes a step; its records need the same
\* sink.
Gate ==
  /\ Ledger!Next
  /\ gate = "none" => UNCHANGED <<grants, recorded, published, draft, file>>
  /\ recorded' # recorded => sink = "up"
  /\ mtime' = IF file' # file THEN now ELSE mtime
  /\ high' = [k \in Keys |-> IF grants'[k] > high[k] THEN grants'[k] ELSE high[k]]
  /\ UNCHANGED <<gate, sink, dest, judged, stop, records>>

\* The writer of the audit log stops for good.
SinkFails ==
  /\ sink = "up" /\ sink' = "failed"
  /\ UNCHANGED <<env, dest, judged, stop, records>>

\* shutdown, of either route
AskStop ==
  /\ stop = "no" /\ stop' = "asked"
  /\ UNCHANGED <<env, sink, dest, judged, records>>

\* The signature of the file: modification time and length, here the number
\* of its entries.
FileSig ==
  IF file = NoImage THEN NoSig ELSE <<mtime, Cardinality({k \in Keys : file[k] > 0})>>

\* log_committed: durable, or refused by a failed sink.
Committed(stage, c) ==
  records' = IF sink = "up" THEN records \cup {<<stage, c>>} ELSE records

\* IpLayerEvaluator::evaluate, outside the proxy context: a deny wins, then
\* an allow rule, then a grant outside the protected space, then the default.
Basis(a, covered) ==
  CASE a \in DeniedAddrs -> "deny"
    [] a \in AllowedAddrs \ DeniedAddrs -> "rule"
    [] a \notin DeniedAddrs \cup AllowedAddrs /\ covered /\ a \notin Protected -> "grant"
    [] OTHER -> IF DenyAllOthers THEN "deny" ELSE "open"

\* The grant a verdict may rest on: one the gate had committed, for a name it
\* had recorded, and that had not expired when the verdict fell.
LiveGrant(c) ==
  /\ dest[c] \notin DeniedAddrs \cup Protected
  /\ \E k \in Keys : k.addr = dest[c] /\ judged[c] < high[k]
                     /\ \E q \in recorded : Asks[q] = k.name
================================================================================
