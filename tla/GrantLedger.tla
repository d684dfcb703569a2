------------------------------ MODULE GrantLedger ------------------------------
(***************************************************************************)
(* What the DNS gate promises the consumers of its grants.  A grant lets   *)
(* flows reach an endpoint because an allowed name resolved to it.  It     *)
(* appears in one step, after the record of its resolution is durable,     *)
(* under the name that was asked, for at most the longest time to live;    *)
(* the table never holds more than max_grants; and the snapshot file is    *)
(* replaced whole, by one exporter at a time, with an image of the table   *)
(* that has whole seconds for expiries.                                    *)
(*                                                                         *)
(* The table is src/dnsgate/allowlist.rs as its consumers see it: the      *)
(* staging of a resolution is not part of it.  DnsGate implements this     *)
(* specification, and the consumers (Egress) are checked against it.       *)
(***************************************************************************)
EXTENDS GrantTable

VARIABLES now,       \* Instant::now(), in ticks
          grants,    \* the live table: the expiry of each grant, 0 for none
          recorded,  \* the queries whose resolution record is durable
          published, \* the queries whose grants were committed
          draft,     \* the image an export is writing, or NoImage
          file       \* the snapshot file, NoImage before the first export

ledger == <<now, grants, recorded, published, draft, file>>

Init ==
  /\ now = 0 /\ grants = NoGrants /\ recorded = {} /\ published = {}
  /\ draft = NoImage /\ file = NoImage

Tick ==
  /\ now < MaxTime /\ now' = now + 1
  /\ UNCHANGED <<grants, recorded, published, draft, file>>

Sweep ==
  /\ grants' = Swept(grants, now)
  /\ UNCHANGED <<now, recorded, published, draft, file>>

Record ==
  /\ \E q \in Queries \ recorded : recorded' = recorded \cup {q}
  /\ UNCHANGED <<now, grants, published, draft, file>>

\* The grants of a recorded query, all at once.  An entry that stood may be
\* replaced, never removed.
Publish ==
  \E q \in recorded \ published :
    /\ published' = published \cup {q}
    /\ grants' \in [Keys -> 0..(now + MaxTTL)]
    /\ \A k \in Keys : grants'[k] # grants[k] =>
                         k.name = Asks[q] /\ grants'[k] > 0
    /\ Cardinality(Held(grants')) <= MaxGrants
    /\ UNCHANGED <<now, recorded, draft, file>>

Snapshot ==
  /\ draft = NoImage /\ draft' = Image(grants, now)
  /\ UNCHANGED <<now, grants, recorded, published, file>>

Replace ==
  /\ draft # NoImage /\ file' = draft /\ draft' = NoImage
  /\ UNCHANGED <<now, grants, recorded, published>>

Discard ==
  /\ draft # NoImage /\ draft' = NoImage
  /\ UNCHANGED <<now, grants, recorded, published, file>>

Next == Tick \/ Sweep \/ Record \/ Publish \/ Snapshot \/ Replace \/ Discard

Spec == Init /\ [][Next]_ledger
================================================================================
