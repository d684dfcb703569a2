------------------------------- MODULE GrantTable -------------------------------
(***************************************************************************)
(* The data of the dynamic allow list of src/dnsgate/allowlist.rs: a grant *)
(* is a name, an address and an expiry; the table is a function from keys  *)
(* to expiries in clock ticks, 0 where there is no grant.                  *)
(***************************************************************************)
EXTENDS Integers, FiniteSets

CONSTANTS Names, Addrs,
          Queries,   \* the resolutions, each made once
          Asks,      \* the name a query asks for
          MaxGrants, \* max_grants
          MaxTTL,    \* the longest time to live of an answer, in ticks
          SecTicks,  \* the ticks of the monotonic clock in a second
          MaxTime    \* bound on the clock

ASSUME AsksTyped == Asks \in [Queries -> Names]
ASSUME LimitsTyped ==
  /\ MaxGrants \in Nat /\ MaxTTL \in Nat /\ MaxTime \in Nat
  /\ SecTicks \in Nat \ {0}

\* GrantKey: the same address under two names is two grants.
Keys == [addr : Addrs, name : Names]

ASSUME KeysFinite == IsFiniteSet(Keys) /\ Keys # {}

NoGrants == [k \in Keys |-> 0]
Held(g) == {k \in Keys : g[k] > 0}

\* retain(expires > now)
Swept(g, t) == [k \in Keys |-> IF g[k] > t THEN g[k] ELSE 0]

\* unix_secs: whole seconds, rounded down.
Secs(t) == t \div SecTicks

\* snapshot_json: the live grants, their expiries in whole seconds.
Image(g, t) == [k \in Keys |-> IF g[k] > t THEN Secs(g[k]) ELSE 0]
NoImage == [k \in Keys |-> -1]
================================================================================
