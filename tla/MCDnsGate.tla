------------------------------- MODULE MCDnsGate -------------------------------
(* A small instance of DnsGate. *)
EXTENDS DnsGate, TLC

CONSTANTS n1, n2, a1, a2, a3, a4, a5

\* The queries race for one name.
MCAsks == [q \in Queries |-> n1]

\* a2 is a synthesized spelling of a1, a4 one of the protected a3.
MCDial == a1 :> a1 @@ a2 :> a1 @@ a3 :> a3 @@ a4 :> a3 @@ a5 :> a5

Answer(addrs, secs) ==
  [arrived |-> TRUE, whole |-> TRUE, chain |-> {}, addrs |-> addrs,
   extra |-> {}, glue |-> {}, ttl |-> secs * SecTicks]

\* A lost exchange, an alias to a denied name, a denied address, one address,
\* two forms of one with a protected and a repeated one, a zero time to live.
MCReplies ==
  {[Answer(<<>>, 0) EXCEPT !.arrived = FALSE],
   [Answer(<<a1>>, 1) EXCEPT !.chain = {n2}],
   Answer(<<a1, a5>>, 1), Answer(<<a1>>, 1), Answer(<<a2, a4, a1>>, 1), Answer(<<a1>>, 0)}
================================================================================
