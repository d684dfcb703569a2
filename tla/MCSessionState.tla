---------------------------- MODULE MCSessionState ----------------------------
(* Session tracking on small instances: a discovering tool that reads, a     *)
(* tool that uses discovered paths and declares no side effect, and a        *)
(* network tool, under the rule "after read_only deny network".              *)
EXTENDS SessionState, TLC

CONSTANTS lister, reader, fetcher

MCEffect == [t \in Tools |-> CASE t = lister -> "read_only" [] t = reader -> "none"
                              [] t = fetcher -> "network"]
MCRole == [t \in Tools |-> CASE t = lister -> "discover" [] t = reader -> "use"
                            [] t = fetcher -> "none"]
MCRules == {<<"read_only", "network">>}
Symmetry == Permutations(Ids) \cup Permutations(Paths)
=============================================================================
