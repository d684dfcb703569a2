----------------------------- MODULE MCWireState -----------------------------
(* The request table on small instances; client ids are interchangeable.    *)
EXTENDS WireState, TLC

Symmetry == Permutations(ClientIds)
=============================================================================
