-------------------------- MODULE MCToolsListGate --------------------------
(* Small instances of ToolsListGate for TLC. *)
EXTENDS ToolsListGate, TLC

\* Client ids are interchangeable, and so are the internal ids.
Symmetry == Permutations(ClientIds) \cup Permutations(InternalIds)

=============================================================================
