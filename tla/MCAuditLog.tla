------------------------------ MODULE MCAuditLog ------------------------------
(* The audit logger on a small instance. *)
EXTENDS AuditLog
=============================================================================
