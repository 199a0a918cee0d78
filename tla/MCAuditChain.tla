----------------------------- MODULE MCAuditChain -----------------------------
(* Model values for the run of AuditChain. *)
EXTENDS AuditChain

CONSTANTS e1, e2, e3, a, b
=============================================================================
