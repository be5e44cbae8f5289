----------------------------- MODULE MCAuditLog -----------------------------
(* Small instances of the audit log for TLC. *)
EXTENDS AuditLog

CONSTANTS rec1, rec2

Events == {"created", "blocked", "approved"}
=============================================================================
