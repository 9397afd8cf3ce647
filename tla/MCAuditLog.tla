----------------------------- MODULE MCAuditLog -----------------------------
(***************************************************************************)
(* An audit log with two service threads for TLC.                          *)
(***************************************************************************)
EXTENDS AuditLog
=============================================================================
