----------------------------- MODULE MCAuditLog -----------------------------
(***************************************************************************)
(* Two admins; an action is pushed while the sender is at each of its      *)
(* awaits, with another before it and another after.                       *)
(***************************************************************************)
EXTENDS AuditLog

CONSTANTS a1, a2
=============================================================================
