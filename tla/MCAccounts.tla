---------------------------- MODULE MCAccounts ----------------------------
(***************************************************************************)
(* One user, of whom everything but the uniqueness of names can be seen;   *)
(* two requests at a time, and enough of them for a token to be made, used *)
(* twice, and to meet an upload or another job.                            *)
(***************************************************************************)
EXTENDS Accounts

CONSTANTS u1, f1, f2, t1, t2, t3, p1, p2, q1, q2
=============================================================================
