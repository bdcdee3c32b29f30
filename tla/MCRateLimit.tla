---------------------------- MODULE MCRateLimit ----------------------------
(***************************************************************************)
(* Two requests at a time, of one user and of nobody, under a rule of two  *)
(* requests in one second: time enough for a window to be spent, refused,  *)
(* waited for at its very end and after it, and dropped.                   *)
(***************************************************************************)
EXTENDS RateLimit

CONSTANTS h1, h2, u1, addr
=============================================================================
