----------------------------- MODULE MCDomains -----------------------------
(***************************************************************************)
(* Domain 0 and another, which is there or is added, under a wildcard's    *)
(* name or under that of domain 0.  The wildcard is elixi.re's own, say:   *)
(* it matches the host elixi.re of domain 0, and hosts below it as well,   *)
(* which resolve as its own name does.  One user, with three files and     *)
(* three shortens.                                                         *)
(***************************************************************************)
EXTENDS Domains

CONSTANTS d0, d1, u1, f1, f2, f3, s1, s2, s3, q1, q2

MCHostNames == [base |-> {"base", "wild"}, wild |-> {"wild"}]
=============================================================================
