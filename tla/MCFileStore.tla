----------------------------- MODULE MCFileStore -----------------------------
(***************************************************************************)
(* Three uploads of one content: alice, bob, and alice again.  A slow scan *)
(* condemns the first.  The requests are interchangeable.                  *)
(***************************************************************************)
EXTENDS FileStore, TLC

CONSTANTS f1, f2, f3, p1, alice, bob

MCPathOf == [f \in Files |-> p1]
MCOwnerOf == [f \in Files |-> IF f = f2 THEN bob ELSE alice]
MCInfected == {f1}
MCSymmetry == Permutations(Requests)
=============================================================================
