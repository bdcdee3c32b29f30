----------------------------- MODULE MCDataDump -----------------------------
(***************************************************************************)
(* Two users ask for dumps of at most two files: the first has two and     *)
(* mail to them may be refused, the second has none yet.                   *)
(***************************************************************************)
EXTENDS DataDump

CONSTANTS u1, u2

MCBadMailbox == {u1}
MCInitialFiles == [u \in Users |-> IF u = u1 THEN 2 ELSE 0]
=============================================================================
