--------------------------- MODULE MCStorageCache ---------------------------
(***************************************************************************)
(* A password hash, a ban and the path of a file, looked up by two         *)
(* requests and written by one.                                            *)
(***************************************************************************)
EXTENDS StorageCache

CONSTANTS password_hash, userban, fspath

MCBanKeys == {userban} \cap Keys
MCInvalidateFirst == {fspath} \cap Keys

\* Every row but a ban's: the user's is deleted, the file's hidden or moved.
MCLeftKeys == Keys \ {userban}

\* A user who is not banned, and no file yet under the name of fspath.
MCInitialRows ==
    {[k \in Keys |-> IF k = password_hash THEN CHOOSE v \in Values : TRUE ELSE None]}
=============================================================================
