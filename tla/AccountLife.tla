---------------------------- MODULE AccountLife ----------------------------
(***************************************************************************)
(* What becomes of accounts, without the requests, jobs and processes that *)
(* do it.  An account is registered once, is active or not, and goes only  *)
(* by a deletion, which takes it out of use first.  From then on somebody  *)
(* has the deletion in hand until the account is gone, or it is spared     *)
(* knowingly, or somebody has activated it again.                          *)
(***************************************************************************)

CONSTANT Users

VARIABLES
    life,    \* what has become of each user's account
    pending  \* the users that a deletion is under way for

Stages == {"none", "active", "inactive", "doomed", "spared", "gone"}

LifeTypeOK == life \in [Users -> Stages] /\ pending \subseteq Users

Exists(u) == life[u] \notin {"none", "gone"}

Become(u, stage) == life' = [life EXCEPT ![u] = stage]

Init ==
    /\ life \in [Users -> {"none", "active"}]
    /\ pending = {}

Register(u) ==
    /\ life[u] = "none"
    /\ Become(u, "active") /\ UNCHANGED pending

\* By an administrator or a mailed token, also while a deletion is under way,
\* which this does not stop.
Activate(u) ==
    /\ Exists(u)
    /\ Become(u, "active") /\ UNCHANGED pending

Deactivate(u) ==
    /\ life[u] = "active"
    /\ Become(u, "inactive") /\ UNCHANGED pending

\* A deletion takes the account out of use.  It may come too late for one that
\* another deletion has taken away meanwhile.
Mark(u) ==
    /\ life[u] # "none"
    /\ Become(u, IF Exists(u) THEN "doomed" ELSE life[u])
    /\ pending' = pending \cup {u}

\* Deletions of these users are given up, if not all of them: whose account was
\* doomed is spared, and knows that it is.
GiveUp(users) ==
    /\ users \subseteq pending
    /\ life' = [u \in Users |->
                   IF u \in users /\ life[u] = "doomed" THEN "spared" ELSE life[u]]
    /\ pending \ users \subseteq pending' /\ pending' \subseteq pending

\* The account goes, with whatever is still under way for it.
Drop(u) ==
    /\ u \in pending /\ Exists(u)
    /\ Become(u, "gone")
    /\ pending' \in {pending, pending \ {u}}

Next ==
    \/ \E u \in Users :
          Register(u) \/ Activate(u) \/ Deactivate(u) \/ Mark(u) \/ Drop(u)
    \/ \E users \in SUBSET Users : GiveUp(users)

Spec == Init /\ [][Next]_<<life, pending>>

-----------------------------------------------------------------------------
\* Somebody is at the deletion of every doomed account.
DoomedArePending == \A u \in Users : life[u] = "doomed" => u \in pending
=============================================================================
