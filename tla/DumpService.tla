---------------------------- MODULE DumpService ----------------------------
(***************************************************************************)
(* What becomes of requests for a data dump, without the tables, the       *)
(* archives and the worker.  Requests are taken in the order they came.  A *)
(* dump takes the files one after the other, is mailed when it has all     *)
(* that there were when it began, and is over only after that.  A restart  *)
(* or a failure costs one request at most, and may have a dump mailed      *)
(* again.                                                                  *)
(***************************************************************************)
EXTENDS Naturals, Sequences

CONSTANTS Users, MaxFiles

VARIABLES
    asked,    \* the users who wait for their dump, in the order they asked
    begun,    \* the users whose dump is under way
    wanted,   \* how many files they had when it began
    got,      \* the files their dump has got
    sent,     \* those whose dump has been mailed and is not over
    faults    \* how often the service failed, or was started again

FileIds == 1 .. MaxFiles

Init ==
    /\ asked = <<>> /\ begun = {} /\ sent = {} /\ faults = 0
    /\ wanted = [u \in Users |-> 0] /\ got = [u \in Users |-> {}]

Ask(u) ==
    /\ asked' = Append(asked, u)
    /\ UNCHANGED <<begun, wanted, got, sent, faults>>

Turn == asked # <<>> /\ asked' = Tail(asked)

\* A user whose earlier dump is still under way is turned away.
TurnAway ==
    /\ Turn /\ Head(asked) \in begun
    /\ UNCHANGED <<begun, wanted, got, sent, faults>>

Begin(n) ==
    /\ Turn /\ Head(asked) \notin begun
    /\ begun' = begun \cup {Head(asked)}
    /\ wanted' = [wanted EXCEPT ![Head(asked)] = n]
    /\ UNCHANGED <<got, sent, faults>>

\* A file may be taken again, but none before those ahead of it.
Take(u, f) ==
    /\ u \in begun \ sent
    /\ 1 .. f - 1 \subseteq got[u]
    /\ got' = [got EXCEPT ![u] = @ \cup {f}]
    /\ UNCHANGED <<asked, begun, wanted, sent, faults>>

Send(u) ==
    /\ u \in begun \ sent
    /\ 1 .. wanted[u] \subseteq got[u]
    /\ sent' = sent \cup {u}
    /\ UNCHANGED <<asked, begun, wanted, got, faults>>

Finish(u) ==
    /\ u \in sent
    /\ begun' = begun \ {u} /\ sent' = sent \ {u}
    /\ wanted' = [wanted EXCEPT ![u] = 0] /\ got' = [got EXCEPT ![u] = {}]
    /\ UNCHANGED <<asked, faults>>

Fail ==
    /\ faults' = faults + 1
    /\ sent' = {}
    /\ UNCHANGED asked \/ Turn
    /\ UNCHANGED <<begun, wanted, got>>

Next ==
    \/ \E u \in Users : Ask(u) \/ Send(u) \/ Finish(u)
    \/ \E u \in Users, f \in FileIds : Take(u, f)
    \/ \E n \in 0 .. MaxFiles : Begin(n)
    \/ TurnAway \/ Fail

Spec == Init /\ [][Next]_<<asked, begun, wanted, got, sent, faults>>

-----------------------------------------------------------------------------
\* A dump has got its files without a gap, one that was mailed all of those
\* there were, and one that is over or not begun has none.
NoGaps ==
    /\ \A u \in Users : \A f \in got[u] : 1 .. f \subseteq got[u]
    /\ \A u \in sent : u \in begun /\ 1 .. wanted[u] \subseteq got[u]
    /\ \A u \in Users \ begun : got[u] = {}
=============================================================================
