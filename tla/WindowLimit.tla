---------------------------- MODULE WindowLimit ----------------------------
(***************************************************************************)
(* What the rate limiter promises, without a cache: every subject has a    *)
(* window that opens with its first request, in which it has a number of   *)
(* requests; the last of them starts the window anew, requests beyond it   *)
(* are refused and counted, and a window that is over closes by itself and *)
(* leaves nothing behind.                                                  *)
(***************************************************************************)
EXTENDS Naturals

CONSTANTS
    Subjects,   \* users and addresses
    Requests,   \* requests of a window
    Second,     \* its length
    Threshold,  \* RL_THRESHOLD
    MaxTime     \* bound: the clock

VARIABLES
    now,
    window,  \* of each subject
    verdict  \* what its last request was answered

Closed == [open |-> FALSE, start |-> 0, left |-> Requests, strikes |-> 0]

\* Refusals are counted as far as it matters, to one more than Threshold.
Strike(n) == IF n > Threshold THEN n ELSE n + 1

Over(w, t) == t > w.start + Second

\* A request that finds requests left, or a window that is closed.
Served(w) ==
    [open |-> TRUE, left |-> w.left - 1, strikes |-> 0,
     start |-> IF ~w.open \/ w.left = 1 THEN now ELSE w.start]

\* A request beyond them.
Struck(w) ==
    [open |-> TRUE, left |-> 0, strikes |-> Strike(w.strikes), start |-> w.start]

\* The one that comes at the very end of the window
\* is told to wait for no time at all, and passes.
Answer(w) ==
    CASE w.left > 0 -> "pass"
      [] w.left = 0 /\ w.strikes >= Threshold -> "banned"
      [] w.left = 0 /\ w.strikes < Threshold ->
             IF now = w.start + Second THEN "pass" ELSE "refused"

Ask(s) ==
    /\ verdict' = [verdict EXCEPT ![s] = Answer(window[s])]
    /\ window' = [window EXCEPT ![s] = IF @.left > 0 THEN Served(@) ELSE Struck(@)]
    /\ UNCHANGED now

\* Time passes, and closes the windows it ends.
Tick ==
    /\ now < MaxTime
    /\ now' = now + 1
    /\ window' = [s \in Subjects |->
                     IF Over(window[s], now + 1) THEN Closed ELSE window[s]]
    /\ UNCHANGED verdict

Init ==
    /\ now = Second + 1
    /\ window = [s \in Subjects |-> Closed]
    /\ verdict = [s \in Subjects |-> "none"]

Next == Tick \/ \E s \in Subjects : Ask(s)

Spec == Init /\ [][Next]_<<now, window, verdict>>
=============================================================================
