------------------------------ MODULE Bulletin ------------------------------
(***************************************************************************)
(* What the readers of a bulletin are promised, without the task that      *)
(* sends it.  Posts are numbered as they come.  A post can be closed: no   *)
(* reader is sent it from then on.  Each reader is sent the posts in turn, *)
(* one or several at a time: each at most once, none after a later one,    *)
(* and none is passed over but those that are closed.                      *)
(***************************************************************************)
EXTENDS Naturals, Sequences, Functions

CONSTANT Readers

VARIABLES
    posted,  \* how many posts there have been
    closed,  \* those no reader will be sent any more
    sent     \* what each reader has been sent, in order

Posts == 1 .. posted

Rising(s) == \A i, j \in 1 .. Len(s) : i < j => s[i] < s[j]

\* The sequence t begins with s.
Continues(t, s) == Len(s) <= Len(t) /\ \A i \in 1 .. Len(s) : t[i] = s[i]

\* Of the posts before those a reader has, the reader has all that are open.
InTurn(s) ==
    /\ Rising(s)
    /\ \A n \in Range(s), m \in Posts : m < n => m \in Range(s) \cup closed

Init == posted = 0 /\ closed = {} /\ sent = [r \in Readers |-> <<>>]

Closing == closed \subseteq closed' /\ closed' \subseteq Posts

\* A post may interrupt the sending of others, which are then closed.
Post == posted' = posted + 1 /\ Closing /\ UNCHANGED sent

Close == Closing /\ UNCHANGED <<posted, sent>>

Send(r) ==
    /\ sent' = [sent EXCEPT ![r] = sent'[r]]
    /\ Continues(sent'[r], sent[r])
    /\ Range(sent'[r]) \ Range(sent[r]) \subseteq Posts \ closed
    /\ InTurn(sent'[r])
    /\ UNCHANGED <<posted, closed>>

Next == Post \/ Close \/ \E r \in Readers : Send(r)

Spec == Init /\ [][Next]_<<posted, closed, sent>>

-----------------------------------------------------------------------------
\* Every reader has had the open posts up to the last, in order.
AllInTurn == \A r \in Readers : InTurn(sent[r])
=============================================================================
