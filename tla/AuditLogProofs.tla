--------------------------- MODULE AuditLogProofs ---------------------------
(***************************************************************************)
(* For any admins and any number of actions, failures and stops: the       *)
(* types, that the list never waits without a sender, that an admin is     *)
(* mailed the actions in order and at most once, that every action is      *)
(* accounted for, and from these that the log implements the Bulletin.     *)
(***************************************************************************)
EXTENDS AuditLog, SequenceTheorems, TLAPS

USE AuditAssumption

-----------------------------------------------------------------------------
(* Sequences of actions. *)

\* What Append, Tail and \o do to the set of actions in a sequence.
LEMMA RangeEmpty == Range(<<>>) = {}
  BY EmptySeq DEF Range

LEMMA RangeAppend ==
  ASSUME NEW s \in Seq(Nat), NEW n \in Nat
  PROVE  Range(Append(s, n)) = Range(s) \cup {n}
<1> DEFINE t == Append(s, n)
<1>1. /\ DOMAIN s = 1 .. Len(s) /\ DOMAIN t = 1 .. Len(s) + 1 /\ Len(s) \in Nat
      /\ t[Len(s) + 1] = n /\ \A i \in 1 .. Len(s) : t[i] = s[i]
  BY AppendProperties, LenProperties
<1> HIDE DEF t
<1>2. \A i \in 1 .. Len(s) + 1 : i \in 1 .. Len(s) \/ i = Len(s) + 1
  BY <1>1
<1>3. 1 .. Len(s) \subseteq 1 .. Len(s) + 1 /\ Len(s) + 1 \in 1 .. Len(s) + 1
  BY <1>1
<1>4. Range(t) = Range(s) \cup {n}
  BY <1>1, <1>2, <1>3 DEF Range
<1> QED
  BY <1>4 DEF t

LEMMA RangeTail ==
  ASSUME NEW s \in Seq(Nat), s # <<>>
  PROVE  Range(s) = Range(Tail(s)) \cup {Head(s)}
<1> DEFINE t == Tail(s)
<1>1. /\ DOMAIN s = 1 .. Len(s) /\ DOMAIN t = 1 .. Len(s) - 1 /\ Len(s) \in Nat
      /\ Head(s) = s[1] /\ \A i \in 1 .. Len(s) - 1 : t[i] = s[i + 1]
  BY HeadTailProperties, LenProperties
<1>2. Len(s) # 0
  BY EmptySeq
<1> HIDE DEF t
<1>3. /\ \A i \in 1 .. Len(s) : i = 1 \/ (i - 1 \in 1 .. Len(s) - 1 /\ (i - 1) + 1 = i)
      /\ \A i \in 1 .. Len(s) - 1 : i + 1 \in 1 .. Len(s)
      /\ 1 \in 1 .. Len(s)
  BY <1>1, <1>2
<1>4. ASSUME NEW i \in 1 .. Len(s), i # 1 PROVE \E j \in 1 .. Len(s) - 1 : s[i] = t[j]
  <2>1. i - 1 \in 1 .. Len(s) - 1 /\ (i - 1) + 1 = i
    BY <1>3, <1>4
  <2>2. t[i - 1] = s[(i - 1) + 1]
    BY <1>1, <2>1
  <2> QED
    BY <2>1, <2>2
<1>5. ASSUME NEW x \in Range(s) PROVE x \in Range(t) \cup {Head(s)}
  <2>1. PICK i \in 1 .. Len(s) : x = s[i]
    BY <1>1 DEF Range
  <2> QED
    BY <1>1, <1>4, <2>1 DEF Range
<1>6. ASSUME NEW x \in Range(t) \cup {Head(s)} PROVE \E i \in 1 .. Len(s) : x = s[i]
  <2>1. CASE x \in Range(t)
    <3>1. PICK i \in 1 .. Len(s) - 1 : x = t[i]
      BY <1>1, <2>1 DEF Range
    <3>2. i + 1 \in 1 .. Len(s) /\ x = s[i + 1]
      BY <1>1, <1>3, <3>1
    <3> QED
      BY <3>2
  <2>2. CASE x = Head(s)
    BY <1>1, <1>3, <2>2
  <2> QED
    BY <2>1, <2>2
<1>7. Range(t) \cup {Head(s)} \subseteq Range(s)
  BY <1>1, <1>6 DEF Range
<1> QED
  BY <1>5, <1>7 DEF t

LEMMA RangeConcat ==
  ASSUME NEW s \in Seq(Nat), NEW t \in Seq(Nat)
  PROVE  Range(s \o t) = Range(s) \cup Range(t)
  BY RangeConcatenation

\* Sequences of actions there have been stay so when there are more.
LEMMA Widen ==
  ASSUME NEW m \in Nat, NEW n \in Nat, m <= n, NEW s \in Seq(1 .. m)
  PROVE  s \in Seq(1 .. n)
<1>1. 1 .. m \subseteq 1 .. n
  OBVIOUS
<1> QED
  BY <1>1

Rising(s) == \A i, j \in 1 .. Len(s) : i < j => s[i] < s[j]

\* s comes before t.
Ahead(s, t) == \A x \in Range(s), y \in Range(t) : x < y

\* Rising sequences stay so when put one after the other, and lose nothing
\* when their head is taken.
LEMMA AppendRises ==
  ASSUME NEW s \in Seq(Nat), NEW n \in Nat, Rising(s), \A x \in Range(s) : x < n
  PROVE  Rising(Append(s, n))
<1> DEFINE t == Append(s, n)
<1>1. /\ DOMAIN s = 1 .. Len(s) /\ Len(t) = Len(s) + 1 /\ Len(s) \in Nat
      /\ t[Len(s) + 1] = n /\ \A i \in 1 .. Len(s) : t[i] = s[i]
  BY AppendProperties, LenProperties
<1> HIDE DEF t
<1>2. \A i \in 1 .. Len(s) : s[i] < n
  BY <1>1 DEF Range
<1>3. ASSUME NEW i \in 1 .. Len(t), NEW j \in 1 .. Len(t), i < j PROVE t[i] < t[j]
  <2>1. i \in 1 .. Len(s) /\ (j \in 1 .. Len(s) \/ j = Len(s) + 1)
    BY <1>1, <1>3
  <2> QED
    BY <1>1, <1>2, <1>3, <2>1 DEF Rising
<1> QED
  BY <1>3 DEF Rising, t

LEMMA TailRises ==
  ASSUME NEW s \in Seq(Nat), s # <<>>, Rising(s)
  PROVE  Rising(Tail(s)) /\ \A y \in Range(Tail(s)) : Head(s) < y
<1> DEFINE t == Tail(s)
<1>1. /\ Len(t) = Len(s) - 1 /\ DOMAIN t = 1 .. Len(s) - 1 /\ Len(s) \in Nat
      /\ Head(s) = s[1] /\ \A i \in 1 .. Len(s) - 1 : t[i] = s[i + 1]
  BY HeadTailProperties, LenProperties
<1> HIDE DEF t
<1>2. ASSUME NEW i \in 1 .. Len(t), NEW j \in 1 .. Len(t), i < j PROVE t[i] < t[j]
  <2>1. i + 1 \in 1 .. Len(s) /\ j + 1 \in 1 .. Len(s) /\ i + 1 < j + 1
    BY <1>1, <1>2
  <2> QED
    BY <1>1, <2>1 DEF Rising
<1>3. ASSUME NEW j \in 1 .. Len(s) - 1 PROVE Head(s) < t[j]
  <2>1. 1 \in 1 .. Len(s) /\ j + 1 \in 1 .. Len(s) /\ 1 < j + 1
    BY <1>1
  <2> QED
    BY <1>1, <2>1 DEF Rising
<1>4. \A y \in Range(t) : Head(s) < y
  BY <1>1, <1>3 DEF Range
<1> QED
  BY <1>2, <1>4 DEF Rising, t

LEMMA ConcatRises ==
  ASSUME NEW s \in Seq(Nat), NEW t \in Seq(Nat), Rising(s), Rising(t), Ahead(s, t)
  PROVE  Rising(s \o t)
<1> DEFINE c == s \o t
<1>1. /\ DOMAIN s = 1 .. Len(s) /\ DOMAIN t = 1 .. Len(t) /\ Len(s) \in Nat /\ Len(t) \in Nat
      /\ Len(c) = Len(s) + Len(t)
      /\ \A i \in 1 .. Len(s) + Len(t) : c[i] = IF i <= Len(s) THEN s[i] ELSE t[i - Len(s)]
  BY ConcatProperties, LenProperties
<1> HIDE DEF c
<1>2. \A i \in 1 .. Len(s), j \in 1 .. Len(t) : s[i] < t[j]
  BY <1>1 DEF Ahead, Range
<1>3. ASSUME NEW i \in 1 .. Len(c), NEW j \in 1 .. Len(c), i < j PROVE c[i] < c[j]
  <2>1. CASE j <= Len(s)
    <3>1. i \in 1 .. Len(s) /\ j \in 1 .. Len(s) /\ c[i] = s[i] /\ c[j] = s[j]
      BY <1>1, <1>3, <2>1
    <3> QED
      BY <1>3, <3>1 DEF Rising
  <2>2. CASE i <= Len(s) /\ ~(j <= Len(s))
    <3>1. /\ i \in 1 .. Len(s) /\ j - Len(s) \in 1 .. Len(t)
          /\ c[i] = s[i] /\ c[j] = t[j - Len(s)]
      BY <1>1, <1>3, <2>2
    <3> QED
      BY <1>2, <3>1
  <2>3. CASE ~(i <= Len(s))
    <3>1. /\ i - Len(s) \in 1 .. Len(t) /\ j - Len(s) \in 1 .. Len(t)
          /\ i - Len(s) < j - Len(s)
          /\ c[i] = t[i - Len(s)] /\ c[j] = t[j - Len(s)]
      BY <1>1, <1>3, <2>3
    <3> QED
      BY <3>1 DEF Rising
  <2> QED
    BY <1>1, <2>1, <2>2, <2>3
<1> QED
  BY <1>3 DEF Rising, c

-----------------------------------------------------------------------------
(* The types. *)

\* The types by parts: the lists of actions, and the rest; and what the sender
\* has at each of its awaits.
ListsOK == /\ actions \in Seq(1 .. pushed)
           /\ batch \in Seq(1 .. pushed) /\ text \in Seq(1 .. pushed)
           /\ mailed \in [Admins -> Seq(1 .. pushed)]
RestOK  == /\ pushed \in 0 .. MaxActions /\ failures \in 0 .. MaxFailures
           /\ spc \in {"none", "asleep", "render", "admins", "send"}
           /\ todo \subseteq Admins
           /\ void \subseteq 1 .. pushed /\ lost \subseteq 1 .. pushed

SenderOK == /\ spc \in {"none", "asleep"} => batch = <<>> /\ text = <<>>
            /\ spc = "render" => batch # <<>>
            /\ spc \in {"admins", "send"} => batch = <<>>

Typed == ListsOK /\ RestOK /\ SenderOK

LEMMA TypeInit == Init => Typed
<1>1. <<>> \in Seq(1 .. 0)
  BY EmptySeq
<1> QED
  BY <1>1 DEF Init, Typed, ListsOK, RestOK, SenderOK

LEMMA TypeStep == Typed /\ [Next]_vars => Typed'
<1> SUFFICES ASSUME ListsOK, RestOK, SenderOK, [Next]_vars PROVE Typed'
  BY DEF Typed
<1> USE DEF senderVars, historyVars
<1>1. <<>> \in Seq(1 .. pushed) /\ InHand \subseteq 1 .. pushed /\ Range(actions) \subseteq 1 .. pushed
  BY EmptySeq, RangeOfSeq DEF ListsOK, InHand
<1>2. CASE Push
  <2>1. /\ pushed' = pushed + 1 /\ pushed < MaxActions /\ actions' = Append(actions, pushed + 1)
        /\ spc' = "asleep" /\ batch' = <<>> /\ text' = <<>> /\ todo' = {}
        /\ lost' = lost \cup InHand /\ UNCHANGED <<failures, mailed, void>>
    BY <1>2 DEF Push, SenderAt
  <2>2. pushed \in Nat /\ pushed + 1 \in Nat /\ pushed <= pushed + 1
    BY DEF RestOK
  <2>3. pushed + 1 \in 0 .. MaxActions
    BY <2>1, <2>2
  <2>4. actions \in Seq(1 .. pushed + 1) /\ \A a \in Admins : mailed[a] \in Seq(1 .. pushed + 1)
    BY <2>2, Widen DEF ListsOK
  <2>5. pushed + 1 \in 1 .. pushed + 1 /\ 1 .. pushed \subseteq 1 .. pushed + 1
    BY <2>2
  <2>6. ListsOK'
    <3>1. Append(actions, pushed + 1) \in Seq(1 .. pushed + 1) /\ <<>> \in Seq(1 .. pushed + 1)
      BY <2>4, <2>5, AppendProperties, EmptySeq
    <3> QED
      BY <2>1, <2>4, <3>1 DEF ListsOK
  <2>7. RestOK'
    BY <1>1, <2>1, <2>3, <2>5 DEF RestOK
  <2>8. SenderOK'
    BY <2>1 DEF SenderOK
  <2> QED
    BY <2>6, <2>7, <2>8 DEF Typed
<1>3. CASE Wake
  <2>1. ListsOK'
    BY <1>1, <1>3 DEF Wake, SenderAt, ListsOK
  <2>2. RestOK'
    BY <1>3 DEF Wake, SenderAt, RestOK
  <2>3. SenderOK'
    BY <1>3 DEF Wake, SenderAt, SenderOK
  <2> QED
    BY <2>1, <2>2, <2>3 DEF Typed
<1>4. CASE Render
  <2>0. batch # <<>>
    BY <1>4 DEF Render, SenderOK
  <2>1. Head(batch) \in 1 .. pushed /\ Tail(batch) \in Seq(1 .. pushed)
    BY <2>0, HeadTailProperties DEF ListsOK
  <2>2. Append(text, Head(batch)) \in Seq(1 .. pushed)
    BY <2>1, AppendProperties DEF ListsOK
  <2>3. ListsOK'
    BY <1>4, <2>1, <2>2 DEF Render, ListsOK
  <2>4. RestOK'
    BY <1>4, <2>1 DEF Render, AfterRender, RestOK
  <2>6. SenderOK'
    <3>1. batch' = Tail(batch) /\ AfterRender /\ spc = "render" /\ (text' = text \/ text' # <<>>)
      BY <1>4, <2>2 DEF Render
    <3> QED
      BY <3>1 DEF AfterRender, SenderOK
  <2> QED
    BY <2>3, <2>4, <2>6 DEF Typed
<1>5. CASE FetchAdmins
  <2>1. ListsOK'
    BY <1>5 DEF FetchAdmins, ListsOK
  <2>2. RestOK'
    BY <1>5 DEF FetchAdmins, RestOK
  <2>3. SenderOK'
    BY <1>5 DEF FetchAdmins, SenderOK
  <2> QED
    BY <2>1, <2>2, <2>3 DEF Typed
<1>6. ASSUME NEW a \in Admins, Mail(a) PROVE Typed'
  <2>1. mailed[a] \o text \in Seq(1 .. pushed)
    BY ConcatProperties DEF ListsOK
  <2>2. ListsOK'
    BY <1>1, <1>6, <2>1 DEF Mail, SenderAt, ListsOK
  <2>3. RestOK'
    BY <1>6 DEF Mail, SenderAt, RestOK
  <2>4. SenderOK'
    BY <1>6 DEF Mail, SenderAt, SenderOK
  <2> QED
    BY <2>2, <2>3, <2>4 DEF Typed
<1>7. CASE SenderFails
  <2>1. ListsOK'
    BY <1>1, <1>7 DEF SenderFails, SenderAt, ListsOK
  <2>2. RestOK'
    BY <1>1, <1>7 DEF SenderFails, SenderAt, RestOK
  <2>3. SenderOK'
    BY <1>7 DEF SenderFails, SenderAt, SenderOK
  <2> QED
    BY <2>1, <2>2, <2>3 DEF Typed
<1>8. CASE Stop
  <2>1. ListsOK'
    BY <1>1, <1>8 DEF Stop, SenderAt, ListsOK
  <2>2. RestOK'
    <3>1. lost' = lost \cup InHand \cup Range(actions) /\ lost' \subseteq 1 .. pushed
      BY <1>1, <1>8 DEF Stop, RestOK
    <3>2. failures' \in 0 .. MaxFailures
      BY <1>8 DEF Stop, RestOK
    <3> QED
      BY <1>8, <3>1, <3>2 DEF Stop, SenderAt, RestOK
  <2>3. SenderOK'
    BY <1>8 DEF Stop, SenderAt, SenderOK
  <2> QED
    BY <2>1, <2>2, <2>3 DEF Typed
<1>9. CASE UNCHANGED vars
  BY <1>9 DEF vars, Typed, ListsOK, RestOK, SenderOK
<1> QED
  BY <1>2, <1>3, <1>4, <1>5, <1>6, <1>7, <1>8, <1>9 DEF Next, SenderSteps

\* The lists stay lists of actions there have been, for any admins and bounds.
THEOREM TypeCorrect == Safety => []TypeOK
<1>1. Typed => TypeOK
  BY DEF Typed, TypeOK, ListsOK, RestOK
<1> QED
  BY TypeInit, TypeStep, <1>1, PTL DEF Safety

-----------------------------------------------------------------------------
(* The list is attended. *)

\* An action in the list has a sender asleep that will take it, however pushes,
\* failures and stops interleave.
THEOREM QueueAttended == Safety => []QueueIsAttended
<1>1. Init => QueueIsAttended
  BY DEF Init, QueueIsAttended
<1>2. QueueIsAttended /\ [Next]_vars => QueueIsAttended'
  BY DEF QueueIsAttended, Next, SenderSteps, Push, Wake, Render, AfterRender, FetchAdmins,
         Mail, SenderFails, Stop, SenderAt, senderVars, vars
<1> QED
  BY <1>1, <1>2, PTL DEF Safety

-----------------------------------------------------------------------------
(* The order of the mails.  That what an admin was mailed rises is not       *)
(* inductive: it rises because all that is to come comes after it.           *)

\* What is in the list comes after what the sender has, what it has not
\* rendered after what it has, and all of it after what an admin was mailed,
\* but for the text the admin has just been mailed.
Orderly ==
    /\ Rising(actions) /\ Rising(batch) /\ Rising(text)
    /\ Ahead(text, batch) /\ Ahead(text, actions) /\ Ahead(batch, actions)
    /\ \A a \in Admins :
          /\ Rising(mailed[a]) /\ Ahead(mailed[a], actions) /\ Ahead(mailed[a], batch)
          /\ (spc = "send" => a \in todo) => Ahead(mailed[a], text)

\* An admin is mailed an action at most once, and the actions in the order they
\* were pushed.
InOrder == \A a \in Admins : Rising(mailed[a])

LEMMA NatLists ==
  ASSUME ListsOK, RestOK
  PROVE  /\ actions \in Seq(Nat) /\ batch \in Seq(Nat) /\ text \in Seq(Nat)
         /\ \A a \in Admins : mailed[a] \in Seq(Nat)
         /\ Range(actions) \subseteq 1 .. pushed /\ Range(batch) \subseteq 1 .. pushed
         /\ Range(text) \subseteq 1 .. pushed
         /\ \A a \in Admins : Range(mailed[a]) \subseteq 1 .. pushed
<1>1. 1 .. pushed \subseteq Nat
  BY DEF RestOK
<1> QED
  BY <1>1, SeqMonotonic, RangeOfSeq DEF ListsOK

LEMMA EmptyRises == Rising(<<>>) /\ Range(<<>>) = {}
<1>1. Len(<<>>) = 0
  BY EmptySeq
<1> QED
  BY <1>1, RangeEmpty DEF Rising

LEMMA OrderInit == Init => Orderly
  BY EmptyRises DEF Init, Orderly, Ahead

\* A sender that goes to sleep or ends leaves nothing behind to be out of order.
LEMMA SenderLeaves ==
  ASSUME Orderly, batch' = <<>>, text' = <<>>, UNCHANGED mailed,
         actions' = actions \/ actions' = <<>>
  PROVE  Orderly'
  BY EmptyRises DEF Orderly, Ahead

LEMMA OrderStep == Typed /\ Orderly /\ [Next]_vars => Orderly'
<1> SUFFICES ASSUME ListsOK, RestOK, SenderOK, Orderly, [Next]_vars PROVE Orderly'
  BY DEF Typed
<1> USE DEF senderVars, historyVars
<1>1. CASE Push
  <2>1. /\ actions' = Append(actions, pushed + 1) /\ mailed' = mailed
        /\ batch' = <<>> /\ text' = <<>>
    BY <1>1 DEF Push, SenderAt
  <2>2. pushed \in Nat /\ pushed + 1 \in Nat /\ \A x \in 1 .. pushed : x < pushed + 1
    BY DEF RestOK
  <2>3. Rising(actions')
    BY <2>1, <2>2, NatLists, AppendRises DEF Orderly
  <2>4. Range(actions') = Range(actions) \cup {pushed + 1}
    BY <2>1, <2>2, NatLists, RangeAppend
  <2>5. \A a \in Admins : Ahead(mailed'[a], actions')
    BY <2>1, <2>2, <2>4, NatLists DEF Orderly, Ahead
  <2> QED
    BY <2>1, <2>3, <2>5, EmptyRises DEF Orderly, Ahead
<1>2. CASE Wake
  <2>1. CASE actions = <<>>
    BY <1>2, <2>1, SenderLeaves DEF Wake, SenderAt
  <2>2. CASE actions # <<>>
    <3>1. /\ batch' = actions /\ actions' = <<>> /\ text' = <<>> /\ mailed' = mailed
      BY <1>2, <2>2 DEF Wake, SenderOK
    <3> QED
      BY <3>1, EmptyRises DEF Orderly, Ahead
  <2> QED
    BY <2>1, <2>2
<1>3. CASE Render
  <2>1. /\ batch' = Tail(batch) /\ UNCHANGED <<actions, mailed, todo>>
        /\ text' = Append(text, Head(batch)) \/ text' = text
        /\ spc = "render" /\ spc' # "send" /\ batch # <<>>
    BY <1>3 DEF Render, AfterRender, SenderOK
  <2>2. Range(batch) = Range(batch') \cup {Head(batch)}
    BY <2>1, NatLists, RangeTail
  <2>3. Rising(batch') /\ \A y \in Range(batch') : Head(batch) < y
    BY <2>1, NatLists, TailRises DEF Orderly
  <2>4. Rising(text') /\ Range(text') \subseteq Range(text) \cup {Head(batch)}
    <3>1. Head(batch) \in Nat /\ \A x \in Range(text) : x < Head(batch)
      BY <2>1, <2>2, NatLists, HeadTailProperties DEF Orderly, Ahead
    <3>2. text \in Seq(Nat) /\ Rising(text)
      BY NatLists DEF Orderly
    <3>3. /\ Rising(Append(text, Head(batch)))
          /\ Range(Append(text, Head(batch))) = Range(text) \cup {Head(batch)}
      BY <3>1, <3>2, AppendRises, RangeAppend
    <3> QED
      BY <2>1, <3>2, <3>3
  <2>5. Ahead(text', batch') /\ Ahead(text', actions') /\ Ahead(batch', actions')
    BY <2>1, <2>2, <2>3, <2>4 DEF Orderly, Ahead
  <2>6. ASSUME NEW a \in Admins
        PROVE  /\ Rising(mailed'[a]) /\ Ahead(mailed'[a], actions')
               /\ Ahead(mailed'[a], batch') /\ Ahead(mailed'[a], text')
    BY <2>1, <2>2, <2>4 DEF Orderly, Ahead
  <2> QED
    BY <2>1, <2>3, <2>4, <2>5, <2>6 DEF Orderly
<1>4. CASE FetchAdmins
  BY <1>4 DEF FetchAdmins, Orderly
<1>5. ASSUME NEW a \in Admins, Mail(a) PROVE Orderly'
  <2>1. /\ mailed' = [mailed EXCEPT ![a] = mailed[a] \o text] /\ actions' = actions
        /\ spc = "send" /\ a \in todo /\ batch = <<>> /\ batch' = <<>>
        /\ text' = <<>> \/ (text' = text /\ spc' = "send" /\ todo' = todo \ {a})
    BY <1>5 DEF Mail, SenderAt, SenderOK
  <2>2. Rising(mailed[a] \o text) /\ Range(mailed[a] \o text) = Range(mailed[a]) \cup Range(text)
    BY <2>1, NatLists, ConcatRises, RangeConcat DEF Orderly
  <2>3. \A b \in Admins : mailed'[b] = IF b = a THEN mailed[a] \o text ELSE mailed[b]
    BY <2>1 DEF ListsOK
  <2>4. ASSUME NEW b \in Admins PROVE Rising(mailed'[b]) /\ Ahead(mailed'[b], actions')
    BY <2>1, <2>2, <2>3 DEF Orderly, Ahead
  <2>5. ASSUME NEW b \in Admins, spc' = "send" => b \in todo' PROVE Ahead(mailed'[b], text')
    <3>1. CASE text' = <<>>
      BY <3>1, EmptyRises DEF Ahead
    <3>2. CASE text' = text /\ spc' = "send" /\ todo' = todo \ {a}
      <4>1. b \in todo /\ b # a
        BY <2>5, <3>2
      <4>2. Ahead(mailed[b], text) /\ mailed'[b] = mailed[b]
        BY <2>3, <4>1 DEF Orderly
      <4> QED
        BY <3>2, <4>2
    <3> QED
      BY <2>1, <3>1, <3>2
  <2>6. Rising(text') /\ Ahead(text', actions')
    BY <2>1, EmptyRises DEF Orderly, Ahead
  <2> QED
    BY <2>1, <2>4, <2>5, <2>6, EmptyRises DEF Orderly, Ahead
<1>6. CASE SenderFails
  BY <1>6, SenderLeaves DEF SenderFails, SenderAt
<1>7. CASE Stop
  BY <1>7, SenderLeaves DEF Stop, SenderAt
<1>8. CASE UNCHANGED vars
  BY <1>8 DEF vars, Orderly, Ahead
<1> QED
  BY <1>1, <1>2, <1>3, <1>4, <1>5, <1>6, <1>7, <1>8 DEF Next, SenderSteps

\* No admin is mailed an action twice or before an earlier one, however the
\* sender is cancelled and restarted, for any admins, actions and failures.
THEOREM MailedInOrder == Safety => []InOrder
<1>1. Orderly => InOrder
  BY DEF Orderly, InOrder
<1> QED
  BY TypeInit, TypeStep, OrderInit, OrderStep, <1>1, PTL DEF Safety

-----------------------------------------------------------------------------
(* Every action is accounted for. *)

LEMMA AccountedStep == Typed /\ AccountedFor /\ [Next]_vars => AccountedFor'
<1> SUFFICES ASSUME ListsOK, RestOK, SenderOK, AccountedFor, [Next]_vars PROVE AccountedFor'
  BY DEF Typed
<1> USE DEF senderVars, historyVars
<1>1. CASE Push
  <2>1. /\ actions' = Append(actions, pushed + 1) /\ pushed' = pushed + 1
        /\ lost' = lost \cup InHand /\ UNCHANGED <<mailed, void>>
    BY <1>1 DEF Push
  <2>2. pushed + 1 \in Nat /\ \A n \in 1 .. pushed + 1 : n \in 1 .. pushed \/ n = pushed + 1
    BY DEF RestOK
  <2>3. Range(actions') = Range(actions) \cup {pushed + 1}
    BY <2>1, <2>2, NatLists, RangeAppend
  <2> QED
    BY <2>1, <2>2, <2>3 DEF AccountedFor
<1>2. CASE Wake
  <2>1. CASE actions = <<>>
    BY <1>2, <2>1 DEF Wake, SenderAt, SenderOK, AccountedFor, InHand
  <2>2. CASE actions # <<>>
    BY <1>2, <2>2, RangeEmpty DEF Wake, SenderOK, AccountedFor, InHand
  <2> QED
    BY <2>1, <2>2
<1>3. CASE Render
  <2>1. /\ batch' = Tail(batch) /\ spc = "render" /\ spc' # "send" /\ batch # <<>>
        /\ \/ text' = Append(text, Head(batch)) /\ void' = void
           \/ text' = text /\ void' = void \cup {Head(batch)}
        /\ UNCHANGED <<actions, pushed, mailed, lost>>
    BY <1>3 DEF Render, AfterRender, SenderOK
  <2>2. Range(batch) = Range(batch') \cup {Head(batch)} /\ Head(batch) \in Nat
    BY <2>1, NatLists, RangeTail, HeadTailProperties
  <2>3. Range(Append(text, Head(batch))) = Range(text) \cup {Head(batch)}
    BY <2>2, NatLists, RangeAppend
  <2>4. InHand \cup void \subseteq InHand' \cup void' /\ void \subseteq void'
    BY <2>1, <2>2, <2>3 DEF InHand
  <2> QED
    BY <2>1, <2>4 DEF AccountedFor
<1>4. CASE FetchAdmins
  BY <1>4 DEF FetchAdmins, AccountedFor, InHand
<1>5. ASSUME NEW a \in Admins, Mail(a) PROVE AccountedFor'
  <2>1. /\ mailed' = [mailed EXCEPT ![a] = mailed[a] \o text]
        /\ spc = "send" /\ batch = <<>> /\ UNCHANGED <<actions, pushed, void, lost>>
        /\ \/ todo = {a}
           \/ todo' = todo \ {a} /\ UNCHANGED <<spc, batch, text>>
    BY <1>5 DEF Mail, SenderOK
  <2>2. Range(mailed[a] \o text) = Range(mailed[a]) \cup InHand
    BY <2>1, NatLists, RangeConcat, RangeEmpty DEF InHand
  <2>3. \A b \in Admins : mailed'[b] = IF b = a THEN mailed[a] \o text ELSE mailed[b]
    BY <2>1 DEF ListsOK
  <2>4. CASE todo = {a}
    BY <2>1, <2>2, <2>3, <2>4 DEF AccountedFor
  <2>5. CASE todo' = todo \ {a} /\ UNCHANGED <<spc, batch, text>>
    BY <2>1, <2>2, <2>3, <2>5 DEF AccountedFor, InHand
  <2> QED
    BY <2>1, <2>4, <2>5
<1>6. CASE SenderFails
  BY <1>6 DEF SenderFails, AccountedFor
<1>7. CASE Stop
  BY <1>7 DEF Stop, AccountedFor
<1>8. CASE UNCHANGED vars
  BY <1>8 DEF vars, AccountedFor, InHand
<1> QED
  BY <1>1, <1>2, <1>3, <1>4, <1>5, <1>6, <1>7, <1>8 DEF Next, SenderSteps

\* Every action pushed is in the list, with the sender, mailed to every admin
\* or none, unless a push, a failure or a stop met a sender that had taken it.
THEOREM ActionsAccounted == Safety => []AccountedFor
<1>1. Init => AccountedFor
  BY DEF Init, AccountedFor
<1> QED
  BY TypeInit, TypeStep, AccountedStep, <1>1, PTL DEF Safety

-----------------------------------------------------------------------------
(* The refinement: what the admins see of the log is a Bulletin. *)

\* An action that is none, or lost, is neither in the list nor with the sender.
SettledIsGone == (void \cup lost) \cap (Range(actions) \cup InHand) = {}

LEMMA SettledStep == Typed /\ Orderly /\ SettledIsGone /\ [Next]_vars => SettledIsGone'
<1> SUFFICES ASSUME ListsOK, RestOK, SenderOK, Orderly, SettledIsGone, [Next]_vars
             PROVE  SettledIsGone'
  BY DEF Typed
<1> USE DEF senderVars, historyVars
<1>0. /\ Range(actions) \subseteq 1 .. pushed /\ void \subseteq 1 .. pushed
      /\ lost \subseteq 1 .. pushed /\ pushed \in Nat
  BY NatLists DEF RestOK
<1>1. \A x \in InHand : x \notin Range(actions)
  <2>1. InHand \subseteq Nat /\ \A x \in InHand, y \in Range(actions) : x < y
    BY NatLists DEF InHand, Orderly, Ahead, RestOK
  <2> QED
    BY <2>1
<1>2. CASE Push
  <2>1. /\ actions' = Append(actions, pushed + 1) /\ batch' = <<>> /\ text' = <<>>
        /\ lost' = lost \cup InHand /\ void' = void
    BY <1>2 DEF Push, SenderAt
  <2>2. Range(actions') = Range(actions) \cup {pushed + 1} /\ pushed + 1 \notin 1 .. pushed
    BY <1>0, <2>1, NatLists, RangeAppend
  <2>3. InHand' = {} /\ InHand \subseteq 1 .. pushed
    BY <2>1, RangeEmpty, NatLists DEF InHand
  <2> QED
    BY <1>0, <1>1, <2>1, <2>2, <2>3 DEF SettledIsGone
<1>3. CASE Wake
  <2>1. UNCHANGED <<void, lost>> /\ Range(actions') \cup InHand' = Range(actions) \cup InHand
    BY <1>3, RangeEmpty DEF Wake, SenderAt, SenderOK, InHand
  <2> QED
    BY <2>1 DEF SettledIsGone
<1>4. CASE Render
  <2>1. /\ batch' = Tail(batch) /\ batch # <<>> /\ UNCHANGED <<actions, lost>>
        /\ \/ text' = Append(text, Head(batch)) /\ void' = void
           \/ text' = text /\ void' = void \cup {Head(batch)}
    BY <1>4 DEF Render, SenderOK
  <2>2. Range(batch) = Range(batch') \cup {Head(batch)} /\ Head(batch) \in Nat
    BY <2>1, NatLists, RangeTail, HeadTailProperties
  <2>3. Range(Append(text, Head(batch))) = Range(text) \cup {Head(batch)}
    BY <2>2, NatLists, RangeAppend
  <2>4. InHand' \subseteq InHand
    BY <2>1, <2>2, <2>3 DEF InHand
  <2>5. Head(batch) \notin Range(batch') /\ Head(batch) \notin Range(text)
    <3>1. /\ \A y \in Range(batch') : Head(batch) < y
          /\ \A x \in Range(text) : x < Head(batch)
      BY <2>1, <2>2, NatLists, TailRises DEF Orderly, Ahead
    <3> QED
      BY <2>2, <3>1
  <2>6. Head(batch) \notin Range(actions)
    BY <1>1, <2>2 DEF InHand
  <2>7. CASE void' = void
    BY <2>1, <2>4, <2>7 DEF SettledIsGone
  <2>8. CASE text' = text /\ void' = void \cup {Head(batch)}
    BY <2>1, <2>4, <2>5, <2>6, <2>8 DEF SettledIsGone, InHand
  <2> QED
    BY <2>1, <2>7, <2>8
<1>5. CASE FetchAdmins
  BY <1>5 DEF FetchAdmins, SettledIsGone, InHand
<1>6. ASSUME NEW a \in Admins, Mail(a) PROVE SettledIsGone'
  <2>1. UNCHANGED <<actions, void, lost>> /\ InHand' \subseteq InHand
    BY <1>6, RangeEmpty DEF Mail, SenderAt, InHand
  <2> QED
    BY <2>1 DEF SettledIsGone
<1>7. CASE SenderFails \/ Stop
  <2>1. /\ InHand' = {} /\ void' = void
        /\ \/ actions' = actions /\ lost' = lost \cup InHand
           \/ actions' = <<>>
    BY <1>7, RangeEmpty DEF SenderFails, Stop, SenderAt, InHand
  <2> QED
    BY <1>1, <2>1, RangeEmpty DEF SettledIsGone
<1>8. CASE UNCHANGED vars
  BY <1>8 DEF vars, SettledIsGone, InHand
<1> QED
  BY <1>2, <1>3, <1>4, <1>5, <1>6, <1>7, <1>8 DEF Next, SenderSteps

\* A mail to an admin is a letter of the bulletin: what it brings was open, and
\* leaves no gap before it, since all else that is open is still in the list.
LEMMA MailSends ==
  ASSUME ListsOK, RestOK, SenderOK, Orderly, AccountedFor, SettledIsGone,
         NEW a \in Admins, Mail(a)
  PROVE  List!Send(a)
<1> DEFINE t == mailed[a] \o text
<1>1. /\ mailed' = [mailed EXCEPT ![a] = t] /\ mailed'[a] = t
      /\ spc = "send" /\ a \in todo /\ batch = <<>> /\ UNCHANGED <<pushed, void, lost>>
  BY DEF Mail, SenderOK, ListsOK
<1>2. mailed[a] \in Seq(Nat) /\ text \in Seq(Nat)
  BY NatLists
<1>3. Ahead(mailed[a], text) /\ Rising(t) /\ Range(t) = Range(mailed[a]) \cup Range(text)
  BY <1>1, <1>2, ConcatRises, RangeConcat DEF Orderly
<1>4. List!Continues(t, mailed[a])
  <2>1. /\ Len(mailed[a]) \in Nat /\ Len(text) \in Nat
        /\ Len(t) = Len(mailed[a]) + Len(text)
        /\ \A i \in 1 .. Len(mailed[a]) + Len(text) :
              t[i] = IF i <= Len(mailed[a]) THEN mailed[a][i] ELSE text[i - Len(mailed[a])]
    BY <1>2, ConcatProperties, LenProperties
  <2> HIDE DEF t
  <2> QED
    BY <2>1 DEF List!Continues
<1>5. /\ InHand = Range(text) /\ Range(text) \subseteq 1 .. pushed
      /\ Range(mailed[a]) \subseteq 1 .. pushed /\ Range(actions) \subseteq 1 .. pushed
      /\ pushed \in Nat
  BY <1>1, NatLists, RangeEmpty DEF InHand, RestOK
<1>6. Range(t) \ Range(mailed[a]) \subseteq List!Posts \ (void \cup lost)
  BY <1>3, <1>5 DEF List!Posts, SettledIsGone
<1>7. ASSUME NEW n \in Range(t), NEW m \in 1 .. pushed, m < n
      PROVE  m \in Range(t) \cup (void \cup lost)
  <2>1. n \in Nat /\ \A y \in Range(actions) : n < y
    BY <1>3, <1>5 DEF Orderly, Ahead
  <2>2. m \notin Range(actions)
    BY <1>5, <1>7, <2>1
  <2> QED
    BY <1>1, <1>3, <1>5, <2>2 DEF AccountedFor
<1> HIDE DEF t
<1>8. List!InTurn(mailed'[a])
  BY <1>1, <1>3, <1>7 DEF List!InTurn, List!Rising, Rising, List!Posts, Range, List!Range
<1> QED
  BY <1>1, <1>4, <1>6, <1>8 DEF List!Send, Range, List!Range

\* The audit log implements the Bulletin: to the admins, pushes, cancelled
\* senders, failures and stops are posts that come, posts that are closed for
\* good, and letters that continue where the last one ended.
THEOREM LogRefinesBulletin == Safety => MailedInTurn
<1>1. Init => List!Init /\ SettledIsGone
  BY RangeEmpty DEF Init, List!Init, SettledIsGone, InHand
<1>2. Typed /\ Orderly /\ AccountedFor /\ SettledIsGone /\ [Next]_vars
        => [List!Next]_<<pushed, void \cup lost, mailed>>
  <2> SUFFICES ASSUME ListsOK, RestOK, SenderOK, Orderly, AccountedFor, SettledIsGone,
                      [Next]_vars
               PROVE  List!Next \/ UNCHANGED <<pushed, void \cup lost, mailed>>
    BY DEF Typed
  <2> USE DEF senderVars, historyVars
  <2>0. /\ void \subseteq 1 .. pushed /\ lost \subseteq 1 .. pushed
        /\ InHand \subseteq 1 .. pushed /\ Range(actions) \subseteq 1 .. pushed
    BY NatLists DEF RestOK, InHand
  <2>1. CASE Push
    BY <2>0, <2>1 DEF Push, List!Next, List!Post, List!Closing, List!Posts
  <2>2. CASE Wake \/ FetchAdmins
    BY <2>2 DEF Wake, FetchAdmins
  <2>3. CASE Render
    <3>1. /\ void' = void \/ void' = void \cup {Head(batch)}
          /\ UNCHANGED <<pushed, mailed, lost>> /\ batch # <<>>
      BY <2>3 DEF Render, SenderOK
    <3>2. Head(batch) \in 1 .. pushed
      BY <3>1, HeadTailProperties DEF ListsOK
    <3> QED
      BY <2>0, <3>1, <3>2 DEF List!Next, List!Close, List!Closing, List!Posts
  <2>4. ASSUME NEW a \in Admins, Mail(a) PROVE List!Next
    BY <2>4, MailSends DEF List!Next
  <2>5. CASE SenderFails
    BY <2>0, <2>5 DEF SenderFails, List!Next, List!Close, List!Closing, List!Posts
  <2>6. CASE Stop
    BY <2>0, <2>6 DEF Stop, List!Next, List!Close, List!Closing, List!Posts
  <2>7. CASE UNCHANGED vars
    BY <2>7 DEF vars
  <2> QED
    BY <2>1, <2>2, <2>3, <2>4, <2>5, <2>6, <2>7 DEF Next, SenderSteps
<1>3. Init => AccountedFor
  BY DEF Init, AccountedFor
<1> QED
  BY <1>1, <1>2, <1>3, TypeInit, TypeStep, OrderInit, OrderStep, AccountedStep, SettledStep, PTL
  DEF Safety, MailedInTurn, List!Spec

\* A Bulletin keeps its promise: every reader has had, in order, all the posts
\* up to the last one sent to that reader, but those that are closed.
THEOREM BulletinKeepsTurns == List!Spec => []List!AllInTurn
<1> DEFINE BInv == /\ pushed \in Nat /\ DOMAIN mailed = Admins /\ List!AllInTurn
                   /\ \A a \in Admins : List!Range(mailed[a]) \subseteq List!Posts
<1>1. List!Init => BInv
  BY EmptyRises DEF List!Init, List!AllInTurn, List!InTurn, List!Rising, Rising, Range, List!Range
<1>2. BInv /\ [List!Next]_<<pushed, void \cup lost, mailed>> => BInv'
  <2> SUFFICES ASSUME BInv, [List!Next]_<<pushed, void \cup lost, mailed>> PROVE BInv'
    OBVIOUS
  <2> USE DEF List!AllInTurn, List!InTurn
  <2>1. CASE List!Post \/ List!Close \/ UNCHANGED <<pushed, void \cup lost, mailed>>
    <3>1. /\ mailed' = mailed /\ pushed' \in {pushed, pushed + 1}
          /\ void \cup lost \subseteq void' \cup lost'
      BY <2>1 DEF List!Post, List!Close, List!Closing
    <3>2. ASSUME NEW a \in Admins PROVE List!InTurn(mailed[a])'
      BY <3>1, <3>2 DEF List!Posts, List!Rising
    <3> QED
      BY <3>1, <3>2 DEF List!Posts
  <2>2. ASSUME NEW a \in Admins, List!Send(a) PROVE BInv'
    <3>1. /\ UNCHANGED <<pushed, void \cup lost>> /\ List!InTurn(mailed'[a])
          /\ DOMAIN mailed' = Admins
          /\ \A b \in Admins : b # a => mailed'[b] = mailed[b]
          /\ List!Range(mailed'[a]) \ List!Range(mailed[a]) \subseteq List!Posts
      BY <2>2 DEF List!Send
    <3> QED
      BY <3>1 DEF List!Posts
  <2> QED
    BY <2>1, <2>2 DEF List!Next
<1> QED
  BY <1>1, <1>2, PTL DEF List!Spec

\* And so the log: an admin who was mailed an action has been mailed every
\* earlier one, but those that are none or were lost, and all of them in order.
THEOREM AdminsHearAllInTurn == Safety => []List!AllInTurn
  BY LogRefinesBulletin, BulletinKeepsTurns, PTL DEF MailedInTurn

-----------------------------------------------------------------------------
(* The log at rest. *)

\* When no sender is left the list is empty, and every action was mailed to
\* every admin but those that are none and those that were lost: losing them to
\* a push, a failure or a stop is all that AllAreMailed fails by.
RestIsMailed ==
    spc = "none" =>
        /\ actions = <<>>
        /\ \A n \in (1 .. pushed) \ (void \cup lost), a \in Admins : n \in Range(mailed[a])

\* _sender leaves nothing behind when it ends, however it ends (audit_log.py:151).
THEOREM RestingLogIsMailed == Safety => []RestIsMailed
<1>1. Typed /\ QueueIsAttended /\ AccountedFor => RestIsMailed
  <2> SUFFICES ASSUME Typed, QueueIsAttended, AccountedFor, spc = "none" PROVE RestIsMailed
    BY DEF RestIsMailed
  <2>1. actions = <<>> /\ InHand = {} /\ Range(actions) = {}
    BY RangeEmpty DEF Typed, SenderOK, QueueIsAttended, InHand
  <2> QED
    BY <2>1 DEF RestIsMailed, AccountedFor
<1>2. Init => AccountedFor
  BY DEF Init, AccountedFor
<1> QED
  BY <1>1, <1>2, QueueAttended, TypeInit, TypeStep, AccountedStep, PTL DEF Safety
=============================================================================
