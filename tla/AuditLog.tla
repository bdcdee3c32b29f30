------------------------------ MODULE AuditLog ------------------------------
(***************************************************************************)
(* The audit log: what admins do is put in a list in memory, and a sender  *)
(* task that every new action restarts mails the list to the admins once   *)
(* it has been left alone for a minute.  Actions are named 1, 2, ... in    *)
(* the order they are pushed; each step is what runs between two awaits.   *)
(***************************************************************************)
EXTENDS Naturals, Sequences, SequencesExt

CONSTANTS
    Admins,      \* those who have audit_log_emails set
    MaxActions,  \* bound: actions pushed
    MaxFailures  \* bound: senders that fail, servers that stop

ASSUME AuditAssumption ==
    /\ Admins # {}
    /\ MaxActions \in Nat /\ MaxFailures \in Nat

VARIABLES
    actions,  \* AuditLog.actions
    spc,      \* the await the sender stands at; "none": there is no sender
    batch,    \* its locals: the actions it took and has not rendered,
    text,     \*   those it has,
    todo,     \*   and the admins it has not mailed
    pushed,   \* how many actions there have been
    failures,
    mailed,   \* history: what each admin was mailed, in order
    void,     \* history: actions that turned out to be none
    lost      \* history: actions not every admin will be mailed (see below)

senderVars == <<spc, batch, text, todo>>
historyVars == <<mailed, void, lost>>
vars == <<actions, senderVars, pushed, failures, historyVars>>

InHand == Range(batch) \cup Range(text)

TypeOK ==
    /\ pushed \in 0 .. MaxActions /\ failures \in 0 .. MaxFailures
    /\ actions \in Seq(1 .. pushed)
    /\ spc \in {"none", "asleep", "render", "admins", "send"}
    /\ batch \in Seq(1 .. pushed) /\ text \in Seq(1 .. pushed)
    /\ todo \subseteq Admins
    /\ mailed \in [Admins -> Seq(1 .. pushed)]
    /\ void \subseteq 1 .. pushed /\ lost \subseteq 1 .. pushed

Init ==
    /\ actions = <<>> /\ pushed = 0 /\ failures = 0
    /\ spc = "none" /\ batch = <<>> /\ text = <<>> /\ todo = {}
    /\ mailed = [a \in Admins |-> <<>>]
    /\ void = {} /\ lost = {}

\* The sender is somewhere else and what it had is gone.
SenderAt(step) == spc' = step /\ batch' = <<>> /\ text' = <<>> /\ todo' = {}

-----------------------------------------------------------------------------
(* push, at the end of an async with whose body raised nothing *)

\* Mutant: a sender that is still there is left alone.
PushKeepingSender ==
    /\ pushed < MaxActions
    /\ pushed' = pushed + 1
    /\ actions' = Append(actions, pushed')
    /\ IF spc = "none" THEN SenderAt("asleep") ELSE UNCHANGED senderVars
    /\ UNCHANGED <<failures, historyVars>>

\* Mutant: the sender is cancelled and none takes its place.
PushCancelling ==
    /\ pushed < MaxActions
    /\ pushed' = pushed + 1
    /\ actions' = Append(actions, pushed')
    /\ IF spc = "none" THEN SenderAt("asleep") ELSE SenderAt("none")
    /\ lost' = lost \cup InHand
    /\ UNCHANGED <<failures, mailed, void>>

\* _reset cancels the sender wherever it is, and what it took from the list
\* goes with it.
Push ==
    /\ pushed < MaxActions
    /\ pushed' = pushed + 1
    /\ actions' = Append(actions, pushed')
    /\ SenderAt("asleep")
    /\ lost' = lost \cup InHand
    /\ UNCHANGED <<failures, mailed, void>>

-----------------------------------------------------------------------------
(* _sender and _consume_and_process_queue *)

\* Mutant: the list is copied and not wiped.
WakeCopying ==
    /\ spc = "asleep" /\ actions # <<>>
    /\ batch' = actions /\ spc' = "render"
    /\ UNCHANGED <<actions, text, todo, pushed, failures, historyVars>>

Wake ==
    /\ spc = "asleep"
    /\ IF actions = <<>> THEN SenderAt("none") /\ UNCHANGED actions
       ELSE /\ batch' = actions /\ actions' = <<>> /\ spc' = "render"
            /\ UNCHANGED <<text, todo>>
    /\ UNCHANGED <<pushed, failures, historyVars>>

\* Where the loop over the actions goes on.
AfterRender ==
    spc' = IF batch' # <<>> THEN "render" ELSE IF text' # <<>> THEN "admins" ELSE "none"

\* Mutant: an action that is none ends the loop.
RenderUntilVoid ==
    /\ spc = "render"
    /\ \/ /\ batch' = Tail(batch) /\ text' = Append(text, Head(batch))
          /\ UNCHANGED void
       \/ batch' = <<>> /\ void' = void \cup {Head(batch)} /\ UNCHANGED text
    /\ AfterRender
    /\ UNCHANGED <<actions, todo, pushed, failures, mailed, lost>>

\* Mutant: the None of an action that is none is put in the text.
RenderNone ==
    /\ spc = "render"
    /\ batch' = Tail(batch)
    /\ \/ text' = Append(text, Head(batch)) /\ UNCHANGED void
       \/ text' = Append(text, 0) /\ void' = void \cup {Head(batch)}
    /\ AfterRender
    /\ UNCHANGED <<actions, todo, pushed, failures, mailed, lost>>

\* An edit that changed nothing is no action: its details() are False.
Render ==
    /\ spc = "render"
    /\ batch' = Tail(batch)
    /\ \/ text' = Append(text, Head(batch)) /\ UNCHANGED void
       \/ void' = void \cup {Head(batch)} /\ UNCHANGED text
    /\ AfterRender
    /\ UNCHANGED <<actions, todo, pushed, failures, mailed, lost>>

FetchAdmins ==
    /\ spc = "admins"
    /\ todo' = Admins /\ spc' = "send"
    /\ UNCHANGED <<actions, batch, text, pushed, failures, historyVars>>

Mail(a) ==
    /\ spc = "send" /\ a \in todo
    /\ mailed' = [mailed EXCEPT ![a] = @ \o text]
    /\ IF todo = {a} THEN SenderAt("none")
       ELSE todo' = todo \ {a} /\ UNCHANGED <<spc, batch, text>>
    /\ UNCHANGED <<actions, pushed, failures, void, lost>>

\* Rendering, the query or a mail raises: _sender logs that and ends.
SenderFails ==
    /\ spc \in {"render", "admins", "send"} /\ failures < MaxFailures
    /\ failures' = failures + 1
    /\ lost' = lost \cup InHand
    /\ SenderAt("none")
    /\ UNCHANGED <<actions, pushed, mailed, void>>

\* The server stops, for good or to start again: the list was in memory.
Stop ==
    /\ failures < MaxFailures
    /\ failures' = failures + 1
    /\ lost' = lost \cup InHand \cup Range(actions)
    /\ actions' = <<>>
    /\ SenderAt("none")
    /\ UNCHANGED <<pushed, mailed, void>>

SenderSteps == Wake \/ Render \/ FetchAdmins \/ \E a \in Admins : Mail(a)

Next == Push \/ SenderSteps \/ SenderFails \/ Stop

Safety == Init /\ [][Next]_vars

\* The minute passes and the event loop runs the sender.  Nothing makes an
\* admin act, or a sender fail.
Spec == Safety /\ WF_vars(SenderSteps)

-----------------------------------------------------------------------------
(* Properties. *)

\* The log as what the admins are promised of it.
List == INSTANCE Bulletin WITH Readers <- Admins,
            posted <- pushed, closed <- void \cup lost, sent <- mailed

\* However the sender is cancelled and restarted, between two mails or before
\* the list is taken, an admin is mailed an action at most once and the actions
\* in the order they were pushed, and is mailed none before every earlier one
\* but those that are none or were lost, which nobody is mailed from then on.
MailedInTurn == List!Spec

\* An action that is in the list has a sender asleep that will take it: pushes
\* and the end of a sender never leave the list unattended.
QueueIsAttended == actions # <<>> => spc = "asleep"

\* An action is in the list, or turned out to be none, or was mailed to every
\* admin the sender is past; or else a push, a failure or a stop met a sender
\* that had taken it.
AccountedFor ==
    \A n \in 1 .. pushed :
        \/ n \in Range(actions) \cup void \cup lost
        \/ \A a \in Admins : \/ n \in Range(mailed[a])
                             \/ n \in InHand /\ (spc = "send" => a \in todo)

\* Once pushes stop for long enough every action is settled: none stays in the
\* list or with a sender for good.
EventuallySettled ==
    \A n \in 1 .. MaxActions :
        n <= pushed ~> \/ n \in void \cup lost
                       \/ \A a \in Admins : n \in Range(mailed[a])

\* "Consume the queue, rendering all actions and sending the email."
\* (audit_log.py:166): when nothing failed and no sender is left, every action
\* was mailed to every admin.  The code breaks it: a push cancels the sender
\* that has just emptied the list.
AllAreMailed ==
    spc = "none" /\ failures = 0 =>
        \A n \in (1 .. pushed) \ void, a \in Admins : n \in Range(mailed[a])
=============================================================================
