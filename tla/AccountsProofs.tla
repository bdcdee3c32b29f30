--------------------------- MODULE AccountsProofs ---------------------------
(***************************************************************************)
(* For any users, files, tokens, passwords and number of requests: the     *)
(* types; that the job managers know the jobs there are; that a mailed     *)
(* token works once, that tokens are limited, and that the password in     *)
(* force is the one last chosen, but for the named reasons.                *)
(***************************************************************************)
EXTENDS Accounts, FiniteSetTheorems, TLAPS

USE AccountsAssumption

-----------------------------------------------------------------------------
(* What a step does to the requests. *)

Others(q) == \A o \in Requests : o # q => req'[o] = req[o]
RequestsTyped ==
    /\ req \in [Requests -> Locals]
    /\ asked \in 0 .. MaxAsked /\ aborts \in 0 .. MaxAborts

LEMMA AnyUserIsUser == AnyUser \in Users /\ FirstPassword \in Passwords
  BY DEF AnyUser, FirstPassword

LEMMA IdleFields ==
  /\ Idle \in Locals
  /\ Idle.at = "idle" /\ Idle.home = "web" /\ Idle.token = NoToken
  BY AnyUserIsUser DEF Idle, Locals, Steps, Processes, Mailed!Kinds

LEMMA LocalFields ==
  ASSUME NEW step \in Steps, NEW u \in Users
  PROVE  /\ Local(step, u) \in Locals
         /\ Local(step, u).at = step /\ Local(step, u).who = u
         /\ Local(step, u).home = "web" /\ Local(step, u).token = NoToken
         /\ Local(step, u).kind = "reset" /\ Local(step, u).secret = FirstPassword
  BY AnyUserIsUser DEF Local, Idle, Locals, Processes, Mailed!Kinds

LEMMA RequestMoves ==
  ASSUME TypeOK, NEW q \in Requests, NEW l \in Locals, req' = [req EXCEPT ![q] = l]
  PROVE  /\ req' \in [Requests -> Locals] /\ req'[q] = l
         /\ \A o \in Requests : o # q => req'[o] = req[o]
  BY DEF TypeOK

LEMMA Asks ==
  ASSUME TypeOK, NEW q \in Requests, NEW l \in Locals, Ask(q, l)
  PROVE  RequestsTyped' /\ Others(q) /\ req[q].at = "idle" /\ req'[q] = l
<1>1. req' = [req EXCEPT ![q] = l] /\ UNCHANGED aborts /\ asked' = asked + 1 /\ asked < MaxAsked
      /\ req[q].at = "idle"
  BY DEF Ask, At
<1>2. asked' \in 0 .. MaxAsked /\ aborts' \in 0 .. MaxAborts
  BY <1>1 DEF TypeOK
<1> QED
  BY <1>1, <1>2, RequestMoves DEF Others, RequestsTyped

LEMMA Going ==
  ASSUME TypeOK, NEW q \in Requests, NEW step \in Steps, Goto(q, step)
  PROVE  /\ RequestsTyped' /\ Others(q)
         /\ req'[q].at = step /\ req'[q].who = req[q].who /\ req'[q].home = req[q].home
         /\ req'[q].token = req[q].token /\ req'[q].kind = req[q].kind
         /\ req'[q].secret = req[q].secret
<1>1. req[q] \in Locals /\ req \in [Requests -> Locals]
  BY DEF TypeOK
<1> DEFINE l == [req[q] EXCEPT !.at = step]
<1>2. /\ l \in Locals /\ l.at = step /\ l.who = req[q].who /\ l.home = req[q].home
      /\ l.token = req[q].token /\ l.kind = req[q].kind /\ l.secret = req[q].secret
  BY <1>1 DEF Locals
<1>3. req' = [req EXCEPT ![q] = l] /\ UNCHANGED <<asked, aborts>>
  BY <1>1 DEF Goto, bounds
<1> HIDE DEF l
<1> QED
  BY <1>2, <1>3, RequestMoves DEF Others, RequestsTyped, TypeOK

LEMMA Returning ==
  ASSUME TypeOK, NEW q \in Requests, Return(q)
  PROVE  RequestsTyped' /\ Others(q) /\ req'[q] = Idle
         /\ req'[q].at = "idle" /\ req'[q].home = "web" /\ req'[q].token = NoToken
<1>1. req' = [req EXCEPT ![q] = Idle] /\ UNCHANGED <<asked, aborts>>
  BY DEF Return, bounds
<1> QED
  BY <1>1, IdleFields, RequestMoves DEF Others, RequestsTyped, TypeOK

LEMMA Ordering ==
  ASSUME TypeOK, Order
  PROVE  RequestsTyped' /\ UNCHANGED req
  BY DEF Order, RequestsTyped, TypeOK

\* The requests there are, whichever process makes them.
LEMMA WhoAsks ==
  ASSUME NEW q \in Requests, Asking(q)
  PROVE  \/ \E u \in Users :
              \/ \E p \in Processes : Register(q, u, p) \/ AskDelete(q, u, p)
              \/ \E step \in {"upload", "shorten", "delete_all"} : AskUpload(q, u, step)
              \/ \E p \in Passwords : AskRevocation(q, u, p) \/ AskProfile(q, u, p)
              \/ \E k \in Mailed!Kinds : AskToken(q, u, k)
         \/ \E t \in Tokens : Confirm(q, t)
  BY DEF Asking, RegisterUser, AddUser, AdminDeletes, ManageDeletes, Processes

LEMMA RegisterAsks ==
  ASSUME TypeOK, NEW q \in Requests, NEW u \in Users, NEW p \in Processes, Register(q, u, p)
  PROVE  /\ RequestsTyped' /\ Others(q) /\ req[q].at = "idle"
         /\ req'[q].at = "limits" /\ req'[q].who = u /\ req'[q].token = NoToken
<1> DEFINE l == [Local("limits", u) EXCEPT !.home = p]
<1>1. l \in Locals /\ l.at = "limits" /\ l.who = u /\ l.token = NoToken
  BY LocalFields DEF Locals, Steps
<1>2. Ask(q, l)
  BY DEF Register
<1> HIDE DEF l
<1> QED
  BY <1>1, <1>2, Asks

LEMMA AskUploadAsks ==
  ASSUME TypeOK, NEW q \in Requests, NEW u \in Users,
         NEW step \in {"upload", "shorten", "delete_all"}, AskUpload(q, u, step)
  PROVE  /\ RequestsTyped' /\ Others(q) /\ req[q].at = "idle"
         /\ req'[q].at = step /\ req'[q].who = u /\ req'[q].token = NoToken
  BY LocalFields, Asks DEF AskUpload, Steps

LEMMA AskTokenAsks ==
  ASSUME TypeOK, NEW q \in Requests, NEW u \in Users, NEW k \in Mailed!Kinds, AskToken(q, u, k)
  PROVE  /\ RequestsTyped' /\ Others(q) /\ req[q].at = "idle"
         /\ req'[q].at = "count" /\ req'[q].who = u /\ req'[q].token = NoToken
<1> DEFINE l == [Local("count", u) EXCEPT !.kind = k]
<1>1. l \in Locals /\ l.at = "count" /\ l.who = u /\ l.token = NoToken
  BY LocalFields DEF Locals, Steps
<1>2. Ask(q, l)
  BY DEF AskToken
<1> HIDE DEF l
<1> QED
  BY <1>1, <1>2, Asks

PreUse == {"activate", "select", "reset"}

LEMMA ConfirmAsks ==
  ASSUME TypeOK, NEW q \in Requests, NEW t \in Tokens, Confirm(q, t)
  PROVE  /\ RequestsTyped' /\ Others(q) /\ req[q].at = "idle"
         /\ req'[q].at \in PreUse /\ req'[q].token = t /\ req'[q].home = "web"
<1>1. PICK w \in Users, k \in Mailed!Kinds : w = mail[t].who /\ k = mail[t].kind /\ k # "dump"
  BY DEF TypeOK, Mailed!MailTypeOK, Confirm
<1>2. PICK step \in PreUse : step = HandlerOf(k)
  BY <1>1 DEF HandlerOf, Mailed!Kinds, PreUse
<1>3. step \in Steps
  BY DEF PreUse, Steps
<1>4. PICK r \in Locals : r = Local(step, w) /\ r.at = step /\ r.home = "web"
  BY <1>3, LocalFields
<1> DEFINE l == [r EXCEPT !.token = t, !.kind = k]
<1>6. l \in Locals /\ l.at = step /\ l.token = t /\ l.home = "web"
  BY <1>4 DEF Locals
<1>5. Ask(q, l)
  BY <1>1, <1>2, <1>4 DEF Confirm
<1> HIDE DEF l
<1> QED
  BY <1>5, <1>6, Asks

LEMMA AskWithAsks ==
  ASSUME TypeOK, NEW q \in Requests, NEW u \in Users, NEW step \in {"rehash", "choose"},
         NEW p \in Passwords, AskWith(q, u, step, p)
  PROVE  /\ RequestsTyped' /\ Others(q) /\ req[q].at = "idle"
         /\ req'[q].at = step /\ req'[q].who = u /\ req'[q].token = NoToken
         /\ req'[q].secret = p
         /\ UNCHANGED <<tables, mail, jobVars, fate, uses, chosen, former>>
<1> DEFINE l == [Local(step, u) EXCEPT !.secret = p]
<1>1. l \in Locals /\ l.at = step /\ l.who = u /\ l.token = NoToken /\ l.secret = p
  BY LocalFields DEF Locals, Steps
<1>2. Ask(q, l)
  BY DEF AskWith
<1>3. UNCHANGED <<tables, mail, jobVars, fate, uses, chosen, former>>
  BY DEF AskWith
<1> HIDE DEF l
<1> QED
  BY <1>1, <1>2, <1>3, Asks

\* Of both that ask with a password, one with the one in force unless the user has raced.
LEMMA PasswordAsks ==
  ASSUME TypeOK, NEW q \in Requests, NEW u \in Users, NEW p \in Passwords,
         AskRevocation(q, u, p) \/ AskProfile(q, u, p)
  PROVE  /\ RequestsTyped' /\ Others(q) /\ req[q].at = "idle"
         /\ req'[q].at \in {"rehash", "choose"} /\ req'[q].who = u /\ req'[q].token = NoToken
         /\ UNCHANGED <<tables, mail, jobVars, fate, uses, chosen, former>>
         /\ \/ UNCHANGED raced /\ req'[q].secret = password[u]
            \/ raced' = raced \cup {u}
<1>1. CASE AskRevocation(q, u, p)
  <2>1. /\ AskWith(q, u, "rehash", p)
        /\ (UNCHANGED raced /\ p = password[u]) \/ raced' = raced \cup {u}
    BY <1>1 DEF AskRevocation, Checks
  <2> QED
    BY <2>1, AskWithAsks
<1>2. CASE AskProfile(q, u, p)
  <2>1. AskWith(q, u, "choose", p) /\ UNCHANGED raced /\ p = password[u]
    BY <1>2 DEF AskProfile, Checks
  <2> QED
    BY <2>1, AskWithAsks
<1> QED
  BY <1>1, <1>2

LEMMA AskDeleteAsks ==
  ASSUME TypeOK, NEW q \in Requests, NEW u \in Users, NEW p \in Processes, AskDelete(q, u, p)
  PROVE  /\ RequestsTyped' /\ Others(q) /\ req[q].at = "idle"
         /\ req'[q].at = "select" /\ req'[q].who = u /\ req'[q].token = NoToken
<1> DEFINE l == [Local("select", u) EXCEPT !.home = p]
<1>1. l \in Locals /\ l.at = "select" /\ l.who = u /\ l.token = NoToken
  BY LocalFields DEF Locals, Steps
<1>2. Ask(q, l)
  BY DEF AskDelete
<1> HIDE DEF l
<1> QED
  BY <1>1, <1>2, Asks

LEMMA Finishing ==
  ASSUME TypeOK, NEW q \in Requests, Finish(q)
  PROVE  /\ RequestsTyped' /\ Others(q)
         /\ \/ req[q].token = NoToken /\ req'[q] = Idle
            \/ /\ req'[q].at = "clean" /\ req'[q].token = req[q].token
               /\ req'[q].home = req[q].home
         /\ req'[q].at \in {"idle", "clean"}
  BY Going, Returning DEF Finish, Steps

LEMMA Dropping ==
  ASSUME TypeOK, NEW requests \in SUBSET Requests, NEW keys, Drop(requests, keys)
  PROVE  /\ RequestsTyped'
         /\ \A q \in requests : req'[q] = Idle
         /\ \A q \in Requests \ requests : req'[q] = req[q]
         /\ \A q \in Requests : req'[q] \in {Idle, req[q]}
<1>1. /\ req' = [q \in Requests |-> IF q \in requests THEN Idle ELSE req[q]]
      /\ UNCHANGED asked /\ aborts' = aborts + 1 /\ aborts < MaxAborts
  BY DEF Drop, Fail
<1>2. aborts' \in 0 .. MaxAborts
  BY <1>1 DEF TypeOK
<1> QED
  BY <1>1, <1>2, IdleFields DEF RequestsTyped, TypeOK

-----------------------------------------------------------------------------
(* The types. *)

RowsTyped ==
    /\ status \in [Users -> {"none", "active", "inactive", "gone"}]
    /\ limits \subseteq Users /\ shortens \subseteq Users /\ owners \subseteq Users
    /\ password \in [Users -> Passwords]
    /\ uploader \in [Files -> Users \cup {Nobody, Dummy}] /\ hidden \subseteq Files
JobsTyped ==
    /\ jobs \subseteq Manager!Jobs
    /\ task \in [Manager!Jobs -> {"none", "list", "purge"}]
    /\ deletes \in [Manager!Jobs -> BOOLEAN]
    /\ todo \in [Manager!Jobs -> SUBSET Files]
    /\ strayed \in [Manager!Jobs -> SUBSET Files]
HistoryTyped ==
    /\ doomed \subseteq Users /\ excused \subseteq Users
    /\ revived \subseteq Users /\ late \subseteq Files /\ shown \subseteq Files
    /\ used \subseteq Tokens /\ reused \subseteq Tokens /\ shared \subseteq Tokens
ChoicesTyped ==
    /\ chosen \in [Users -> Passwords] /\ raced \subseteq Users
    /\ former \in [Users -> SUBSET Passwords]
MailTyped == Mailed!MailTypeOK
Typed == RowsTyped /\ JobsTyped /\ HistoryTyped /\ ChoicesTyped /\ MailTyped /\ RequestsTyped

LEMMA TypeParts == TypeOK <=> Typed
  BY DEF TypeOK, Typed, RowsTyped, JobsTyped, HistoryTyped, ChoicesTyped, MailTyped, RequestsTyped

LEMMA TypePartsPrimed == Typed' => TypeOK'
  BY DEF TypeOK, Typed, RowsTyped, JobsTyped, HistoryTyped, ChoicesTyped, MailTyped, RequestsTyped

LEMMA TypeInit == Init => TypeOK
<1> SUFFICES ASSUME Init PROVE Typed
  BY TypeParts
<1>1. RowsTyped /\ JobsTyped /\ HistoryTyped /\ ChoicesTyped /\ RequestsTyped
  BY AnyUserIsUser, IdleFields
     DEF Init, RowsTyped, JobsTyped, HistoryTyped, ChoicesTyped, RequestsTyped
<1>2. MailTyped
  BY DEF Init, Mailed!MailInit, MailTyped, Mailed!MailTypeOK, Mailed!NoRow, Mailed!AnyHolder,
     Mailed!Kinds
<1> QED
  BY <1>1, <1>2 DEF Typed

\* What the handlers and jobs do to the mailed tokens.
LEMMA MailSteps ==
  ASSUME TypeOK,
         \/ \E u \in Users, k \in Mailed!Kinds : Mailed!InsertToken(u, k)
         \/ \E t \in Tokens : Mailed!Expire(t)
         \/ \E t : Mailed!Clean(t)
         \/ \E u : Mailed!DropTokensOf(u)
         \/ UNCHANGED mail
  PROVE  MailTyped'
<1> USE DEF MailTyped, Mailed!MailTypeOK
<1>0. MailTyped /\ \A why \in {"unused", "gone"} : Mailed!NoRow(why) \in
        [row : {"unused", "live", "expired", "gone"}, who : Users, kind : Mailed!Kinds]
  BY DEF TypeOK, Mailed!NoRow, Mailed!AnyHolder, Mailed!Kinds
<1>1. ASSUME NEW u \in Users, NEW k \in Mailed!Kinds, Mailed!InsertToken(u, k) PROVE MailTyped'
  BY <1>0, <1>1 DEF Mailed!InsertToken, Mailed!Row
<1>2. ASSUME NEW t \in Tokens, Mailed!Expire(t) PROVE MailTyped'
  BY <1>0, <1>2 DEF Mailed!Expire
<1>3. ASSUME NEW t, Mailed!Clean(t) PROVE MailTyped'
  BY <1>0, <1>3 DEF Mailed!Clean
<1>4. ASSUME NEW u, Mailed!DropTokensOf(u) PROVE MailTyped'
  BY <1>0, <1>4 DEF Mailed!DropTokensOf
<1> QED
  BY <1>0, <1>1, <1>2, <1>3, <1>4

LEMMA JobNames ==
  /\ \A p \in Processes, u \in Users : <<p, u>> \in Manager!Jobs
  /\ \A j \in Manager!Jobs : j[1] \in Processes /\ j[2] \in Users /\ j = <<j[1], j[2]>>
  BY DEF Manager!Jobs

LEMMA InHandTyped ==
  ASSUME TypeOK, NEW requests \in SUBSET Requests, NEW keys \in SUBSET Manager!Jobs
  PROVE  InHand(requests, keys) \subseteq Users
  BY JobNames DEF InHand, TypeOK, Locals

LEMMA StartTyped ==
  ASSUME TypeOK, NEW j \in Manager!Jobs, NEW b \in BOOLEAN, StartJob(j, b)
  PROVE  JobsTyped'
<1>1. <<j[1], j[2]>> = j
  BY JobNames
<1> QED
  BY <1>1 DEF StartJob, Manager!SpawnOnce, TypeOK, JobsTyped

LEMMA OverTyped ==
  ASSUME TypeOK, NEW j \in Manager!Jobs, NEW failed, JobOver(j, failed),
         todo' \in [Manager!Jobs -> SUBSET Files]
  PROVE  JobsTyped'
  BY DEF JobOver, Manager!Pop, TypeOK, JobsTyped

LEMMA UseTyped ==
  ASSUME TypeOK, NEW q \in Requests, Use(q)
  PROVE  used' \subseteq Tokens /\ reused' \subseteq Tokens /\ shared' \subseteq Tokens
  BY DEF Use, TypeOK, Locals

LEMMA SetActiveTyped ==
  ASSUME TypeOK, NEW u \in Users, SetActive(u)
  PROVE  /\ RowsTyped' /\ doomed' \subseteq Users /\ revived' \subseteq Users
         /\ UNCHANGED <<excused, late, shown>>
  BY DEF SetActive, TypeOK, RowsTyped

LEMMA ChooseTyped ==
  ASSUME TypeOK, NEW u \in Users, NEW p \in Passwords, ChoosePassword(u, p)
  PROVE  RowsTyped' /\ ChoicesTyped'
<1>1. former' \in [Users -> SUBSET Passwords]
  BY DEF ChoosePassword, TypeOK
<1> QED
  BY <1>1 DEF ChoosePassword, TypeOK, RowsTyped, ChoicesTyped

LEMMA RunningTyped ==
  ASSUME TypeOK, NEW q \in Requests, Running(q)
  PROVE  Typed'
<1>0. Typed /\ req[q] \in Locals /\ req[q].who \in Users
      /\ req[q].home \in Processes /\ req[q].kind \in Mailed!Kinds
      /\ req[q].secret \in Passwords
  BY TypeParts DEF TypeOK, Locals
<1> USE DEF tables, jobVars, fate, uses, choices, Typed
<1>1. CASE InsertLimits(q)
  BY <1>0, <1>1, Returning, MailSteps
     DEF InsertLimits, RowsTyped, JobsTyped, HistoryTyped, ChoicesTyped
<1>2. CASE CountTokens(q)
  <2>1. RequestsTyped'
    BY <1>2, Returning, Going DEF CountTokens, Steps
  <2> QED
    BY <1>0, <1>2, <2>1, MailSteps DEF CountTokens, RowsTyped, JobsTyped, HistoryTyped, ChoicesTyped
<1>3. CASE InsertToken(q)
  <2>1. MailTyped'
    BY <1>0, <1>3, MailSteps DEF InsertToken
  <2> QED
    BY <1>0, <1>3, <2>1, Returning DEF InsertToken, RowsTyped, JobsTyped, HistoryTyped, ChoicesTyped
<1>4. CASE InsertShorten(q)
  BY <1>0, <1>4, Returning, MailSteps
     DEF InsertShorten, RowsTyped, JobsTyped, HistoryTyped, ChoicesTyped
<1>5. ASSUME NEW f \in Files, InsertFile(q, f) PROVE Typed'
  BY <1>0, <1>5, Returning, MailSteps
     DEF InsertFile, RowsTyped, JobsTyped, HistoryTyped, ChoicesTyped
<1>6. CASE ActivateByToken(q)
  <2>1. RequestsTyped'
    BY <1>6, Going DEF ActivateByToken, Steps
  <2>2. RowsTyped' /\ HistoryTyped'
    BY <1>0, <1>6, SetActiveTyped, UseTyped DEF ActivateByToken, HistoryTyped
  <2> QED
    BY <1>0, <1>6, <2>1, <2>2, MailSteps DEF ActivateByToken, JobsTyped, ChoicesTyped
<1>7. CASE CleanToken(q)
  <2>1. MailTyped'
    BY <1>0, <1>7, MailSteps DEF CleanToken
  <2> QED
    BY <1>0, <1>7, <2>1, Returning DEF CleanToken, RowsTyped, JobsTyped, HistoryTyped, ChoicesTyped
<1>8. CASE Rehash(q)
  <2>1. ChoicesTyped'
    BY <1>0, <1>8 DEF Rehash, RowsTyped, ChoicesTyped
  <2> QED
    BY <1>0, <1>8, <2>1, Returning, MailSteps DEF Rehash, RowsTyped, JobsTyped, HistoryTyped
<1>9. ASSUME NEW p \in Passwords, ResetPassword(q, p) PROVE Typed'
  <2>1. RequestsTyped'
    BY <1>9, Going DEF ResetPassword, Steps
  <2>2. RowsTyped' /\ ChoicesTyped'
    BY <1>0, <1>9, ChooseTyped DEF ResetPassword
  <2>3. HistoryTyped'
    BY <1>0, <1>9, UseTyped DEF ResetPassword, HistoryTyped
  <2> QED
    BY <1>0, <1>9, <2>1, <2>2, <2>3, MailSteps DEF ResetPassword, JobsTyped
<1>10. ASSUME NEW p \in Passwords, ChangePassword(q, p) PROVE Typed'
  <2>1. RowsTyped' /\ ChoicesTyped'
    BY <1>0, <1>10, ChooseTyped DEF ChangePassword
  <2> QED
    BY <1>0, <1>10, <2>1, Returning, MailSteps DEF ChangePassword, JobsTyped, HistoryTyped
<1>11. CASE SelectActive(q)
  <2>1. RequestsTyped'
    BY <1>11, Going, Finishing DEF SelectActive, Steps
  <2>2. HistoryTyped'
    BY <1>0, <1>11, UseTyped DEF SelectActive, HistoryTyped
  <2> QED
    BY <1>0, <1>11, <2>1, <2>2, MailSteps DEF SelectActive, RowsTyped, JobsTyped, ChoicesTyped
<1>12. CASE MarkInactive(q)
  <2>1. RequestsTyped'
    BY <1>12, Going DEF MarkInactive, Steps
  <2> QED
    BY <1>0, <1>12, <2>1, MailSteps
       DEF MarkInactive, RowsTyped, JobsTyped, HistoryTyped, ChoicesTyped
<1>13. CASE HideFiles(q)
  <2>1. RequestsTyped'
    BY <1>13, Going DEF HideFiles, Steps
  <2> QED
    BY <1>0, <1>13, <2>1, MailSteps
       DEF HideFiles, FilesOf, RowsTyped, JobsTyped, HistoryTyped, ChoicesTyped
<1>14. CASE HideShortens(q)
  <2>1. RequestsTyped'
    BY <1>14, Going DEF HideShortens, Steps
  <2> QED
    BY <1>0, <1>14, <2>1, MailSteps
       DEF HideShortens, RowsTyped, JobsTyped, HistoryTyped, ChoicesTyped
<1>15. CASE SpawnJob(q)
  <2> DEFINE j == <<req[q].home, req[q].who>>
  <2>1. j \in Manager!Jobs /\ j[1] = req[q].home /\ j[2] = req[q].who /\ j[2] \in Users
    BY <1>0, JobNames
  <2>2. UNCHANGED <<tables, mail, doomed, revived, late, shown, used, reused, choices>>
    BY <1>15 DEF SpawnJob
  <2> HIDE DEF j
  <2>3. CASE NameTaken(q, j)
    <3>1. RequestsTyped' /\ UNCHANGED jobVars
      BY <2>3, Returning DEF NameTaken
    <3>2. excused' \subseteq Users /\ shared' \subseteq Tokens
      BY <1>0, <2>1, <2>3 DEF NameTaken, HistoryTyped
    <3> QED
      BY <1>0, <2>2, <3>1, <3>2, MailSteps DEF RowsTyped, JobsTyped, HistoryTyped, ChoicesTyped
  <2>4. CASE /\ StartJob(j, TRUE) /\ UNCHANGED <<excused, shared>>
             /\ Goto(q, "wait") \/ Finish(q)
    <3>1. RequestsTyped'
      BY <2>4, Going, Finishing DEF Steps
    <3>2. JobsTyped'
      BY <2>1, <2>4, StartTyped
    <3> QED
      BY <1>0, <2>2, <2>4, <3>1, <3>2, MailSteps DEF RowsTyped, HistoryTyped, ChoicesTyped
  <2> QED
    BY <1>15, <2>3, <2>4 DEF SpawnJob, j
<1>16. CASE WaitDone(q)
  <2>1. JobsTyped'
    BY <1>0, <1>16 DEF WaitDone, JobsTyped
  <2> QED
    BY <1>0, <1>16, <2>1, Returning, MailSteps DEF WaitDone, RowsTyped, HistoryTyped, ChoicesTyped
<1>17. CASE DeleteAll(q)
  <2> DEFINE j == <<req[q].home, req[q].who>>
  <2>1. j \in Manager!Jobs
    BY <1>0, JobNames
  <2>2. UNCHANGED jobVars \/ StartJob(j, FALSE)
    BY <1>17 DEF DeleteAll
  <2> HIDE DEF j
  <2>3. JobsTyped'
    BY <1>0, <2>1, <2>2, StartTyped DEF JobsTyped
  <2> QED
    BY <1>0, <1>17, <2>3, Returning, MailSteps DEF DeleteAll, RowsTyped, HistoryTyped, ChoicesTyped
<1> QED
  BY <1>1, <1>2, <1>3, <1>4, <1>5, <1>6, <1>7, <1>8, <1>9, <1>10, <1>11, <1>12, <1>13, <1>14,
     <1>15, <1>16, <1>17 DEF Running

LEMMA AskingTyped ==
  ASSUME TypeOK, NEW q \in Requests, Asking(q)
  PROVE  Typed'
<1>0. Typed
  BY TypeParts
<1> USE DEF tables, jobVars, fate, uses, choices, Typed
<1>1. ASSUME NEW u \in Users, NEW p \in Processes, Register(q, u, p) PROVE Typed'
  BY <1>0, <1>1, RegisterAsks, MailSteps
     DEF Register, RowsTyped, JobsTyped, HistoryTyped, ChoicesTyped
<1>2. ASSUME NEW u \in Users, NEW p \in Processes, AskDelete(q, u, p) PROVE Typed'
  BY <1>0, <1>2, AskDeleteAsks, MailSteps
     DEF AskDelete, RowsTyped, JobsTyped, HistoryTyped, ChoicesTyped
<1>3. ASSUME NEW u \in Users, NEW step \in {"upload", "shorten", "delete_all"},
             AskUpload(q, u, step)
      PROVE  Typed'
  <2>1. UNCHANGED <<tables, mail, jobVars, fate, uses, choices>>
    BY <1>3 DEF AskUpload
  <2>2. RequestsTyped'
    BY <1>3, AskUploadAsks
  <2> QED
    BY <1>0, <2>1, <2>2, MailSteps DEF RowsTyped, JobsTyped, HistoryTyped, ChoicesTyped
<1>4. ASSUME NEW u \in Users, NEW p \in Passwords, AskRevocation(q, u, p) \/ AskProfile(q, u, p)
      PROVE  Typed'
  <2>1. /\ UNCHANGED <<tables, mail, jobVars, fate, uses, chosen, former>>
        /\ RequestsTyped' /\ raced' \in {raced, raced \cup {u}}
    BY <1>4, PasswordAsks
  <2> QED
    BY <1>0, <2>1, MailSteps DEF RowsTyped, JobsTyped, HistoryTyped, ChoicesTyped
<1>5. ASSUME NEW u \in Users, NEW k \in Mailed!Kinds, AskToken(q, u, k) PROVE Typed'
  <2>1. RequestsTyped'
    BY <1>5, AskTokenAsks
  <2> QED
    BY <1>0, <1>5, <2>1, MailSteps
       DEF AskToken, RowsTyped, JobsTyped, HistoryTyped, ChoicesTyped
<1>6. ASSUME NEW t \in Tokens, Confirm(q, t) PROVE Typed'
  <2>1. /\ UNCHANGED <<tables, mail, jobVars, fate, used, reused, choices>>
        /\ shared' \subseteq Tokens
    BY <1>0, <1>6 DEF Confirm, HistoryTyped
  <2> QED
    BY <1>0, <1>6, <2>1, ConfirmAsks, MailSteps
       DEF RowsTyped, JobsTyped, HistoryTyped, ChoicesTyped
<1> QED
  BY <1>1, <1>2, <1>3, <1>4, <1>5, <1>6, WhoAsks

LEMMA AdministrationTyped ==
  ASSUME TypeOK, Administration
  PROVE  Typed'
<1>0. Typed
  BY TypeParts
<1> USE DEF tables, jobVars, fate, uses, choices, Typed
<1>1. ASSUME NEW u \in Users, Activate(u) PROVE Typed'
  <2>1. RowsTyped' /\ HistoryTyped'
    BY <1>0, <1>1, SetActiveTyped DEF Activate, HistoryTyped
  <2> QED
    BY <1>0, <1>1, <2>1, Ordering, MailSteps DEF Activate, JobsTyped, ChoicesTyped
<1>2. ASSUME NEW u \in Users, Deactivate(u) \/ ChangeOwner(u) PROVE Typed'
  BY <1>0, <1>2, Ordering, MailSteps
     DEF Deactivate, ChangeOwner, RowsTyped, JobsTyped, HistoryTyped, ChoicesTyped
<1>3. ASSUME NEW u \in Users, NEW p \in Passwords, ResetPass(u, p) PROVE Typed'
  <2>1. RowsTyped' /\ ChoicesTyped'
    BY <1>0, <1>3, ChooseTyped DEF ResetPass
  <2> QED
    BY <1>0, <1>3, <2>1, Ordering, MailSteps DEF ResetPass, JobsTyped, HistoryTyped
<1> QED
  BY <1>1, <1>2, <1>3 DEF Administration

LEMMA HandlingTyped ==
  ASSUME TypeOK, Handling
  PROVE  Typed'
<1>0. Typed
  BY TypeParts
<1> USE DEF tables, jobVars, fate, uses, choices, Typed
<1>1. ASSUME NEW f \in Files, Rename(f) PROVE Typed'
  <2>1. JobsTyped'
    BY <1>0, <1>1 DEF Rename, JobsTyped
  <2> QED
    BY <1>0, <1>1, <2>1, Ordering, MailSteps DEF Rename, RowsTyped, HistoryTyped, ChoicesTyped
<1>2. ASSUME NEW f \in Files, Undelete(f) PROVE Typed'
  BY <1>0, <1>2, Ordering, MailSteps
     DEF Undelete, RowsTyped, JobsTyped, HistoryTyped, ChoicesTyped
<1> QED
  BY <1>1, <1>2 DEF Handling

LEMMA WorkingTyped ==
  ASSUME TypeOK, NEW j \in Manager!Jobs, Working(j)
  PROVE  Typed'
<1>0. Typed /\ j[2] \in Users
  BY TypeParts, JobNames
<1> USE DEF tables, jobVars, fate, uses, choices, bounds, Typed
<1>1. CASE ListFiles(j)
  <2>1. JobsTyped'
    BY <1>0, <1>1 DEF ListFiles, JobsTyped, FilesOf
  <2> QED
    BY <1>0, <1>1, <2>1, MailSteps
       DEF ListFiles, RowsTyped, HistoryTyped, ChoicesTyped, RequestsTyped
<1>2. ASSUME NEW f \in Files, Purge(j, f) PROVE Typed'
  <2>1. JobsTyped'
    BY <1>0, <1>2 DEF Purge, JobsTyped
  <2> QED
    BY <1>0, <1>2, <2>1, MailSteps
       DEF Purge, RowsTyped, HistoryTyped, ChoicesTyped, RequestsTyped
<1>3. CASE EndEmptying(j)
  <2>1. JobsTyped'
    BY <1>0, <1>3, OverTyped DEF EndEmptying, JobsTyped
  <2> QED
    BY <1>0, <1>3, <2>1, MailSteps
       DEF EndEmptying, JobOver, RowsTyped, HistoryTyped, ChoicesTyped, RequestsTyped
<1>4. CASE DeleteRow(j)
  <2>1. JobsTyped'
    BY <1>0, <1>4, OverTyped DEF DeleteRow, JobsTyped
  <2>2. MailTyped'
    BY <1>0, <1>4, MailSteps DEF DeleteRow
  <2>3. /\ status' \in {status, [status EXCEPT ![j[2]] = "gone"]}
        /\ limits' \in {limits, limits \ {j[2]}}
        /\ excused' \in {excused, excused \cup {j[2]}}
        /\ UNCHANGED <<password, uploader, hidden, shortens, owners, req, doomed, revived,
                       late, shown, uses, choices, bounds>>
    BY <1>4 DEF DeleteRow, JobOver
  <2> QED
    BY <1>0, <2>1, <2>2, <2>3 DEF RowsTyped, HistoryTyped, ChoicesTyped, RequestsTyped
<1> QED
  BY <1>1, <1>2, <1>3, <1>4 DEF Working

LEMMA FailingTyped ==
  ASSUME TypeOK, Failing
  PROVE  Typed'
<1>0. Typed
  BY TypeParts
<1> USE DEF tables, jobVars, fate, uses, choices, bounds, Typed
<1>1. ASSUME NEW j \in Manager!Jobs, JobFails(j) PROVE Typed'
  <2>1. JobsTyped'
    <3>1. todo' \in [Manager!Jobs -> SUBSET Files]
      BY <1>0, <1>1 DEF JobFails, JobsTyped
    <3> QED
      BY <1>1, <3>1, OverTyped DEF JobFails
  <2>2. RequestsTyped'
    <3>1. UNCHANGED <<req, asked>> /\ aborts' = aborts + 1 /\ aborts < MaxAborts
      BY <1>1 DEF JobFails, JobOver, Fail
    <3> QED
      BY <1>0, <3>1 DEF RequestsTyped
  <2>3. /\ excused' \in {excused, excused \cup {j[2]}}
        /\ UNCHANGED <<tables, mail, doomed, revived, late, shown, uses, choices>>
    BY <1>1 DEF JobFails, JobOver
  <2> QED
    BY <1>0, <2>1, <2>2, <2>3, MailSteps, JobNames DEF RowsTyped, HistoryTyped, ChoicesTyped
<1>2. ASSUME NEW requests \in SUBSET Requests, NEW keys \in SUBSET Manager!Jobs,
             Drop(requests, keys), JobsTyped'
      PROVE  Typed'
  <2>1. excused' \subseteq Users /\ shared' \subseteq Tokens
    BY <1>0, <1>2, InHandTyped DEF Drop, HistoryTyped
  <2>2. RequestsTyped'
    BY <1>2, Dropping
  <2> QED
    BY <1>0, <1>2, <2>1, <2>2, MailSteps DEF Drop, RowsTyped, HistoryTyped, ChoicesTyped
<1>3. ASSUME NEW q \in Requests, Abort(q) PROVE Typed'
  <2>1. JobsTyped' /\ Drop({q}, {})
    BY <1>0, <1>3 DEF Abort, JobsTyped
  <2> QED
    BY <1>2, <2>1
<1>4. ASSUME NEW p \in Processes, Crash(p) PROVE Typed'
  <2> DEFINE mine == {j \in Manager!Jobs : j[1] = p}
             dropped == {q \in Requests : req[q].home = p}
  <2>1. JobsTyped'
    BY <1>0, <1>4 DEF Crash, JobsTyped, Manager!Stop
  <2>2. Drop(dropped, mine) /\ dropped \in SUBSET Requests /\ mine \in SUBSET Manager!Jobs
    BY <1>4 DEF Crash
  <2> HIDE DEF mine, dropped
  <2> QED
    BY <1>2, <2>1, <2>2
<1> QED
  BY <1>1, <1>3, <1>4 DEF Failing

LEMMA TypeStep == TypeOK /\ [Next]_vars => TypeOK'
<1> SUFFICES ASSUME TypeOK, [Next]_vars PROVE Typed'
  BY TypePartsPrimed
<1>1. ASSUME NEW t \in Tokens, Expire(t) PROVE Typed'
  <2>1. MailTyped'
    BY <1>1, MailSteps DEF Expire
  <2>2. UNCHANGED <<tables, jobVars, req, bounds, fate, uses, choices>>
    BY <1>1 DEF Expire
  <2> QED
    BY <2>1, <2>2, TypeParts DEF tables, jobVars, fate, uses, choices, bounds, Typed, RowsTyped,
       JobsTyped, HistoryTyped, ChoicesTyped, RequestsTyped
<1>2. CASE UNCHANGED vars
  BY <1>2, TypeParts, MailSteps DEF vars, tables, jobVars, fate, uses, choices, bounds, Typed,
     RowsTyped, JobsTyped, HistoryTyped, ChoicesTyped, RequestsTyped
<1> QED
  BY <1>1, <1>2, RunningTyped, AskingTyped, AdministrationTyped, HandlingTyped, WorkingTyped,
     FailingTyped DEF Next

\* The tables, the mailed tokens, the jobs and the handlers' locals are of
\* their types.
THEOREM TypesHold == Spec => []TypeOK
  BY TypeInit, TypeStep, PTL DEF Spec

-----------------------------------------------------------------------------
(* The job managers. *)

\* What a step may do to the jobs.
JobStep ==
    \/ UNCHANGED <<jobs, task, deletes>>
    \/ \E j \in Manager!Jobs : ListFiles(j)
    \/ \E j \in Manager!Jobs, b \in BOOLEAN : j \notin jobs /\ StartJob(j, b)
    \/ \E j \in Manager!Jobs, failed \in BOOLEAN : JobOver(j, failed)
    \/ \E p \in Processes : Crash(p)

LEMMA JobSteps == TypeOK /\ [Next]_vars => JobStep
<1> SUFFICES ASSUME TypeOK, [Next]_vars PROVE JobStep
  OBVIOUS
<1> USE DEF jobVars
<1>1. ASSUME NEW q \in Requests, Running(q) PROVE JobStep
  <2> DEFINE j == <<req[q].home, req[q].who>>
  <2>1. j \in Manager!Jobs /\ j = <<j[1], j[2]>>
    BY JobNames DEF TypeOK, Locals
  <2>2. ~ Manager!Exists(j[1], j[2]) => j \notin jobs
    BY <2>1 DEF Manager!Exists
  <2>3. CASE SpawnJob(q)
    BY <2>1, <2>2, <2>3 DEF SpawnJob, NameTaken, JobStep
  <2>4. CASE DeleteAll(q)
    BY <2>1, <2>2, <2>4 DEF DeleteAll, JobStep
  <2>5. CASE ~ SpawnJob(q) /\ ~ DeleteAll(q)
    BY <1>1, <2>5 DEF Running, InsertLimits, CountTokens, InsertToken, InsertShorten, InsertFile,
       ActivateByToken, CleanToken, Rehash, ResetPassword, ChangePassword, SelectActive,
       MarkInactive, HideFiles, HideShortens, WaitDone, JobStep
  <2> QED
    BY <2>3, <2>4, <2>5
<1>2. ASSUME NEW q \in Requests, Asking(q) PROVE JobStep
  <2>1. ASSUME NEW u \in Users, NEW p \in Passwords, AskRevocation(q, u, p) \/ AskProfile(q, u, p)
        PROVE  JobStep
    BY <2>1, PasswordAsks DEF JobStep
  <2> QED
    BY <1>2, <2>1, WhoAsks DEF Register, AskDelete, AskUpload, AskToken, Confirm, JobStep
<1>3. CASE Administration \/ Handling
  BY <1>3 DEF Administration, Activate, Deactivate, ChangeOwner, ResetPass, Handling, Rename,
     Undelete, JobStep
<1>4. ASSUME NEW j \in Manager!Jobs, Working(j) PROVE JobStep
  BY <1>4 DEF Working, EndEmptying, DeleteRow, Purge, JobStep
<1>5. CASE Failing
  BY <1>5 DEF Failing, JobFails, Abort, JobStep
<1>6. CASE (\E t \in Tokens : Expire(t)) \/ UNCHANGED vars
  BY <1>6 DEF Expire, vars, JobStep
<1> QED
  BY <1>1, <1>2, <1>3, <1>4, <1>5, <1>6 DEF Next

LEMMA JobsStep == TypeOK /\ JobsAreKnown /\ [Next]_vars => JobsAreKnown'
<1> SUFFICES ASSUME TypeOK, JobsAreKnown, JobStep PROVE JobsAreKnown'
  BY JobSteps
<1>0. task \in [Manager!Jobs -> {"none", "list", "purge"}] /\ jobs \subseteq Manager!Jobs
  BY DEF TypeOK
<1>1. CASE UNCHANGED <<jobs, task, deletes>>
  BY <1>1 DEF JobsAreKnown
<1>2. ASSUME NEW j \in Manager!Jobs, ListFiles(j) PROVE JobsAreKnown'
  BY <1>0, <1>2 DEF ListFiles, JobsAreKnown
<1>3. ASSUME NEW j \in Manager!Jobs, NEW b \in BOOLEAN, j \notin jobs, StartJob(j, b)
      PROVE  JobsAreKnown'
  <2>1. jobs' = jobs \cup {j}
    BY <1>3, JobNames DEF StartJob, Manager!SpawnOnce
  <2> QED
    BY <1>0, <1>3, <2>1 DEF StartJob, JobsAreKnown
<1>4. ASSUME NEW j \in Manager!Jobs, NEW failed \in BOOLEAN, JobOver(j, failed)
      PROVE  JobsAreKnown'
  <2>1. jobs' = jobs \ {j}
    BY <1>4, JobNames DEF JobOver, Manager!Pop
  <2> QED
    BY <1>0, <1>4, <2>1 DEF JobOver, JobsAreKnown
<1>5. ASSUME NEW p \in Processes, Crash(p) PROVE JobsAreKnown'
  BY <1>0, <1>5 DEF Crash, Manager!Stop, JobsAreKnown
<1> QED
  BY <1>1, <1>2, <1>3, <1>4, <1>5 DEF JobStep

\* A job manager knows exactly the jobs whose task is not over.
THEOREM JobManagersKnowTheirJobs == Spec => []JobsAreKnown
<1>1. Init => JobsAreKnown
  BY DEF Init, JobsAreKnown
<1> QED
  BY <1>1, TypeInit, TypeStep, JobsStep, PTL DEF Spec

-----------------------------------------------------------------------------
(* The password in force. *)

\* A revocation that is under way has the password in force, unless there was a
\* choice meanwhile.
RehashKnows ==
    \A q \in Requests :
      req[q].at = "rehash" /\ req[q].who \notin raced => req[q].secret = password[req[q].who]

ChoiceInv == (\A u \in Users \ raced : password[u] = chosen[u]) /\ RehashKnows

LEMMA ChoiceKept ==
  ASSUME ChoiceInv, UNCHANGED <<password, chosen, raced>>,
         \A o \in Requests : req'[o].at = "rehash" => req'[o] = req[o]
  PROVE  ChoiceInv'
  BY DEF ChoiceInv, RehashKnows

LEMMA ChoosingKeeps ==
  ASSUME TypeOK, ChoiceInv, NEW u \in Users, NEW p \in Passwords, ChoosePassword(u, p),
         \A o \in Requests : req'[o].at = "rehash" => req'[o] = req[o]
  PROVE  ChoiceInv'
<1>1. /\ password' = IF Exists(u) THEN [password EXCEPT ![u] = p] ELSE password
      /\ chosen' = IF Exists(u) THEN [chosen EXCEPT ![u] = p] ELSE chosen
      /\ \/ raced' = raced \cup {u}
         \/ /\ \A o \in Requests : ~ (req[o].at = "rehash" /\ req[o].who = u)
            /\ raced' = IF Exists(u) THEN raced \ {u} ELSE raced
  BY DEF ChoosePassword, At
<1>2. password \in [Users -> Passwords] /\ chosen \in [Users -> Passwords]
  BY DEF TypeOK
<1>3. \A v \in Users \ {u} : password'[v] = password[v] /\ chosen'[v] = chosen[v]
                             /\ (v \in raced <=> v \in raced')
  BY <1>1, <1>2
<1>4. CASE Exists(u)
  <2>1. password'[u] = chosen'[u]
    BY <1>1, <1>2, <1>4
  <2>2. \A v \in Users \ raced' : password'[v] = chosen'[v]
    BY <1>3, <2>1 DEF ChoiceInv
  <2>3. RehashKnows'
    BY <1>1, <1>3 DEF ChoiceInv, RehashKnows, TypeOK, Locals
  <2> QED
    BY <2>2, <2>3 DEF ChoiceInv
<1>5. CASE ~ Exists(u)
  <2>1. UNCHANGED <<password, chosen>> /\ raced \subseteq raced'
    BY <1>1, <1>5
  <2> QED
    BY <2>1 DEF ChoiceInv, RehashKnows
<1> QED
  BY <1>4, <1>5

LEMMA ChoiceStep == TypeOK /\ ChoiceInv /\ [Next]_vars => ChoiceInv'
<1> SUFFICES ASSUME TypeOK, ChoiceInv, [Next]_vars PROVE ChoiceInv'
  OBVIOUS
<1> USE DEF tables, choices
<1>1. ASSUME NEW q \in Requests, Running(q) PROVE ChoiceInv'
  <2>1. CASE Rehash(q)
    <3> DEFINE u == req[q].who
    <3>1. /\ password' = IF Exists(u) THEN [password EXCEPT ![u] = req[q].secret] ELSE password
          /\ UNCHANGED <<chosen, raced>> /\ req[q].at = "rehash" /\ Return(q)
      BY <2>1 DEF Rehash, At
    <3>2. Others(q) /\ req'[q].at = "idle"
      BY <3>1, Returning
    <3>3. u \notin raced => UNCHANGED password
      BY <3>1 DEF ChoiceInv, RehashKnows, TypeOK
    <3>4. \A v \in Users \ {u} : password'[v] = password[v]
      BY <3>1 DEF TypeOK
    <3>5. u \in Users
      BY DEF TypeOK, Locals
    <3>6. CASE u \notin raced
      BY <3>1, <3>2, <3>3, <3>6, ChoiceKept DEF Others
    <3>7. CASE u \in raced
      <4>1. \A v \in Users \ raced : password'[v] = password[v]
        BY <3>4, <3>7
      <4>2. \A o \in Requests : req'[o].at = "rehash" => req'[o] = req[o] /\ req[o].who \in Users
        BY <3>2 DEF Others, TypeOK, Locals
      <4> QED
        BY <3>1, <4>1, <4>2 DEF ChoiceInv, RehashKnows
    <3> QED
      BY <3>6, <3>7
  <2>2. ASSUME NEW p \in Passwords, ResetPassword(q, p) PROVE ChoiceInv'
    <3>1. ChoosePassword(req[q].who, p) /\ Goto(q, "clean") /\ req[q].who \in Users
      BY <2>2 DEF ResetPassword, TypeOK, Locals
    <3>2. Others(q) /\ req'[q].at = "clean"
      BY <3>1, Going DEF Steps
    <3> QED
      BY <3>1, <3>2, ChoosingKeeps DEF Others
  <2>3. ASSUME NEW p \in Passwords, ChangePassword(q, p) PROVE ChoiceInv'
    <3>1. ChoosePassword(req[q].who, p) /\ Return(q) /\ req[q].who \in Users
      BY <2>3 DEF ChangePassword, TypeOK, Locals
    <3>2. Others(q) /\ req'[q].at = "idle"
      BY <3>1, Returning
    <3> QED
      BY <3>1, <3>2, ChoosingKeeps DEF Others
  <2>4. ASSUME UNCHANGED <<password, chosen, raced>>,
               \/ Return(q) \/ Finish(q)
               \/ \E step \in Steps \ {"rehash"} : Goto(q, step)
        PROVE  ChoiceInv'
    <3>1. Others(q) /\ req'[q].at # "rehash"
      BY <2>4, Returning, Finishing, Going
    <3> QED
      BY <2>4, <3>1, ChoiceKept DEF Others
  <2>5. CASE InsertLimits(q) \/ CountTokens(q) \/ InsertToken(q) \/ InsertShorten(q)
             \/ CleanToken(q) \/ WaitDone(q) \/ DeleteAll(q) \/ \E f \in Files : InsertFile(q, f)
    BY <2>4, <2>5 DEF InsertLimits, CountTokens, InsertToken, InsertShorten, CleanToken, WaitDone,
       DeleteAll, InsertFile, Steps
  <2>6. CASE ActivateByToken(q) \/ SelectActive(q) \/ MarkInactive(q) \/ HideFiles(q)
             \/ HideShortens(q)
    BY <2>4, <2>6 DEF ActivateByToken, SelectActive, MarkInactive, HideFiles, HideShortens, Steps,
       SetActive
  <2>7. CASE SpawnJob(q)
    BY <2>4, <2>7 DEF SpawnJob, NameTaken, Steps
  <2> QED
    BY <1>1, <2>1, <2>2, <2>3, <2>5, <2>6, <2>7 DEF Running
<1>2. ASSUME NEW q \in Requests, Asking(q) PROVE ChoiceInv'
  <2>1. ASSUME UNCHANGED <<password, chosen, raced>>, Others(q), req'[q].at # "rehash"
        PROVE  ChoiceInv'
    BY <2>1, ChoiceKept DEF Others
  <2>2. ASSUME NEW u \in Users, NEW p \in Processes, Register(q, u, p) \/ AskDelete(q, u, p)
        PROVE  ChoiceInv'
    BY <2>1, <2>2, RegisterAsks, AskDeleteAsks DEF Register, AskDelete
  <2>3. ASSUME NEW u \in Users, NEW step \in {"upload", "shorten", "delete_all"},
               AskUpload(q, u, step)
        PROVE  ChoiceInv'
    BY <2>1, <2>3, AskUploadAsks DEF AskUpload
  <2>4. ASSUME NEW u \in Users, NEW p \in Passwords, AskRevocation(q, u, p) \/ AskProfile(q, u, p)
        PROVE  ChoiceInv'
    <3>1. /\ UNCHANGED <<password, chosen>> /\ Others(q) /\ req'[q].who = u
          /\ \/ UNCHANGED raced /\ req'[q].secret = password[u]
             \/ raced' = raced \cup {u}
      BY <2>4, PasswordAsks
    <3> QED
      BY <3>1 DEF ChoiceInv, RehashKnows, Others
  <2>5. ASSUME NEW u \in Users, NEW k \in Mailed!Kinds, AskToken(q, u, k) PROVE ChoiceInv'
    BY <2>1, <2>5, AskTokenAsks DEF AskToken
  <2>6. ASSUME NEW t \in Tokens, Confirm(q, t) PROVE ChoiceInv'
    BY <2>1, <2>6, ConfirmAsks DEF Confirm, PreUse
  <2> QED
    BY <1>2, <2>2, <2>3, <2>4, <2>5, <2>6, WhoAsks
<1>3. ASSUME NEW u \in Users, NEW p \in Passwords, ResetPass(u, p) PROVE ChoiceInv'
  BY <1>3, Ordering, ChoosingKeeps DEF ResetPass
<1>4. ASSUME NEW u \in Users, Activate(u) \/ Deactivate(u) \/ ChangeOwner(u) PROVE ChoiceInv'
  BY <1>4, Ordering, ChoiceKept DEF Activate, SetActive, Deactivate, ChangeOwner
<1>10. CASE Handling
  BY <1>10, Ordering, ChoiceKept DEF Handling, Rename, Undelete
<1>5. ASSUME NEW j \in Manager!Jobs, Working(j) \/ JobFails(j) PROVE ChoiceInv'
  BY <1>5, ChoiceKept DEF Working, ListFiles, EndEmptying, DeleteRow, Purge, JobFails, JobOver
<1>6. ASSUME NEW requests \in SUBSET Requests, NEW keys, Drop(requests, keys) PROVE ChoiceInv'
  BY <1>6, ChoiceKept, Dropping, IdleFields DEF Drop
<1>7. ASSUME NEW q \in Requests, Abort(q) PROVE ChoiceInv'
  BY <1>6, <1>7 DEF Abort
<1>8. ASSUME NEW p \in Processes, Crash(p) PROVE ChoiceInv'
  BY <1>6, <1>8 DEF Crash
<1>9. CASE (\E t \in Tokens : Expire(t)) \/ UNCHANGED vars
  BY <1>9, ChoiceKept DEF Expire, vars
<1> QED
  BY <1>1, <1>2, <1>3, <1>4, <1>5, <1>7, <1>8, <1>9, <1>10 DEF Next, Administration, Failing

\* The password in force is the last chosen, unless a revocation was under way
\* when that was chosen, or has been let in by an older one that was cached.
THEOREM LastChoicesStand == Spec => []LastChoiceStands
<1>1. Init => ChoiceInv
  BY IdleFields DEF Init, ChoiceInv, RehashKnows
<1>2. ChoiceInv => LastChoiceStands
  BY DEF ChoiceInv, LastChoiceStands
<1> QED
  BY <1>1, <1>2, TypeInit, TypeStep, ChoiceStep, PTL DEF Spec

-----------------------------------------------------------------------------
(* Mailed tokens work once. *)

PostUse == {"mark", "files", "shortens", "spawn", "clean"}

\* Only the handler of a mailed token holds it, and it has been in the table.
HoldersKnow ==
    \A q \in Requests :
      req[q].token # NoToken =>
        /\ req[q].at \in PreUse \cup PostUse /\ req[q].home = "web"
        /\ mail[req[q].token].row # "unused"

UsedWereMade == \A t \in used : mail[t].row # "unused"

\* Two that hold one token share it.
HeldOnce ==
    \A q, o \in Requests :
      q # o /\ req[q].token = req[o].token /\ req[q].token # NoToken
        => req[q].token \in shared

\* A used token is out of the table, or whoever used it will see to that.
UsedAreCleaned ==
    \A t \in used \ shared :
      Mailed!InTable(t) => \E q \in Requests : req[q].token = t /\ req[q].at \notin PreUse

\* Who is about to use a token is the first to.
FirstUse ==
    \A q \in Requests :
      req[q].at \in PreUse /\ req[q].token \in used => req[q].token \in shared

TokenInv ==
    HoldersKnow /\ UsedWereMade /\ HeldOnce /\ UsedAreCleaned /\ FirstUse /\ TokensWorkOnce

\* A request keeps its token without using it, or lets it go: it has shared it, or cleaned it.
Holding(o) ==
    \/ req'[o] = req[o]
    \/ /\ req[o].at \notin PreUse /\ req'[o].at \in PostUse
       /\ req'[o].token = req[o].token /\ req'[o].home = req[o].home
    \/ /\ req'[o].token = NoToken
       /\ req[o].token \in used =>
            req[o].token \in shared' \/ mail'[req[o].token].row \notin {"live", "expired"}

\* A row never becomes unused again, nor is put in the table again.
RowsAge ==
    \A t \in Tokens :
      mail[t].row # "unused" =>
        /\ mail'[t].row # "unused"
        /\ mail'[t].row \in {"live", "expired"} => mail[t].row \in {"live", "expired"}

LEMMA RowsDoAge ==
  ASSUME TypeOK,
         \/ \E u \in Users, k \in Mailed!Kinds : Mailed!InsertToken(u, k)
         \/ \E t \in Tokens : Mailed!Expire(t)
         \/ \E t : Mailed!Clean(t)
         \/ \E u : Mailed!DropTokensOf(u)
         \/ UNCHANGED mail
  PROVE  RowsAge
<1> DEFINE Row == [row : {"unused", "live", "expired", "gone"}, who : Users, kind : Mailed!Kinds]
<1>0. mail \in [Tokens -> Row]
  BY DEF TypeOK, Mailed!MailTypeOK
<1>1. ASSUME NEW u \in Users, NEW k \in Mailed!Kinds, Mailed!InsertToken(u, k) PROVE RowsAge
  <2>1. CASE Mailed!Unused = {}
    BY <1>1, <2>1 DEF Mailed!InsertToken, RowsAge
  <2>2. CASE Mailed!Unused # {}
    <3>1. PICK x \in Mailed!Unused : mail' = [mail EXCEPT ![x] = Mailed!Row(u, k)]
      BY <1>1, <2>2 DEF Mailed!InsertToken
    <3>2. x \in Tokens /\ mail[x].row = "unused"
      BY <3>1 DEF Mailed!Unused
    <3> QED
      BY <1>0, <3>1, <3>2 DEF RowsAge
  <2> QED
    BY <2>1, <2>2
<1>2. ASSUME NEW t \in Tokens, Mailed!Expire(t) PROVE RowsAge
  BY <1>0, <1>2 DEF Mailed!Expire, RowsAge
<1>3. ASSUME NEW t, Mailed!Clean(t) PROVE RowsAge
  BY <1>0, <1>3 DEF Mailed!Clean, Mailed!NoRow, RowsAge
<1>4. ASSUME NEW u, Mailed!DropTokensOf(u) PROVE RowsAge
  BY <1>0, <1>4 DEF Mailed!DropTokensOf, Mailed!NoRow, RowsAge
<1> QED
  BY <1>1, <1>2, <1>3, <1>4 DEF RowsAge

LEMMA TokensKept ==
  ASSUME TypeOK, TokenInv, UNCHANGED <<used, reused>>, shared \subseteq shared', RowsAge,
         \A o \in Requests : Holding(o)
  PROVE  TokenInv'
<1> USE DEF TokenInv
<1>0. \A o \in Requests : req[o].token \in Tokens \cup {NoToken}
  BY DEF TypeOK, Locals
<1>1. used \subseteq Tokens /\ NoToken \notin used
  BY DEF TypeOK
<1>2. \A o \in Requests : req'[o].token \in {req[o].token, NoToken}
  BY DEF Holding
<1>3. \A o \in Requests : req'[o].token # NoToken /\ req'[o].at \in PreUse => req'[o] = req[o]
  BY DEF Holding, PreUse, PostUse
<1>4. HoldersKnow'
  BY <1>0, <1>2 DEF HoldersKnow, Holding, RowsAge
<1>5. UsedWereMade'
  BY <1>1 DEF UsedWereMade, RowsAge
<1>6. HeldOnce'
  BY <1>2 DEF HeldOnce
<1>7. UsedAreCleaned'
  <2> SUFFICES ASSUME NEW t \in used, t \notin shared', mail'[t].row \in {"live", "expired"}
               PROVE  \E q \in Requests : req'[q].token = t /\ req'[q].at \notin PreUse
    BY DEF UsedAreCleaned, Mailed!InTable
  <2>1. mail[t].row \in {"live", "expired"} /\ t \in Tokens /\ t # NoToken
    BY <1>1 DEF UsedWereMade, RowsAge
  <2>2. PICK q \in Requests : req[q].token = t /\ req[q].at \notin PreUse
    BY <2>1 DEF UsedAreCleaned, Mailed!InTable
  <2> QED
    BY <2>1, <2>2 DEF Holding, PreUse, PostUse
<1>8. FirstUse'
  BY <1>1, <1>3 DEF FirstUse
<1> QED
  BY <1>4, <1>5, <1>6, <1>7, <1>8 DEF TokensWorkOnce

\* The handler uses its token and keeps it to clean it.
LEMMA UseKeeps ==
  ASSUME TypeOK, TokenInv, NEW q \in Requests, Use(q), UNCHANGED mail, Others(q),
         req[q].at \in PreUse,
         \/ /\ req'[q].at \in PostUse
            /\ req'[q].token = req[q].token /\ req'[q].home = req[q].home
         \/ req[q].token = NoToken /\ req'[q].token = NoToken
  PROVE  TokenInv'
<1> USE DEF TokenInv
<1>0. \A o \in Requests : req[o].token \in Tokens \cup {NoToken}
  BY DEF TypeOK, Locals
<1>1. used \subseteq Tokens /\ NoToken \notin used
  BY DEF TypeOK
<1>2. /\ used' = used \cup ({req[q].token} \ {NoToken})
      /\ reused' = reused \cup (({req[q].token} \ {NoToken}) \cap used)
      /\ shared' = shared
  BY DEF Use
<1>3. \A o \in Requests : req'[o].token = req[o].token
  BY DEF Others
<1>4. HoldersKnow'
  BY <1>3 DEF HoldersKnow, Others
<1>5. UsedWereMade'
  BY <1>2 DEF UsedWereMade, HoldersKnow
<1>6. HeldOnce'
  BY <1>2, <1>3 DEF HeldOnce
<1>7. UsedAreCleaned'
  <2> SUFFICES ASSUME NEW t \in used', t \notin shared, mail[t].row \in {"live", "expired"}
               PROVE  \E o \in Requests : req'[o].token = t /\ req'[o].at \notin PreUse
    BY <1>2 DEF UsedAreCleaned, Mailed!InTable
  <2>1. CASE t \in used
    <3>1. PICK o \in Requests : req[o].token = t /\ req[o].at \notin PreUse
      BY <2>1 DEF UsedAreCleaned, Mailed!InTable
    <3> QED
      BY <3>1 DEF Others
  <2>2. CASE t \notin used
    <3>1. t = req[q].token /\ t # NoToken
      BY <1>2, <2>2
    <3> QED
      BY <3>1 DEF PreUse, PostUse
  <2> QED
    BY <2>1, <2>2
<1>8. FirstUse'
  <2> SUFFICES ASSUME NEW o \in Requests, req'[o].at \in PreUse, req'[o].token \in used'
               PROVE  req'[o].token \in shared
    BY <1>2 DEF FirstUse
  <2>1. CASE o = q
    BY <1>1, <1>2, <1>3, <2>1 DEF PreUse, PostUse
  <2>2. CASE o # q
    <3>1. req'[o] = req[o]
      BY <2>2 DEF Others
    <3> QED
      BY <1>2, <2>2, <3>1 DEF FirstUse, HeldOnce
  <2> QED
    BY <2>1, <2>2
<1>9. TokensWorkOnce'
  BY <1>2 DEF TokensWorkOnce, FirstUse
<1> QED
  BY <1>4, <1>5, <1>6, <1>7, <1>8, <1>9

LEMMA ConfirmKeeps ==
  ASSUME TypeOK, TokenInv, NEW q \in Requests, NEW t \in Tokens, Confirm(q, t)
  PROVE  TokenInv'
<1> USE DEF TokenInv
<1>1. /\ UNCHANGED <<mail, used, reused>> /\ mail[t].row \in {"live", "expired"}
      /\ shared' = shared \cup {x \in {t} : \E o \in Requests : req[o].token = x}
  BY DEF Confirm, Mailed!InTable
<1>2. /\ Others(q) /\ req[q].at = "idle"
      /\ req'[q].at \in PreUse /\ req'[q].token = t /\ req'[q].home = "web"
  BY ConfirmAsks
<1>3. req[q].token = NoToken /\ t # NoToken
  BY <1>2 DEF HoldersKnow, PreUse, PostUse
<1>4. \A o \in Requests : req[o].token = t => t \in shared'
  BY <1>1
<1>5. HoldersKnow'
  BY <1>1, <1>2 DEF HoldersKnow, Others
<1>6. UsedWereMade'
  BY <1>1 DEF UsedWereMade
<1>7. HeldOnce'
  <2> SUFFICES ASSUME NEW o \in Requests, NEW r \in Requests, o # r,
                      req'[o].token = req'[r].token, req'[o].token # NoToken
               PROVE  req'[o].token \in shared'
    BY DEF HeldOnce
  <2>1. CASE o # q /\ r # q
    BY <1>1, <1>2, <2>1 DEF HeldOnce, Others
  <2>2. CASE o = q \/ r = q
    BY <1>2, <1>4, <2>2 DEF Others
  <2> QED
    BY <2>1, <2>2
<1>8. UsedAreCleaned'
  <2> SUFFICES ASSUME NEW x \in used, x \notin shared', mail[x].row \in {"live", "expired"}
               PROVE  \E o \in Requests : req'[o].token = x /\ req'[o].at \notin PreUse
    BY <1>1 DEF UsedAreCleaned, Mailed!InTable
  <2>1. PICK o \in Requests : req[o].token = x /\ req[o].at \notin PreUse
    BY <1>1 DEF UsedAreCleaned, Mailed!InTable
  <2>2. o # q
    BY <1>3, <2>1 DEF TypeOK
  <2> QED
    BY <1>2, <2>1, <2>2 DEF Others
<1>9. FirstUse'
  <2> SUFFICES ASSUME NEW o \in Requests, req'[o].at \in PreUse, req'[o].token \in used
               PROVE  req'[o].token \in shared'
    BY <1>1 DEF FirstUse
  <2>1. CASE o # q
    BY <1>1, <1>2, <2>1 DEF FirstUse, Others
  <2>2. CASE o = q
    <3>1. t \in used
      BY <1>2, <2>2
    <3>2. CASE t \notin shared
      <4>1. PICK r \in Requests : req[r].token = t
        BY <1>1, <3>1, <3>2 DEF UsedAreCleaned, Mailed!InTable
      <4> QED
        BY <1>2, <1>4, <2>2, <4>1
    <3> QED
      BY <1>1, <1>2, <2>2, <3>2
  <2> QED
    BY <2>1, <2>2
<1> QED
  BY <1>1, <1>5, <1>6, <1>7, <1>8, <1>9 DEF TokensWorkOnce

LEMMA HeldBySteps ==
  ASSUME TokenInv, NEW q \in Requests, req[q].at \notin PreUse \cup PostUse
  PROVE  req[q].token = NoToken
  BY DEF TokenInv, HoldersKnow

\* Steps of a request that holds no token, or keeps the one that it has used.
LEMMA TokensKeptByOne ==
  ASSUME TypeOK, TokenInv, UNCHANGED <<used, reused>>, shared \subseteq shared', RowsAge,
         NEW q \in Requests, Others(q), Holding(q)
  PROVE  TokenInv'
<1>1. \A o \in Requests : Holding(o)
  BY DEF Others, Holding
<1> QED
  BY <1>1, TokensKept

LEMMA TokenStep == TypeOK /\ TokenInv /\ [Next]_vars => TokenInv'
<1> SUFFICES ASSUME TypeOK, TokenInv, [Next]_vars PROVE TokenInv'
  OBVIOUS
<1> USE DEF uses
<1>0. NoToken \notin used
  BY DEF TypeOK
<1>1. ASSUME NEW q \in Requests, Running(q) PROVE TokenInv'
  <2>0. req[q].who \in Users /\ req[q].kind \in Mailed!Kinds
    BY DEF TypeOK, Locals
  <2>1. ASSUME UNCHANGED uses, RowsAge, Return(q), req[q].token = NoToken PROVE TokenInv'
    <3>1. Others(q) /\ req'[q].token = NoToken
      BY <2>1, Returning
    <3>2. Holding(q)
      BY <1>0, <2>1, <3>1 DEF Holding
    <3> QED
      BY <2>1, <3>1, <3>2, TokensKeptByOne
  <2>2. ASSUME UNCHANGED uses, RowsAge, NEW step \in PostUse \cup {"insert", "wait"},
               req[q].at \notin PreUse,
               step \in {"insert", "wait"} => req[q].token = NoToken, Goto(q, step)
        PROVE  TokenInv'
    <3>1. Others(q) /\ req'[q].at = step /\ req'[q].token = req[q].token
          /\ req'[q].home = req[q].home
      BY <2>2, Going DEF PostUse, Steps
    <3>2. Holding(q)
      BY <1>0, <2>2, <3>1 DEF Holding
    <3> QED
      BY <2>2, <3>1, <3>2, TokensKeptByOne
  <2>3. ASSUME UNCHANGED uses, RowsAge, req[q].at \notin PreUse, Finish(q) PROVE TokenInv'
    BY <2>1, <2>2, <2>3 DEF Finish, PostUse
  <2>4. ASSUME Use(q), UNCHANGED mail, req[q].at \in PreUse,
               \/ \E step \in PostUse : Goto(q, step)
               \/ Finish(q)
        PROVE  TokenInv'
    <3>1. ASSUME NEW step \in PostUse, Goto(q, step) PROVE TokenInv'
      <4>1. Others(q) /\ req'[q].at = step /\ req'[q].token = req[q].token
            /\ req'[q].home = req[q].home
        BY <3>1, Going DEF PostUse, Steps
      <4> QED
        BY <2>4, <4>1, UseKeeps
    <3>2. CASE req[q].token = NoToken /\ Return(q)
      <4>1. Others(q) /\ req'[q].token = NoToken
        BY <3>2, Returning
      <4> QED
        BY <2>4, <3>2, <4>1, UseKeeps
    <3> QED
      BY <2>4, <3>1, <3>2 DEF Finish, PostUse
  <2>5. CASE InsertLimits(q) \/ InsertShorten(q) \/ Rehash(q) \/ WaitDone(q) \/ DeleteAll(q)
             \/ (\E f \in Files : InsertFile(q, f))
             \/ \E p \in Passwords : ChangePassword(q, p)
    <3>1. /\ UNCHANGED <<mail, uses>> /\ Return(q)
          /\ req[q].at \in {"limits", "shorten", "rehash", "wait", "delete_all", "upload", "choose"}
      BY <2>5 DEF InsertLimits, InsertShorten, Rehash, WaitDone, DeleteAll, InsertFile,
         ChangePassword, At
    <3>2. req[q].token = NoToken
      BY <3>1, HeldBySteps DEF PreUse, PostUse
    <3> QED
      BY <2>1, <3>1, <3>2, RowsDoAge
  <2>6. CASE CountTokens(q)
    <3>1. /\ UNCHANGED <<mail, uses>> /\ req[q].at = "count"
          /\ Return(q) \/ Goto(q, "insert")
      BY <2>6 DEF CountTokens, At
    <3>2. req[q].token = NoToken
      BY <3>1, HeldBySteps DEF PreUse, PostUse
    <3> QED
      BY <2>1, <2>2, <3>1, <3>2, RowsDoAge DEF PreUse
  <2>7. CASE InsertToken(q)
    <3>1. /\ UNCHANGED uses /\ req[q].at = "insert" /\ Return(q)
          /\ Mailed!InsertToken(req[q].who, req[q].kind) \/ UNCHANGED mail
      BY <2>7 DEF InsertToken, At
    <3>2. req[q].token = NoToken
      BY <3>1, HeldBySteps DEF PreUse, PostUse
    <3>3. RowsAge
      BY <2>0, <3>1, RowsDoAge
    <3> QED
      BY <2>1, <3>1, <3>2, <3>3
  <2>8. CASE ActivateByToken(q) \/ (\E p \in Passwords : ResetPassword(q, p)) \/ SelectActive(q)
    <3>1. /\ UNCHANGED mail /\ Use(q) /\ req[q].at \in PreUse
          /\ (\E step \in PostUse : Goto(q, step)) \/ Finish(q)
      BY <2>8 DEF ActivateByToken, ResetPassword, SelectActive, At, PreUse, PostUse
    <3> QED
      BY <2>4, <3>1
  <2>9. CASE CleanToken(q)
    <3>1. /\ UNCHANGED uses /\ Mailed!Clean(req[q].token) /\ Return(q)
      BY <2>9 DEF CleanToken
    <3>2. Others(q) /\ req'[q].token = NoToken
      BY <3>1, Returning
    <3>3. req[q].token \in used => mail'[req[q].token].row \notin {"live", "expired"}
      BY <3>1 DEF TypeOK, Mailed!MailTypeOK, Mailed!Clean, Mailed!NoRow, Mailed!InTable
    <3>4. Holding(q)
      BY <3>2, <3>3 DEF Holding
    <3>5. RowsAge
      BY <3>1, RowsDoAge
    <3> QED
      BY <3>1, <3>2, <3>4, <3>5, TokensKeptByOne
  <2>10. CASE MarkInactive(q) \/ HideFiles(q) \/ HideShortens(q)
    <3>1. PICK step \in PostUse : UNCHANGED <<mail, uses>> /\ req[q].at \in PostUse /\ Goto(q, step)
      BY <2>10 DEF MarkInactive, HideFiles, HideShortens, At, PostUse
    <3> QED
      BY <2>2, <3>1, RowsDoAge DEF PreUse, PostUse
  <2>11. CASE SpawnJob(q)
    <3> DEFINE j == <<req[q].home, req[q].who>>
    <3>1. /\ UNCHANGED <<mail, used, reused>> /\ req[q].at = "spawn" /\ j[1] = req[q].home
      BY <2>11 DEF SpawnJob, At
    <3>2. RowsAge
      BY <3>1, RowsDoAge
    <3>3. CASE NameTaken(q, j)
      <4>1. shared' = shared \cup ({req[q].token} \cap used) /\ Return(q)
        BY <3>3 DEF NameTaken
      <4>2. Others(q) /\ req'[q].token = NoToken
        BY <4>1, Returning
      <4>3. Holding(q)
        BY <4>1, <4>2 DEF Holding
      <4> QED
        BY <3>1, <3>2, <4>1, <4>2, <4>3, TokensKeptByOne
    <3>4. CASE UNCHANGED shared /\ req[q].home = "cli" /\ Goto(q, "wait")
      <4>1. req[q].token = NoToken
        BY <3>4 DEF TokenInv, HoldersKnow
      <4> QED
        BY <2>2, <3>1, <3>2, <3>4, <4>1 DEF PreUse
    <3>5. CASE UNCHANGED shared /\ Finish(q)
      BY <2>3, <3>1, <3>2, <3>5 DEF PreUse
    <3> QED
      BY <2>11, <3>1, <3>3, <3>4, <3>5 DEF SpawnJob
  <2> QED
    BY <1>1, <2>5, <2>6, <2>7, <2>8, <2>9, <2>10, <2>11 DEF Running
<1>2. ASSUME NEW q \in Requests, Asking(q) PROVE TokenInv'
  <2>1. ASSUME UNCHANGED <<mail, uses>>, Others(q), req[q].at = "idle", req'[q].token = NoToken
        PROVE  TokenInv'
    <3>1. req[q].token = NoToken
      BY <2>1, HeldBySteps DEF PreUse, PostUse
    <3>2. Holding(q)
      BY <1>0, <2>1, <3>1 DEF Holding
    <3> QED
      BY <2>1, <3>2, RowsDoAge, TokensKeptByOne
  <2>2. ASSUME NEW u \in Users, NEW p \in Processes, Register(q, u, p) \/ AskDelete(q, u, p)
        PROVE  TokenInv'
    BY <2>1, <2>2, RegisterAsks, AskDeleteAsks DEF Register, AskDelete
  <2>3. ASSUME NEW u \in Users, NEW step \in {"upload", "shorten", "delete_all"},
               AskUpload(q, u, step)
        PROVE  TokenInv'
    BY <2>1, <2>3, AskUploadAsks DEF AskUpload
  <2>4. ASSUME NEW u \in Users, NEW p \in Passwords, AskRevocation(q, u, p) \/ AskProfile(q, u, p)
        PROVE  TokenInv'
    BY <2>1, <2>4, PasswordAsks
  <2>5. ASSUME NEW u \in Users, NEW k \in Mailed!Kinds, AskToken(q, u, k) PROVE TokenInv'
    BY <2>1, <2>5, AskTokenAsks DEF AskToken
  <2> QED
    BY <1>2, <2>2, <2>3, <2>4, <2>5, ConfirmKeeps, WhoAsks
<1>3. ASSUME UNCHANGED <<req, uses>>, RowsAge PROVE TokenInv'
  BY <1>3, TokensKept DEF Holding
<1>4. CASE Administration \/ Handling
  BY <1>3, <1>4, Ordering, RowsDoAge
     DEF Administration, Activate, Deactivate, ChangeOwner, ResetPass, Handling, Rename, Undelete
<1>5. ASSUME NEW j \in Manager!Jobs, Working(j) \/ JobFails(j) PROVE TokenInv'
  <2>1. UNCHANGED <<req, uses>> /\ (UNCHANGED mail \/ Mailed!DropTokensOf(j[2]))
    BY <1>5 DEF Working, ListFiles, EndEmptying, DeleteRow, Purge, JobFails, JobOver
  <2> QED
    BY <1>3, <2>1, RowsDoAge
<1>6. ASSUME NEW requests \in SUBSET Requests, NEW keys, Drop(requests, keys) PROVE TokenInv'
  <2>1. /\ UNCHANGED <<mail, used, reused>>
        /\ shared' = shared \cup (used \cap {req[q].token : q \in requests})
    BY <1>6 DEF Drop, tables
  <2>2. \A o \in Requests : Holding(o)
    BY <1>6, <2>1, Dropping, IdleFields DEF Holding
  <2> QED
    BY <2>1, <2>2, RowsDoAge, TokensKept
<1>7. ASSUME NEW q \in Requests, Abort(q) PROVE TokenInv'
  BY <1>6, <1>7 DEF Abort
<1>8. ASSUME NEW p \in Processes, Crash(p) PROVE TokenInv'
  BY <1>6, <1>8 DEF Crash
<1>9. ASSUME NEW t \in Tokens, Expire(t) PROVE TokenInv'
  BY <1>3, <1>9, RowsDoAge DEF Expire
<1>10. CASE UNCHANGED vars
  BY <1>3, <1>10, RowsDoAge DEF vars
<1> QED
  BY <1>1, <1>2, <1>4, <1>5, <1>7, <1>8, <1>9, <1>10 DEF Next, Failing

\* A mailed token works twice only if it was shared.
THEOREM MailedTokensWorkOnce == Spec => []TokensWorkOnce
<1>1. Init => TokenInv
  BY IdleFields DEF Init, TokenInv, HoldersKnow, UsedWereMade, HeldOnce, UsedAreCleaned, FirstUse,
     TokensWorkOnce
<1>2. TokenInv => TokensWorkOnce
  BY DEF TokenInv
<1> QED
  BY <1>1, <1>2, TypeInit, TypeStep, TokenStep, PTL DEF Spec

-----------------------------------------------------------------------------
(* The limit of mailed tokens. *)

\* The requests that have counted the tokens and are about to insert one take
\* places that nobody sees.
Inserting(u, k) ==
    {q \in Requests : req[q].at = "insert" /\ req[q].who = u /\ req[q].kind = k}

LimitInv ==
    \A u \in Users, k \in Mailed!Kinds :
      Cardinality(Mailed!LiveTokens(u, k)) + Cardinality(Inserting(u, k))
        <= TokenLimit + Cardinality(Requests)

\* A step takes from both, or finds few tokens live, or trades one for the other.
LimitStep(u, k) ==
    \/ /\ Mailed!LiveTokens(u, k)' \subseteq Mailed!LiveTokens(u, k)
       /\ Inserting(u, k)' \subseteq Inserting(u, k)
    \/ /\ Mailed!LiveTokens(u, k)' \subseteq Mailed!LiveTokens(u, k)
       /\ Cardinality(Mailed!LiveTokens(u, k)) <= TokenLimit
    \/ \E t \in Tokens, q \in Inserting(u, k) :
         /\ Mailed!LiveTokens(u, k)' \subseteq Mailed!LiveTokens(u, k) \cup {t}
         /\ Inserting(u, k)' \subseteq Inserting(u, k) \ {q}

LEMMA LiveShrinks ==
  ASSUME TypeOK,
         \/ UNCHANGED mail
         \/ \E t \in Tokens : Mailed!Expire(t)
         \/ \E t : Mailed!Clean(t)
         \/ \E w : Mailed!DropTokensOf(w),
         NEW u \in Users, NEW k \in Mailed!Kinds
  PROVE  Mailed!LiveTokens(u, k)' \subseteq Mailed!LiveTokens(u, k)
<1> USE DEF Mailed!LiveTokens, Mailed!Row
<1>0. mail \in [Tokens -> [row : {"unused", "live", "expired", "gone"},
                           who : Users, kind : Mailed!Kinds]]
  BY DEF TypeOK, Mailed!MailTypeOK
<1>1. ASSUME NEW t \in Tokens, Mailed!Expire(t) PROVE Mailed!LiveTokens(u, k)' \subseteq Mailed!LiveTokens(u, k)
  BY <1>0, <1>1 DEF Mailed!Expire
<1>2. ASSUME NEW t, Mailed!Clean(t) PROVE Mailed!LiveTokens(u, k)' \subseteq Mailed!LiveTokens(u, k)
  BY <1>0, <1>2 DEF Mailed!Clean, Mailed!NoRow
<1>3. ASSUME NEW w, Mailed!DropTokensOf(w)
      PROVE  Mailed!LiveTokens(u, k)' \subseteq Mailed!LiveTokens(u, k)
  BY <1>0, <1>3 DEF Mailed!DropTokensOf, Mailed!NoRow
<1> QED
  BY <1>1, <1>2, <1>3

LEMMA InsertingShrinks ==
  ASSUME \A q \in Requests : req'[q] = req[q] \/ req'[q].at # "insert",
         NEW u \in Users, NEW k \in Mailed!Kinds
  PROVE  Inserting(u, k)' \subseteq Inserting(u, k)
  BY DEF Inserting

LEMMA LimitIsKept ==
  ASSUME TypeOK, TypeOK', LimitInv, \A u \in Users, k \in Mailed!Kinds : LimitStep(u, k)
  PROVE  LimitInv'
<1> SUFFICES ASSUME NEW u \in Users, NEW k \in Mailed!Kinds
             PROVE  Cardinality(Mailed!LiveTokens(u, k)') + Cardinality(Inserting(u, k)')
                      <= TokenLimit + Cardinality(Requests)
  BY DEF LimitInv
<1> DEFINE live == Mailed!LiveTokens(u, k)
           ins == Inserting(u, k)
           live2 == Mailed!LiveTokens(u, k)'
           ins2 == Inserting(u, k)'
<1>1. /\ IsFiniteSet(live) /\ IsFiniteSet(live2) /\ IsFiniteSet(ins) /\ IsFiniteSet(ins2)
      /\ ins2 \subseteq Requests
  <2>1. live \subseteq Tokens /\ live2 \subseteq Tokens
    BY DEF Mailed!LiveTokens
  <2>2. ins \subseteq Requests /\ ins2 \subseteq Requests
    BY DEF Inserting
  <2> HIDE DEF live, live2, ins, ins2
  <2> QED
    BY <2>1, <2>2, FS_Subset
<1>2. Cardinality(live) + Cardinality(ins) <= TokenLimit + Cardinality(Requests)
  BY DEF LimitInv
<1>3. \/ live2 \subseteq live /\ ins2 \subseteq ins
      \/ live2 \subseteq live /\ Cardinality(live) <= TokenLimit
      \/ \E t \in Tokens, q \in ins : live2 \subseteq live \cup {t} /\ ins2 \subseteq ins \ {q}
  BY DEF LimitStep
<1> HIDE DEF live, live2, ins, ins2
<1>4. /\ Cardinality(live) \in Nat /\ Cardinality(live2) \in Nat /\ Cardinality(ins) \in Nat
      /\ Cardinality(ins2) \in Nat /\ Cardinality(Requests) \in Nat
  BY <1>1, FS_CardinalityType
<1>5. CASE live2 \subseteq live /\ ins2 \subseteq ins
  <2>1. Cardinality(live2) <= Cardinality(live) /\ Cardinality(ins2) <= Cardinality(ins)
    BY <1>1, <1>5, FS_Subset
  <2> QED
    BY <1>2, <1>4, <2>1 DEF live2, ins2
<1>6. CASE live2 \subseteq live /\ Cardinality(live) <= TokenLimit
  <2>1. Cardinality(live2) <= Cardinality(live) /\ Cardinality(ins2) <= Cardinality(Requests)
    BY <1>1, <1>6, FS_Subset
  <2> QED
    BY <1>4, <1>6, <2>1 DEF live2, ins2
<1>7. ASSUME NEW t \in Tokens, NEW q \in ins,
             live2 \subseteq live \cup {t}, ins2 \subseteq ins \ {q}
      PROVE  Cardinality(live2) + Cardinality(ins2) <= TokenLimit + Cardinality(Requests)
  <2>1. /\ IsFiniteSet(live \cup {t})
        /\ Cardinality(live \cup {t}) <= Cardinality(live) + 1
    <3>1. IsFiniteSet(live)
      BY <1>1
    <3>2. Cardinality(live \cup {t}) \in {Cardinality(live), Cardinality(live) + 1}
      BY <3>1, FS_AddElement
    <3>3. IsFiniteSet(live \cup {t})
      BY <3>1, FS_AddElement
    <3> QED
      BY <1>4, <3>2, <3>3
  <2>2. IsFiniteSet(ins \ {q}) /\ Cardinality(ins \ {q}) = Cardinality(ins) - 1
    BY <1>1, FS_RemoveElement
  <2>3. /\ Cardinality(live2) <= Cardinality(live \cup {t})
        /\ Cardinality(ins2) <= Cardinality(ins \ {q})
    BY <1>7, <2>1, <2>2, FS_Subset
  <2>4. Cardinality(live \cup {t}) \in Nat
    BY <2>1, FS_CardinalityType
  <2> QED
    BY <1>2, <1>4, <2>1, <2>2, <2>3, <2>4
<1> QED
  BY <1>3, <1>5, <1>6, <1>7 DEF live2, ins2

LEMMA CountSteps ==
  ASSUME TypeOK, NEW q \in Requests, CountTokens(q) \/ InsertToken(q),
         NEW u \in Users, NEW k \in Mailed!Kinds
  PROVE  LimitStep(u, k)
<1>0. PICK w \in Users, l \in Mailed!Kinds : w = req[q].who /\ l = req[q].kind
  BY DEF TypeOK, Locals
<1>1. ASSUME Return(q) PROVE \A o \in Requests : req'[o] = req[o] \/ req'[o].at # "insert"
  BY <1>1, Returning DEF Others
<1>2. CASE CountTokens(q)
  <2>1. UNCHANGED mail /\ (Return(q) \/ (~ Mailed!TooMany(w, l) /\ Goto(q, "insert")))
    BY <1>0, <1>2 DEF CountTokens
  <2>2. Mailed!LiveTokens(u, k)' \subseteq Mailed!LiveTokens(u, k)
    BY <2>1, LiveShrinks
  <2>3. CASE Return(q)
    BY <1>1, <2>2, <2>3, InsertingShrinks DEF LimitStep
  <2>4. CASE ~ Mailed!TooMany(w, l) /\ Goto(q, "insert")
    <3>1. Others(q) /\ req'[q].who = w /\ req'[q].kind = l
      BY <1>0, <2>4, Going DEF Steps
    <3>2. CASE u = w /\ k = l
      <4>1. IsFiniteSet(Mailed!LiveTokens(u, k))
        BY FS_Subset DEF Mailed!LiveTokens
      <4>2. Cardinality(Mailed!LiveTokens(u, k)) \in Nat
        BY <4>1, FS_CardinalityType
      <4>3. ~ (Cardinality(Mailed!LiveTokens(u, k)) > TokenLimit)
        BY <2>4, <3>2 DEF Mailed!TooMany, Mailed!Cardinality, Cardinality
      <4>4. Cardinality(Mailed!LiveTokens(u, k)) <= TokenLimit
        BY <4>2, <4>3
      <4> QED
        BY <2>2, <4>4 DEF LimitStep
    <3>3. CASE u # w \/ k # l
      BY <2>2, <3>1, <3>3 DEF LimitStep, Inserting, Others
    <3> QED
      BY <3>2, <3>3
  <2> QED
    BY <2>1, <2>3, <2>4
<1>3. CASE InsertToken(q)
  <2>1. /\ req[q].at = "insert" /\ Return(q)
        /\ UNCHANGED mail \/ Mailed!InsertToken(w, l)
    BY <1>0, <1>3 DEF InsertToken, At
  <2>2. Inserting(u, k)' \subseteq Inserting(u, k)
    BY <1>1, <2>1, InsertingShrinks
  <2>3. CASE UNCHANGED mail
    BY <2>2, <2>3, LiveShrinks DEF LimitStep
  <2>4. CASE Mailed!InsertToken(w, l) /\ Mailed!Unused # {}
    <3>1. PICK t \in Tokens : mail' = [mail EXCEPT ![t] = Mailed!Row(w, l)]
      BY <2>4 DEF Mailed!InsertToken, Mailed!Unused
    <3>2. CASE u = w /\ k = l
      <4>1. Mailed!LiveTokens(u, k)' \subseteq Mailed!LiveTokens(u, k) \cup {t}
        BY <3>1 DEF Mailed!LiveTokens, TypeOK, Mailed!MailTypeOK
      <4>2. q \in Inserting(u, k)
        BY <1>0, <2>1, <3>2 DEF Inserting
      <4>3. q \notin Inserting(u, k)'
        BY <2>1, Returning DEF Inserting
      <4> QED
        BY <2>2, <4>1, <4>2, <4>3 DEF LimitStep
    <3>3. CASE u # w \/ k # l
      <4>1. Mailed!LiveTokens(u, k)' \subseteq Mailed!LiveTokens(u, k)
        BY <3>1, <3>3 DEF Mailed!LiveTokens, Mailed!Row, TypeOK, Mailed!MailTypeOK
      <4> QED
        BY <2>2, <4>1 DEF LimitStep
    <3> QED
      BY <3>2, <3>3
  <2> QED
    BY <2>1, <2>3, <2>4 DEF Mailed!InsertToken
<1> QED
  BY <1>2, <1>3

LEMMA LimitSteps ==
  ASSUME TypeOK, [Next]_vars, NEW u \in Users, NEW k \in Mailed!Kinds
  PROVE  LimitStep(u, k)
<1>1. ASSUME \A q \in Requests : req'[q] = req[q] \/ req'[q].at # "insert",
             \/ UNCHANGED mail
             \/ \E t \in Tokens : Mailed!Expire(t)
             \/ \E t : Mailed!Clean(t)
             \/ \E w : Mailed!DropTokensOf(w)
      PROVE  LimitStep(u, k)
  BY <1>1, LiveShrinks, InsertingShrinks DEF LimitStep
<1>2. ASSUME NEW q \in Requests, Others(q), req'[q].at # "insert",
             UNCHANGED mail \/ \E t : Mailed!Clean(t)
      PROVE  LimitStep(u, k)
  BY <1>1, <1>2 DEF Others
<1>3. ASSUME NEW q \in Requests, Running(q), ~ CountTokens(q), ~ InsertToken(q)
      PROVE  LimitStep(u, k)
  <2>1. /\ UNCHANGED mail \/ \E t : Mailed!Clean(t)
        /\ \/ Return(q) \/ Finish(q)
           \/ \E step \in Steps \ {"insert"} : Goto(q, step)
    BY <1>3 DEF Running, InsertLimits, InsertShorten, InsertFile, ActivateByToken, CleanToken,
       Rehash, ResetPassword, ChangePassword, SelectActive, MarkInactive, HideFiles,
       HideShortens, SpawnJob, NameTaken, WaitDone, DeleteAll, Steps
  <2>2. Others(q) /\ req'[q].at # "insert"
    BY <2>1, Returning, Finishing, Going
  <2> QED
    BY <1>2, <2>1, <2>2
<1>4. ASSUME NEW q \in Requests, Asking(q) PROVE LimitStep(u, k)
  <2>1. ASSUME NEW w \in Users, NEW p \in Processes, Register(q, w, p) \/ AskDelete(q, w, p)
        PROVE  LimitStep(u, k)
    BY <1>2, <2>1, RegisterAsks, AskDeleteAsks DEF Register, AskDelete
  <2>2. ASSUME NEW w \in Users, NEW step \in {"upload", "shorten", "delete_all"},
               AskUpload(q, w, step)
        PROVE  LimitStep(u, k)
    BY <1>2, <2>2, AskUploadAsks DEF AskUpload
  <2>3. ASSUME NEW w \in Users, NEW p \in Passwords, AskRevocation(q, w, p) \/ AskProfile(q, w, p)
        PROVE  LimitStep(u, k)
    BY <1>2, <2>3, PasswordAsks
  <2>4. ASSUME NEW w \in Users, NEW l \in Mailed!Kinds, AskToken(q, w, l) PROVE LimitStep(u, k)
    BY <1>2, <2>4, AskTokenAsks DEF AskToken
  <2>5. ASSUME NEW t \in Tokens, Confirm(q, t) PROVE LimitStep(u, k)
    BY <1>2, <2>5, ConfirmAsks DEF Confirm, PreUse
  <2> QED
    BY <1>4, <2>1, <2>2, <2>3, <2>4, <2>5, WhoAsks
<1>5. CASE Administration \/ Handling
  BY <1>1, <1>5, Ordering
     DEF Administration, Activate, Deactivate, ChangeOwner, ResetPass, Handling, Rename, Undelete
<1>6. ASSUME NEW j \in Manager!Jobs, Working(j) \/ JobFails(j) PROVE LimitStep(u, k)
  <2>1. UNCHANGED req /\ (UNCHANGED mail \/ Mailed!DropTokensOf(j[2]))
    BY <1>6 DEF Working, ListFiles, EndEmptying, DeleteRow, Purge, JobFails, JobOver
  <2> QED
    BY <1>1, <2>1
<1>7. ASSUME NEW requests \in SUBSET Requests, NEW keys, Drop(requests, keys)
      PROVE  LimitStep(u, k)
  BY <1>1, <1>7, Dropping, IdleFields DEF Drop
<1>8. CASE Failing
  BY <1>6, <1>7, <1>8 DEF Failing, Abort, Crash
<1>9. CASE (\E t \in Tokens : Expire(t)) \/ UNCHANGED vars
  BY <1>1, <1>9 DEF Expire, vars
<1> QED
  BY <1>3, <1>4, <1>5, <1>6, <1>8, <1>9, CountSteps DEF Next

\* A user's live tokens of a kind exceed the limit by no more than the requests
\* that counted at the same time.
THEOREM MailedTokensAreLimited == Spec => []TokensAreLimited
<1>1. Init => LimitInv
  <2> SUFFICES ASSUME Init, NEW u \in Users, NEW k \in Mailed!Kinds
               PROVE  Cardinality(Mailed!LiveTokens(u, k)) + Cardinality(Inserting(u, k))
                        <= TokenLimit + Cardinality(Requests)
    BY DEF LimitInv
  <2>1. Mailed!LiveTokens(u, k) = {} /\ Inserting(u, k) = {}
    BY IdleFields DEF Init, Mailed!MailInit, Mailed!NoRow, Mailed!LiveTokens, Mailed!Row, Inserting
  <2> QED
    BY <2>1, FS_EmptySet, FS_CardinalityType
<1>2. TypeOK /\ LimitInv => TokensAreLimited
  <2> SUFFICES ASSUME LimitInv, NEW u \in Users, NEW k \in Mailed!Kinds
               PROVE  Cardinality(Mailed!LiveTokens(u, k)) <= TokenLimit + Cardinality(Requests)
    BY DEF TokensAreLimited
  <2>1. IsFiniteSet(Mailed!LiveTokens(u, k)) /\ IsFiniteSet(Inserting(u, k))
    BY FS_Subset DEF Mailed!LiveTokens, Inserting
  <2> QED
    BY <2>1, FS_CardinalityType DEF LimitInv
<1>3. TypeOK /\ LimitInv /\ [Next]_vars => LimitInv'
  BY LimitSteps, LimitIsKept, TypeStep
<1> QED
  BY <1>1, <1>2, <1>3, TypeInit, TypeStep, PTL DEF Spec

=============================================================================
