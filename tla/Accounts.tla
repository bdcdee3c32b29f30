------------------------------ MODULE Accounts ------------------------------
(***************************************************************************)
(* A user's account from registration to deletion: the row and what        *)
(* refers to it, the tokens mailed to its owner, the password, and the     *)
(* background jobs that empty and delete it.  The handlers of the web      *)
(* server and a command of manage.py run side by side; each action is what *)
(* one of them does between two awaits.                                    *)
(***************************************************************************)
EXTENDS Naturals, FiniteSets

CONSTANTS
    Users,
    Files,       \* shortnames
    Tokens, TokenLimit,
    Passwords,
    Requests,    \* handlers and commands under way at once
    MaxAsked,    \* bound: requests ever made
    MaxAborts    \* bound: requests, jobs and processes that die half way

Processes == {"web", "cli"}
Nobody == "nobody"  \* a file's uploader before it is there
Dummy == "dummy"    \*   and after it was purged: user 0
NoToken == "none"

ASSUME AccountsAssumption ==
    /\ MaxAsked \in Nat /\ MaxAborts \in Nat
    /\ TokenLimit \in Nat /\ IsFiniteSet(Tokens) /\ IsFiniteSet(Requests)
    /\ Users # {} /\ Passwords # {}
    /\ {Nobody, Dummy} \cap Users = {} /\ NoToken \notin Tokens

VARIABLES
    status,    \* the row in users; "gone" after it was deleted
    limits,    \* the users with a row in limits
    password,  \* what users.password_hash is the hash of
    uploader,  \* each file's
    hidden,    \* files.deleted
    shortens,  \* the users with rows in shortens, deleted or not
    owners,    \* the users with rows in domain_owners
    mail,      \* the mailed tokens
    jobs,      \* the names the job managers know: delete_files_{user_id}
    task,      \* what the task of each job awaits
    deletes,   \* delete_file_task(..., delete=True)
    todo,      \* the files whose deletion it gathers
    strayed,   \* those renamed since it listed them, for which its list has no name
    req,       \* what each request awaits, and its locals
    asked, aborts,
    doomed,    \* history: users that delete_user has marked
    excused,   \* history:   and whose deletion was given up (see below)
    revived,   \* history: users activated after they were marked
    late,      \* history: files a user who is not active came to have
    shown,     \* history: files undeleted, and not hidden again
    used, reused, shared,  \* history: mailed tokens (see below)
    chosen,    \* history: the password last chosen
    former,    \* those before the one in force, which the cache may still hold
    raced      \* history: users who chose it while a revocation was on, or for whom
               \*   a revocation was let in by a former one

tables  == <<status, limits, password, uploader, hidden, shortens, owners>>
jobVars == <<jobs, task, deletes, todo, strayed>>
bounds  == <<asked, aborts>>
fate    == <<doomed, excused, revived, late, shown>>
uses    == <<used, reused, shared>>
choices == <<chosen, former, raced>>
vars == <<tables, mail, jobVars, req, bounds, fate, uses, choices>>

Manager == INSTANCE JobManager WITH Names <- Users
Mailed == INSTANCE MailedTokens WITH Holders <- Users

Steps == {"idle", "limits", "count", "insert", "activate", "reset", "select",
          "mark", "files", "shortens", "spawn", "wait", "delete_all", "upload",
          "shorten", "rehash", "choose", "clean"}

AnyUser == CHOOSE u \in Users : TRUE
FirstPassword == CHOOSE p \in Passwords : TRUE

Locals == [at : Steps, who : Users, home : Processes, token : Tokens \cup {NoToken},
           kind : Mailed!Kinds, secret : Passwords]
Idle == [at |-> "idle", who |-> AnyUser, home |-> "web", token |-> NoToken,
         kind |-> "reset", secret |-> FirstPassword]

TypeOK ==
    /\ status \in [Users -> {"none", "active", "inactive", "gone"}]
    /\ limits \subseteq Users /\ shortens \subseteq Users /\ owners \subseteq Users
    /\ password \in [Users -> Passwords] /\ chosen \in [Users -> Passwords]
    /\ uploader \in [Files -> Users \cup {Nobody, Dummy}] /\ hidden \subseteq Files
    /\ Mailed!MailTypeOK
    /\ jobs \subseteq Manager!Jobs
    /\ task \in [Manager!Jobs -> {"none", "list", "purge"}]
    /\ deletes \in [Manager!Jobs -> BOOLEAN]
    /\ todo \in [Manager!Jobs -> SUBSET Files]
    /\ strayed \in [Manager!Jobs -> SUBSET Files]
    /\ req \in [Requests -> Locals]
    /\ asked \in 0 .. MaxAsked /\ aborts \in 0 .. MaxAborts
    /\ doomed \subseteq Users /\ excused \subseteq Users
    /\ revived \subseteq Users /\ raced \subseteq Users
    /\ late \subseteq Files /\ shown \subseteq Files
    /\ former \in [Users -> SUBSET Passwords]
    /\ used \subseteq Tokens /\ reused \subseteq Tokens /\ shared \subseteq Tokens

Init ==
    /\ status \in [Users -> {"none", "active"}]
    /\ limits = {u \in Users : status[u] = "active"}
    /\ password = [u \in Users |-> FirstPassword] /\ chosen = password
    /\ former = [u \in Users |-> {}]
    /\ uploader = [f \in Files |-> Nobody]
    /\ hidden = {} /\ shortens = {} /\ owners = {}
    /\ Mailed!MailInit
    /\ jobs = {}
    /\ task = [j \in Manager!Jobs |-> "none"]
    /\ deletes = [j \in Manager!Jobs |-> FALSE]
    /\ todo = [j \in Manager!Jobs |-> {}] /\ strayed = todo
    /\ req = [q \in Requests |-> Idle]
    /\ asked = 0 /\ aborts = 0
    /\ doomed = {} /\ excused = {} /\ revived = {} /\ late = {} /\ shown = {}
    /\ used = {} /\ reused = {} /\ shared = {} /\ raced = {}

-----------------------------------------------------------------------------
Exists(u) == status[u] \in {"active", "inactive"}
At(q, step) == req[q].at = step
FilesOf(u) == {f \in Files : uploader[f] = u}

\* A request is made, and gets to its first await with these locals.
Ask(q, locals) ==
    /\ At(q, "idle") /\ asked < MaxAsked
    /\ asked' = asked + 1
    /\ req' = [req EXCEPT ![q] = locals]
    /\ UNCHANGED aborts

Local(step, u) == [Idle EXCEPT !.at = step, !.who = u]

\* An operation of an administrator that is one statement.
Order ==
    /\ asked < MaxAsked
    /\ asked' = asked + 1
    /\ UNCHANGED <<req, aborts>>

Goto(q, step) == req' = [req EXCEPT ![q].at = step] /\ UNCHANGED bounds
Return(q) == req' = [req EXCEPT ![q] = Idle] /\ UNCHANGED bounds

\* token_check or login_user: the account is active (and not banned), or was, and
\* the cache still says so.  Of one that is gone too: it finds no row, and does nothing.
Authenticated(u) == Exists(u)

\* A command is a process of its own; one at a time.
CanRun(p) == p = "web" \/ \A o \in Requests : req[o].home # "cli"

-----------------------------------------------------------------------------
(* register_user, manage adduser; activate_user, deactivate_user *)

\* create_user: the row is active from the start.
Register(q, u, p) ==
    /\ status[u] = "none" /\ CanRun(p)
    /\ Ask(q, [Local("limits", u) EXCEPT !.home = p])
    /\ status' = [status EXCEPT ![u] = "active"]
    /\ UNCHANGED <<limits, password, uploader, hidden, shortens, owners,
                   mail, jobVars, fate, uses, choices>>

\* register_user, whose mail and webhook nothing depends on
RegisterUser(q, u) == Register(q, u, "web")

\* manage adduser, with the same two statements
AddUser(q, u) == Register(q, u, "cli")

InsertLimits(q) ==
    LET u == req[q].who IN
    /\ At(q, "limits")
    /\ limits' = IF Exists(u) THEN limits \cup {u} ELSE limits
    /\ Return(q)
    /\ UNCHANGED <<status, password, uploader, hidden, shortens, owners,
                   mail, jobVars, fate, uses, choices>>

\* UPDATE users SET active = true: a user that is being deleted is revived.
SetActive(u) ==
    /\ status' = IF Exists(u) THEN [status EXCEPT ![u] = "active"] ELSE status
    /\ revived' = revived \cup ({u} \cap doomed)
    /\ doomed' = doomed \ {u}
    /\ UNCHANGED <<limits, password, uploader, hidden, shortens, owners, excused, late, shown>>

Activate(u) ==
    /\ Exists(u)
    /\ Order /\ SetActive(u)
    /\ UNCHANGED <<mail, jobVars, uses, choices>>

Deactivate(u) ==
    /\ Exists(u)
    /\ Order
    /\ status' = [status EXCEPT ![u] = "inactive"]
    /\ UNCHANGED <<limits, password, uploader, hidden, shortens, owners,
                   mail, jobVars, fate, uses, choices>>

-----------------------------------------------------------------------------
(* what users do meanwhile: uploads, shortens, domains *)

AskUpload(q, u, step) ==
    /\ Authenticated(u) /\ Ask(q, Local(step, u))
    /\ UNCHANGED <<tables, mail, jobVars, fate, uses, choices>>

\* The foreign key refuses the row of a user that is gone.
InsertFile(q, f) ==
    LET u == req[q].who IN
    /\ At(q, "upload") /\ uploader[f] = Nobody
    /\ uploader' = IF Exists(u) THEN [uploader EXCEPT ![f] = u] ELSE uploader
    /\ late' = IF status[u] = "inactive" THEN late \cup {f} ELSE late
    /\ Return(q)
    /\ UNCHANGED <<status, limits, password, hidden, shortens, owners,
                   mail, jobVars, doomed, excused, revived, shown, uses, choices>>

InsertShorten(q) ==
    LET u == req[q].who IN
    /\ At(q, "shorten")
    /\ shortens' = IF Exists(u) THEN shortens \cup {u} ELSE shortens
    /\ Return(q)
    /\ UNCHANGED <<status, limits, password, uploader, hidden, owners,
                   mail, jobVars, fate, uses, choices>>

\* add_owner, and remove_domain for the domain
ChangeOwner(u) ==
    /\ Exists(u)
    /\ Order
    /\ owners' = IF u \in owners THEN owners \ {u} ELSE owners \cup {u}
    /\ UNCHANGED <<status, limits, password, uploader, hidden, shortens,
                   mail, jobVars, fate, uses, choices>>

\* An administrator, or manage rename, gives a file another name; one that no job
\* has listed is not told from what it was.
Rename(f) ==
    /\ \E j \in Manager!Jobs : f \in todo[j] \ strayed[j]
    /\ Order
    /\ strayed' = [j \in Manager!Jobs |-> strayed[j] \cup ({f} \cap todo[j])]
    /\ UNCHANGED <<tables, mail, jobs, task, deletes, todo, fate, uses, choices>>

\* manage undelete: whose file it is was asked before, so the dummy user may have it
\* by now, and it may be that of a user who is being deleted.
Undelete(f) ==
    /\ f \in hidden
    /\ Order
    /\ hidden' = hidden \ {f} /\ shown' = shown \cup {f}
    /\ UNCHANGED <<status, limits, password, uploader, shortens, owners,
                   mail, jobVars, doomed, excused, revived, late, uses, choices>>

-----------------------------------------------------------------------------
(* mailed tokens: who may ask for one, and its making *)

\* dispatch_dump: the worker, of whom it made a dump for.  The token only names the
\* archive, and nothing but its expiry ends it (get_dump).
MayFetch(u) == Exists(u)

\* activation_email: for who is not active, an administrator asks.
MayActivate(u) == status[u] = "inactive"

\* deactive_own_user, with the password
MayLeave(u) == Authenticated(u)

\* reset_password_req: of any name that there is
MayReset(u) == Exists(u)

MayAsk(u, k) ==
    CASE k = "dump" -> MayFetch(u)
      [] k = "activation" -> MayActivate(u)
      [] k = "deletion" -> MayLeave(u)
      [] k = "reset" -> MayReset(u)

AskToken(q, u, k) ==
    /\ MayAsk(u, k)
    /\ Ask(q, [Local("count", u) EXCEPT !.kind = k])
    /\ UNCHANGED <<tables, mail, jobVars, fate, uses, choices>>

CountTokens(q) ==
    /\ At(q, "count")
    /\ IF Mailed!TooMany(req[q].who, req[q].kind) THEN Return(q) ELSE Goto(q, "insert")
    /\ UNCHANGED <<tables, mail, jobVars, fate, uses, choices>>

\* The mail goes out with it; that of an activation does not, since the row is
\* inserted once more and the key refuses it, but the token works all the same.
InsertToken(q) ==
    LET u == req[q].who IN
    /\ At(q, "insert")
    /\ IF Exists(u) THEN Mailed!InsertToken(u, req[q].kind) ELSE UNCHANGED mail
    /\ Return(q)
    /\ UNCHANGED <<tables, jobVars, fate, uses, choices>>

Expire(t) ==
    /\ Mailed!Expire(t)
    /\ UNCHANGED <<tables, jobVars, req, bounds, fate, uses, choices>>

-----------------------------------------------------------------------------
(* mailed tokens: their use *)

HandlerOf(k) ==
    CASE k = "activation" -> "activate" [] k = "deletion" -> "select"
      [] k = "reset" -> "reset"

\* uid_from_email: whatever the expiry.  A token that two requests hold at the
\* same time is shared.
Confirm(q, t) ==
    LET m == mail[t] IN
    /\ Mailed!InTable(t) /\ m.kind # "dump"
    /\ Ask(q, [Local(HandlerOf(m.kind), m.who) EXCEPT !.token = t, !.kind = m.kind])
    /\ shared' = shared \cup {x \in {t} : \E o \in Requests : req[o].token = x}
    /\ UNCHANGED <<tables, mail, jobVars, fate, used, reused, choices>>

\* A token does what it is for: the first time, or once more.
Use(q) ==
    LET t == {req[q].token} \ {NoToken} IN
    /\ used' = used \cup t
    /\ reused' = reused \cup (t \cap used)
    /\ UNCHANGED shared

\* activate_user_from_email
ActivateByToken(q) ==
    /\ At(q, "activate")
    /\ SetActive(req[q].who) /\ Use(q)
    /\ Goto(q, "clean")
    /\ UNCHANGED <<mail, jobVars, choices>>

CleanToken(q) ==
    /\ At(q, "clean")
    /\ Mailed!Clean(req[q].token)
    /\ Return(q)
    /\ UNCHANGED <<tables, jobVars, fate, uses, choices>>

-----------------------------------------------------------------------------
(* passwords *)

\* A choice that is made while a revocation hashes the password before it races.
ChoosePassword(u, p) ==
    /\ password' = IF Exists(u) THEN [password EXCEPT ![u] = p] ELSE password
    /\ chosen' = IF Exists(u) THEN [chosen EXCEPT ![u] = p] ELSE chosen
    /\ former' = [former EXCEPT ![u] = (@ \cup {password[u]}) \ {p}]
    /\ raced' = IF \E o \in Requests : At(o, "rehash") /\ req[o].who = u
                THEN raced \cup {u}
                ELSE IF Exists(u) THEN raced \ {u} ELSE raced
    /\ UNCHANGED <<status, limits, uploader, hidden, shortens, owners>>

\* password_reset_confirmation
ResetPassword(q, p) ==
    /\ At(q, "reset")
    /\ ChoosePassword(req[q].who, p) /\ Use(q)
    /\ Goto(q, "clean")
    /\ UNCHANGED <<mail, jobVars, fate>>

\* manage resetpass
ResetPass(u, p) ==
    /\ Exists(u)
    /\ Order /\ ChoosePassword(u, p)
    /\ UNCHANGED <<mail, jobVars, fate, uses>>

\* password_check: the password that is given is the one in force.
Checks(u, p) == p = password[u]

\* login_user compares with the hash in the cache, which may be one that was in force
\* before: until it is deleted there, or for 600 seconds if an old one was stored after.
LogsIn(u, p) == Checks(u, p) \/ p \in former[u]

AskWith(q, u, step, p) ==
    /\ Authenticated(u)
    /\ Ask(q, [Local(step, u) EXCEPT !.secret = p])
    /\ UNCHANGED <<tables, mail, jobVars, fate, uses, chosen, former>>

\* Mutant: the password that was given is not checked.
RevokeUnchecked(q, u, p) ==
    /\ AskWith(q, u, "rehash", p)
    /\ raced' = IF p \in former[u] THEN raced \cup {u} ELSE raced

\* revoke_handler: the password that let it in is hashed anew.
AskRevocation(q, u, p) ==
    /\ LogsIn(u, p)
    /\ AskWith(q, u, "rehash", p)
    /\ raced' = IF Checks(u, p) THEN raced ELSE raced \cup {u}

\* change_profile: other fields are updated first.
AskProfile(q, u, p) ==
    /\ Checks(u, p)
    /\ AskWith(q, u, "choose", p) /\ UNCHANGED raced

Rehash(q) ==
    LET u == req[q].who IN
    /\ At(q, "rehash")
    /\ password' = IF Exists(u) THEN [password EXCEPT ![u] = req[q].secret] ELSE password
    /\ former' = [former EXCEPT ![u] = (@ \cup {password[u]}) \ {req[q].secret}]
    /\ Return(q)
    /\ UNCHANGED <<status, limits, uploader, hidden, shortens, owners,
                   mail, jobVars, fate, uses, chosen, raced>>

ChangePassword(q, p) ==
    /\ At(q, "choose") /\ p # req[q].secret
    /\ ChoosePassword(req[q].who, p)
    /\ Return(q)
    /\ UNCHANGED <<mail, jobVars, fate, uses>>

-----------------------------------------------------------------------------
(* delete_user, for a mailed token, an administrator or manage deluser *)

AskDelete(q, u, p) ==
    /\ Exists(u) /\ CanRun(p)
    /\ Ask(q, [Local("select", u) EXCEPT !.home = p])
    /\ UNCHANGED <<tables, mail, jobVars, fate, uses, choices>>

\* An administrator deletes a user.
AdminDeletes(q, u) == AskDelete(q, u, "web")

\* manage deluser
ManageDeletes(q, u) == AskDelete(q, u, "cli")

\* Where the caller goes on: a token is cleaned, a command waits for the job.
Finish(q) ==
    IF req[q].token # NoToken THEN Goto(q, "clean") ELSE Return(q)

SelectActive(q) ==
    /\ At(q, "select")
    /\ Use(q)
    /\ IF status[req[q].who] = "active" THEN Goto(q, "mark") ELSE Finish(q)
    /\ UNCHANGED <<tables, mail, jobVars, fate, choices>>

MarkInactive(q) ==
    LET u == req[q].who IN
    /\ At(q, "mark")
    /\ status' = IF Exists(u) THEN [status EXCEPT ![u] = "inactive"] ELSE status
    /\ doomed' = doomed \cup {u} /\ excused' = excused \ {u}
    /\ Goto(q, "files")
    /\ UNCHANGED <<limits, password, uploader, hidden, shortens, owners,
                   mail, jobVars, revived, late, shown, uses, choices>>

\* Mutant: the statement for the files is dropped.
HideNothing(q) ==
    /\ At(q, "files")
    /\ Goto(q, "shortens")
    /\ UNCHANGED <<tables, mail, jobVars, fate, uses, choices>>

HideFiles(q) ==
    /\ At(q, "files")
    /\ hidden' = hidden \cup FilesOf(req[q].who)
    /\ shown' = shown \ FilesOf(req[q].who)
    /\ Goto(q, "shortens")
    /\ UNCHANGED <<status, limits, password, uploader, shortens, owners, mail, jobVars,
                   doomed, excused, revived, late, uses, choices>>

\* The rows in shortens are marked too, and stay.
HideShortens(q) ==
    /\ At(q, "shortens")
    /\ Goto(q, "spawn")
    /\ UNCHANGED <<tables, mail, jobVars, fate, uses, choices>>

StartJob(j, isDelete) ==
    /\ Manager!SpawnOnce(j[1], j[2])
    /\ task' = [task EXCEPT ![j] = "list"]
    /\ deletes' = [deletes EXCEPT ![j] = isDelete]
    /\ UNCHANGED <<todo, strayed>>

\* ValueError when the name is taken: the token stays, and nobody will delete
\* the user if the job of that name only empties the account.
NameTaken(q, j) ==
    /\ Manager!Exists(j[1], j[2])
    /\ excused' = IF deletes[j] THEN excused ELSE excused \cup {j[2]}
    /\ shared' = shared \cup ({req[q].token} \cap used)
    /\ Return(q)
    /\ UNCHANGED jobVars

\* Mutant: the flag that has the user deleted is not handed on.
SpawnEmptying(q) ==
    LET j == <<req[q].home, req[q].who>> IN
    /\ At(q, "spawn")
    /\ \/ NameTaken(q, j)
       \/ /\ ~ Manager!Exists(j[1], j[2])
          /\ StartJob(j, FALSE)
          /\ IF j[1] = "cli" THEN Goto(q, "wait") ELSE Finish(q)
          /\ UNCHANGED <<excused, shared>>
    /\ UNCHANGED <<tables, mail, doomed, revived, late, shown, used, reused, choices>>

SpawnJob(q) ==
    LET j == <<req[q].home, req[q].who>> IN
    /\ At(q, "spawn")
    /\ \/ NameTaken(q, j)
       \/ /\ ~ Manager!Exists(j[1], j[2])
          /\ StartJob(j, TRUE)
          /\ IF j[1] = "cli" THEN Goto(q, "wait") ELSE Finish(q)
          /\ UNCHANGED <<excused, shared>>
    /\ UNCHANGED <<tables, mail, doomed, revived, late, shown, used, reused, choices>>

\* manage deluser again: the process ends, and what it has left to do with it.
WaitDone(q) ==
    LET j == <<req[q].home, req[q].who>> IN
    /\ At(q, "wait") /\ task[j] = "none"
    /\ todo' = [todo EXCEPT ![j] = {}] /\ strayed' = [strayed EXCEPT ![j] = {}]
    /\ Return(q)
    /\ UNCHANGED <<tables, mail, jobs, task, deletes, fate, uses, choices>>

\* Mutant: delete_all starts the job that deletes the user as well.
DeleteAllAndUser(q) ==
    LET j == <<req[q].home, req[q].who>> IN
    /\ At(q, "delete_all")
    /\ IF Manager!Exists(j[1], j[2]) THEN UNCHANGED jobVars ELSE StartJob(j, TRUE)
    /\ Return(q)
    /\ UNCHANGED <<tables, mail, fate, uses, choices>>

\* delete_all: the same job, under the same name, that leaves the user alone
DeleteAll(q) ==
    LET j == <<req[q].home, req[q].who>> IN
    /\ At(q, "delete_all")
    /\ IF Manager!Exists(j[1], j[2]) THEN UNCHANGED jobVars ELSE StartJob(j, FALSE)
    /\ Return(q)
    /\ UNCHANGED <<tables, mail, fate, uses, choices>>

-----------------------------------------------------------------------------
(* delete_file_task *)

\* Mutant: the files that are already marked as deleted are not listed.
ListVisible(j) ==
    /\ task[j] = "list"
    /\ task' = [task EXCEPT ![j] = "purge"]
    /\ todo' = [todo EXCEPT ![j] = @ \cup (FilesOf(j[2]) \ hidden)]
    /\ strayed' = [strayed EXCEPT ![j] = {}]
    /\ UNCHANGED <<tables, mail, jobs, deletes, req, bounds, fate, uses, choices>>

ListFiles(j) ==
    /\ task[j] = "list"
    /\ task' = [task EXCEPT ![j] = "purge"]
    /\ todo' = [todo EXCEPT ![j] = @ \cup FilesOf(j[2])]
    /\ strayed' = [strayed EXCEPT ![j] = {}]
    /\ UNCHANGED <<tables, mail, jobs, deletes, req, bounds, fate, uses, choices>>

\* The UPDATE of a file's row finds it by the name it was listed with, and by its
\* uploader: a file that was renamed, or is another user's by now, stays.
Finds(j, f) == uploader[f] = j[2] /\ f \notin strayed[j]

\* Mutant: the uploader of a file is set to NULL.
PurgeToNull(j, f) ==
    /\ f \in todo[j]
    /\ todo' = [todo EXCEPT ![j] = @ \ {f}]
    /\ IF Finds(j, f)
       THEN /\ uploader' = [uploader EXCEPT ![f] = "null"]
            /\ hidden' = hidden \cup {f}
            /\ late' = late \ {f} /\ shown' = shown \ {f}
       ELSE UNCHANGED <<uploader, hidden, late, shown>>
    /\ UNCHANGED <<status, limits, password, shortens, owners, mail, jobs, task, deletes,
                   strayed, req, bounds, doomed, excused, revived, uses, choices>>

\* delete_file(..., False): the row goes to the dummy user.  Each runs in a task
\* of its own, which outlives the job if another one fails.
Purge(j, f) ==
    /\ f \in todo[j]
    /\ todo' = [todo EXCEPT ![j] = @ \ {f}]
    /\ IF Finds(j, f)
       THEN /\ uploader' = [uploader EXCEPT ![f] = Dummy]
            /\ hidden' = hidden \cup {f}
            /\ late' = late \ {f} /\ shown' = shown \ {f}
       ELSE UNCHANGED <<uploader, hidden, late, shown>>
    /\ UNCHANGED <<status, limits, password, shortens, owners, mail, jobs, task, deletes,
                   strayed, req, bounds, doomed, excused, revived, uses, choices>>

JobOver(j, failed) ==
    /\ Manager!Pop(j[1], j[2], failed)
    /\ task' = [task EXCEPT ![j] = "none"]
    /\ deletes' = [deletes EXCEPT ![j] = FALSE]
    /\ UNCHANGED <<password, uploader, hidden, shortens, owners, strayed, req, doomed,
                   revived, late, shown, uses, choices>>

EndEmptying(j) ==
    /\ task[j] = "purge" /\ todo[j] = {} /\ ~ deletes[j]
    /\ JobOver(j, FALSE)
    /\ UNCHANGED <<status, limits, mail, todo, bounds, excused>>

Referenced(u) == FilesOf(u) # {} \/ u \in shortens \/ u \in owners

\* Mutant: the DELETE is tried until nothing refuses it.
DeleteRowAtLast(j) ==
    LET u == j[2] IN
    /\ task[j] = "purge" /\ todo[j] = {} /\ deletes[j]
    /\ ~ Referenced(u)
    /\ JobOver(j, FALSE)
    /\ IF Exists(u)
       THEN /\ status' = [status EXCEPT ![u] = "gone"]
            /\ limits' = limits \ {u}
            /\ Mailed!DropTokensOf(u)
       ELSE UNCHANGED <<status, limits, mail>>
    /\ UNCHANGED <<todo, bounds, excused>>

\* DELETE FROM users: the cascade takes limits and mailed tokens; files, shortens
\* and domain_owners refuse it, and the deletion is given up.
DeleteRow(j) ==
    LET u == j[2] IN
    /\ task[j] = "purge" /\ todo[j] = {} /\ deletes[j]
    /\ JobOver(j, FALSE)
    /\ IF Exists(u) /\ ~ Referenced(u)
       THEN /\ status' = [status EXCEPT ![u] = "gone"]
            /\ limits' = limits \ {u}
            /\ Mailed!DropTokensOf(u)
            /\ UNCHANGED excused
       ELSE /\ excused' = IF Exists(u) THEN excused \cup {u} ELSE excused
            /\ UNCHANGED <<status, limits, mail>>
    /\ UNCHANGED <<todo, bounds>>

-----------------------------------------------------------------------------
(* failures *)

Fail == aborts < MaxAborts /\ aborts' = aborts + 1 /\ UNCHANGED asked

\* One deletion fails, or a query: gather raises and the others go on.
JobFails(j) ==
    /\ task[j] # "none" /\ Fail
    /\ JobOver(j, TRUE)
    /\ \/ task[j] = "purge" /\ \E f \in todo[j] : todo' = [todo EXCEPT ![j] = @ \ {f}]
       \/ (task[j] = "list" \/ todo[j] = {}) /\ UNCHANGED todo
    /\ excused' = IF deletes[j] THEN excused \cup {j[2]} ELSE excused
    /\ UNCHANGED <<status, limits, mail>>

Marking(q) == req[q].at \in {"files", "shortens", "spawn"}

\* The users whose deletion is in the hands of these requests and jobs.
InHand(requests, keys) ==
    {req[q].who : q \in {o \in requests : Marking(o)}}
        \cup {j[2] : j \in {i \in keys : task[i] # "none" /\ deletes[i]}}

\* These requests end where they stand, by an error of what they call.
Drop(requests, keys) ==
    /\ Fail
    /\ req' = [q \in Requests |-> IF q \in requests THEN Idle ELSE req[q]]
    /\ excused' = excused \cup InHand(requests, keys)
    /\ shared' = shared \cup (used \cap {req[q].token : q \in requests})
    /\ UNCHANGED <<tables, mail, doomed, revived, late, shown, used, reused, choices>>

Abort(q) ==
    /\ ~ At(q, "idle") /\ req[q].home = "web"
    /\ Drop({q}, {})
    /\ UNCHANGED jobVars

\* A process stops or dies, and its jobs are nowhere.
Crash(p) ==
    LET mine == {j \in Manager!Jobs : j[1] = p} IN
    /\ Drop({q \in Requests : req[q].home = p}, mine)
    /\ Manager!Stop(p)
    /\ task' = [j \in Manager!Jobs |-> IF j \in mine THEN "none" ELSE task[j]]
    /\ deletes' = [j \in Manager!Jobs |-> IF j \in mine THEN FALSE ELSE deletes[j]]
    /\ todo' = [j \in Manager!Jobs |-> IF j \in mine THEN {} ELSE todo[j]]
    /\ strayed' = [j \in Manager!Jobs |-> IF j \in mine THEN {} ELSE strayed[j]]

-----------------------------------------------------------------------------
Administration ==
    \E u \in Users :
      \/ Activate(u) \/ Deactivate(u) \/ ChangeOwner(u)
      \/ \E p \in Passwords : ResetPass(u, p)

\* Of a file, by an administrator or a command
Handling == \E f \in Files : Rename(f) \/ Undelete(f)

Asking(q) ==
    \/ \E u \in Users :
         \/ RegisterUser(q, u) \/ AddUser(q, u)
         \/ AdminDeletes(q, u) \/ ManageDeletes(q, u)
         \/ \E step \in {"upload", "shorten", "delete_all"} : AskUpload(q, u, step)
         \/ \E p \in Passwords : AskRevocation(q, u, p) \/ AskProfile(q, u, p)
         \/ \E k \in Mailed!Kinds : AskToken(q, u, k)
    \/ \E t \in Tokens : Confirm(q, t)

\* What a request that is under way does next.
Running(q) ==
    \/ InsertLimits(q) \/ CountTokens(q) \/ InsertToken(q) \/ InsertShorten(q)
    \/ \E f \in Files : InsertFile(q, f)
    \/ ActivateByToken(q) \/ CleanToken(q) \/ Rehash(q)
    \/ \E p \in Passwords : ResetPassword(q, p) \/ ChangePassword(q, p)
    \/ SelectActive(q) \/ MarkInactive(q) \/ HideFiles(q) \/ HideShortens(q)
    \/ SpawnJob(q) \/ WaitDone(q) \/ DeleteAll(q)

Working(j) ==
    \/ ListFiles(j) \/ EndEmptying(j) \/ DeleteRow(j)
    \/ \E f \in Files : Purge(j, f)

Failing ==
    \/ \E j \in Manager!Jobs : JobFails(j)
    \/ \E q \in Requests : Abort(q)
    \/ \E p \in Processes : Crash(p)

Next ==
    \/ Administration \/ Handling
    \/ \E q \in Requests : Asking(q) \/ Running(q)
    \/ \E j \in Manager!Jobs : Working(j)
    \/ \E t \in Tokens : Expire(t)
    \/ Failing

\* The event loop runs what it may run, and the database answers.  (Every step of a
\* request changes req, and every step of a job its task or what it has to do.)
Fairness ==
    /\ \A q \in Requests : WF_req(Running(q))
    /\ \A j \in Manager!Jobs : WF_<<task, todo>>(Working(j))

Spec == Init /\ [][Next]_vars /\ Fairness

-----------------------------------------------------------------------------
\* A job manager knows exactly the jobs whose task is not over, so that a name
\* is free again however its job ended (jobs.py:30-45).
JobsAreKnown == jobs = {j \in Manager!Jobs : task[j] # "none"}

\* A user that delete_user has marked and that nobody activated since is still
\* being deleted, or the deletion was given up for a cause: a job of that name
\* was emptying the account, a row still referred to the user when the files
\* were gone, or something died (profile.py:429, jobs.py:82).
DoomedAreDeleted ==
    \A u \in doomed :
      status[u] = "inactive" => u \in excused \cup InHand(Requests, Manager!Jobs)

\* Once the job of a deletion has listed the files (profile.py:378), only those
\* it has not come to yet, and those of uploads that had been let in before the
\* account was marked or renamed after they were listed, are still the user's; or
\* the user was revived meanwhile.
OnlyLateFilesRemain ==
    \A j \in Manager!Jobs :
      task[j] = "purge" /\ deletes[j] /\ j[2] \notin revived
        => FilesOf(j[2]) \subseteq todo[j] \cup late \cup strayed[j]

\* The files of a marked user are hidden from the moment delete_user is past
\* the UPDATE (profile.py:472), but for those that arrive late, and those that
\* manage undelete (manage/cmd/files.py:318) has shown again.
DoomedAreHidden ==
    \A u \in doomed \ excused :
      status[u] = "inactive" /\ (\A q \in Requests : At(q, "files") => req[q].who # u)
        => FilesOf(u) \subseteq hidden \cup late \cup shown

\* No more tokens of a kind are live than the limit allows, give or take those
\* of requests that counted before the others inserted (email.py:82-105).
TokensAreLimited ==
    \A u \in Users, k \in Mailed!Kinds :
      Cardinality(Mailed!LiveTokens(u, k)) <= TokenLimit + Cardinality(Requests)

\* A mailed token does its work twice only if two requests held it at once, or
\* one died, or could not spawn the job, before it cleaned it (profile.py:513).  It
\* takes no more than that for "other attempts" not to "give you an error"
\* (email.py:246).
TokensWorkOnce == reused \subseteq shared

\* The password in force is the one that was last chosen: a revocation hashes anew
\* the one it was given (bp/auth.py:56), and brings back an older one only if it was
\* under way when the last was chosen, or was let in by an older one that the cache
\* still held (storage.py:303).
LastChoiceStands ==
    \A u \in Users \ raced : Exists(u) => password[u] = chosen[u]

\* "The link will be invalid in 12 hours", says the mail with the link that confirms
\* a deletion, and the one of a password reset says so of 30 minutes (profile.py:348,
\* profile.py:549): no request is let in by a link that has expired.
ExpiredLinksAreDead ==
    [][\A q \in Requests, t \in Tokens :
         mail[t].row = "expired" /\ req[q].token # t => req'[q].token # t]_<<mail, req>>

\* The stage an account has come to: one that delete_user has marked is doomed,
\* or spared when its deletion was given up.
LifeOf(u) ==
    IF status[u] = "inactive" /\ u \in doomed
    THEN IF u \in excused THEN "spared" ELSE "doomed"
    ELSE status[u]

Lives == [u \in Users |-> LifeOf(u)]
Pending == InHand(Requests, Manager!Jobs)

Life == INSTANCE AccountLife WITH life <- Lives, pending <- Pending

\* Whatever the requests, the jobs of two processes and their failures do to an
\* account and its deletion comes to the life of AccountLife: none goes but by a
\* deletion that was begun by marking it, delete_all and manage.py included, and
\* no deletion is forgotten (profile.py:414, profile.py:429, admin/user.py:96).
AccountsLeadTheirLives == Life!Spec

\* Every deletion that was begun comes to an end: the user is gone, or it was
\* given up, or an administrator activated the user again.
DeletionEnds ==
    \A u \in Users :
      u \in doomed ~> status[u] = "gone" \/ u \in excused \/ u \notin doomed
=============================================================================
