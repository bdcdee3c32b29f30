------------------------------ MODULE DataDump ------------------------------
(***************************************************************************)
(* Data dumps: POST /api/dump/request puts a user in dump_queue and starts *)
(* the worker job; the worker takes a user at a time to                    *)
(* current_dump_state, writes an archive file by file, noting each file in *)
(* the row, and mails a link.  After a crash the next worker resumes from  *)
(* the row.  An error ends a dump or the worker, and the row stays.  Each   *)
(* action is what runs between two awaits.  Files that are purged while    *)
(* their owner's dump is under way are left out: a user's files only grow. *)
(***************************************************************************)
EXTENDS Naturals, Sequences, SequencesExt

CONSTANTS
    Users,
    Requests,     \* requests for a dump under way at once
    Names,        \* user names
    BadMailbox,   \* users the mail service may refuse
    InitialFiles, \* how many files each user has to begin with
    MaxFiles,     \* bound: files of a user; file ids are 1, 2, ...
    MaxUploads,   \* bound: those a user adds to them
    MaxMishaps    \* bound: crashes, calls that fail, and renames of a user name

ASSUME DumpAssumption ==
    /\ BadMailbox \subseteq Users /\ Users # {} /\ Names # {}
    /\ InitialFiles \in [Users -> 0 .. MaxFiles]
    /\ MaxFiles \in Nat /\ MaxUploads \in Nat /\ MaxMishaps \in Nat

VARIABLES
    files,     \* how many files each user has uploaded
    username,  \* the name each user has now
    renames,
    queue,     \* dump_queue, by request_timestamp
    order,     \* the users in current_dump_state, by start_timestamp
    current,   \* their current_id, 0 for NULL or no row
    total,     \* their total_files, 0 for no row
    archive,   \* what the directory of the zip file of each user and user name
               \* lists, {} when there is none
    wpc,       \* the await the worker stands at; "none": not in the job manager
    wuser, wid,    \* its locals: the user, the file
    after,     \* where dump_worker goes on when the dump it is at returns
    wname, wzip,   \* the name in the path of the ZipFile it has open, its entries
    rpc, ruser,    \* the requests
    faults,
    written,     \* history: files written to any archive of the user's dump under way
    unfinished,  \* history: users whose mail was refused or whose dump an error ended
    interrupted  \* history: users whose archive was cut, or will not be found again:
                 \* by a crash, a disk that fails, the janitor, a change of name

userVars   == <<files, username, renames>>
tables     == <<queue, order, current, total>>
workerVars == <<wpc, wuser, wid, after, wname, wzip>>
requestVars == <<rpc, ruser>>
historyVars == <<written, unfinished, interrupted>>
vars == <<userVars, tables, archive, workerVars, requestVars, faults, historyVars>>

FileIds == 1 .. MaxFiles
AnyUser == CHOOSE u \in Users : TRUE
AnyName == CHOOSE n \in Names : TRUE
InQueue(u) == u \in Range(queue)
InState(u) == u \in Range(order)

MayMishap == faults + renames < MaxMishaps

\* DELETE ... WHERE user_id = u: a user is in each table at most once.
Without(s, u) ==
    IF u \in Range(s) THEN RemoveAt(s, CHOOSE i \in 1 .. Len(s) : s[i] = u) ELSE s

\* Between open_zipdump and zipdump.close().
ZipOpen == wpc \in {"write", "update", "dispatch", "remove"}

TypeOK ==
    /\ files \in [Users -> 0 .. MaxFiles]
    /\ username \in [Users -> Names] /\ renames \in 0 .. MaxMishaps
    /\ queue \in Seq(Users) /\ order \in Seq(Users)
    /\ current \in [Users -> 0 .. MaxFiles]
    /\ total \in [Users -> 0 .. MaxFiles]
    /\ archive \in [Users -> [Names -> SUBSET FileIds]]
    /\ wpc \in {"none", "state", "resume", "queue", "dequeue", "insert", "open",
                "write", "update", "dispatch", "remove", "stop"}
    /\ wuser \in Users /\ wid \in 0 .. MaxFiles
    /\ after \in {"state", "queue"}
    /\ wname \in Names /\ wzip \subseteq FileIds
    /\ rpc \in [Requests -> {"idle", "checkqueue", "insert", "start"}]
    /\ ruser \in [Requests -> Users]
    /\ faults \in 0 .. MaxMishaps
    /\ written \in [Users -> SUBSET FileIds]
    /\ unfinished \subseteq Users /\ interrupted \subseteq Users

Init ==
    /\ files = InitialFiles
    /\ username = [u \in Users |-> AnyName] /\ renames = 0
    /\ queue = <<>> /\ order = <<>>
    /\ current = [u \in Users |-> 0] /\ total = [u \in Users |-> 0]
    /\ archive = [u \in Users |-> [n \in Names |-> {}]]
    /\ wpc = "none"
    /\ wuser = AnyUser /\ wid = 0 /\ after = "state"
    /\ wname = AnyName /\ wzip = {}
    /\ rpc = [q \in Requests |-> "idle"] /\ ruser = [q \in Requests |-> AnyUser]
    /\ faults = 0
    /\ written = [u \in Users |-> {}]
    /\ unfinished = {} /\ interrupted = {}

-----------------------------------------------------------------------------
(* request_data_dump.  A user whose dump is under way is refused at once. *)

RequestReturns(q) ==
    /\ rpc' = [rpc EXCEPT ![q] = "idle"]
    /\ ruser' = [ruser EXCEPT ![q] = AnyUser]

RequestGoto(q, step) == rpc' = [rpc EXCEPT ![q] = step] /\ UNCHANGED ruser

CheckState(q, u) ==
    /\ rpc[q] = "idle" /\ ~InState(u)
    /\ rpc' = [rpc EXCEPT ![q] = "checkqueue"]
    /\ ruser' = [ruser EXCEPT ![q] = u]
    /\ UNCHANGED <<userVars, tables, archive, workerVars, faults, historyVars>>

CheckQueue(q) ==
    /\ rpc[q] = "checkqueue"
    /\ IF InQueue(ruser[q]) THEN RequestReturns(q) ELSE RequestGoto(q, "insert")
    /\ UNCHANGED <<userVars, tables, archive, workerVars, faults, historyVars>>

\* The primary key refuses the second of two requests of one user.
InsertQueue(q) ==
    /\ rpc[q] = "insert"
    /\ \/ InQueue(ruser[q]) /\ RequestReturns(q) /\ UNCHANGED queue
       \/ /\ ~InQueue(ruser[q])
          /\ queue' = Append(queue, ruser[q])
          /\ RequestGoto(q, "start")
    /\ UNCHANGED <<userVars, order, current, total, archive, workerVars, faults, historyVars>>

\* spawn_once: the job of a worker that is about to stop is still registered.
StartWorker(q) ==
    /\ rpc[q] = "start"
    /\ wpc' = IF wpc = "none" THEN "state" ELSE wpc
    /\ RequestReturns(q)
    /\ UNCHANGED <<userVars, tables, archive, wuser, wid, after, wname, wzip, faults, historyVars>>

-----------------------------------------------------------------------------
(* dump_worker *)

Locals(u, id, then) == wuser' = u /\ wid' = id /\ after' = then

\* The worker has no archive open, and knows no path.
NoZip == wname' = AnyName /\ wzip' = {}

\* open_zipdump asks for the user's name and opens <user id>_<name>.zip.
HasZip(zip) == wname' = username[wuser] /\ wzip' = zip

\* What there is under that path.
ZipFound == archive[wuser][username[wuser]]

\* dump_files ends as soon as there is no file to dump.
FilesFrom(id) == wpc' = IF id = 0 THEN "dispatch" ELSE "write"

FetchState ==
    /\ wpc = "state"
    /\ IF order # <<>>
       THEN wpc' = "resume" /\ Locals(Head(order), 0, "queue") /\ NoZip
       ELSE wpc' = "queue" /\ Locals(AnyUser, 0, "state") /\ NoZip
    /\ UNCHANGED <<userVars, tables, archive, requestVars, faults, historyVars>>

\* Mutant: the dump is resumed after the file the row names.
ResumeAfter ==
    /\ wpc = "resume"
    /\ LET id == IF current[wuser] < files[wuser] THEN current[wuser] + 1 ELSE 0 IN
       Locals(wuser, id, "queue") /\ HasZip(ZipFound) /\ FilesFrom(id)
    /\ UNCHANGED <<userVars, tables, archive, requestVars, faults, historyVars>>

\* Mutant: the archive is opened with "w", as for a new dump.
ResumeOverwriting ==
    /\ wpc = "resume"
    /\ Locals(wuser, current[wuser], "queue") /\ HasZip({})
    /\ FilesFrom(current[wuser])
    /\ UNCHANGED <<userVars, tables, archive, requestVars, faults, historyVars>>

\* resume_dump appends to the archive of that user and name, if there is one, and
\* begins with the file of the row, which may be in it already.
Resume ==
    /\ wpc = "resume"
    /\ Locals(wuser, current[wuser], "queue") /\ HasZip(ZipFound)
    /\ FilesFrom(current[wuser])
    /\ UNCHANGED <<userVars, tables, archive, requestVars, faults, historyVars>>

FetchQueue ==
    /\ wpc = "queue"
    /\ IF queue # <<>>
       THEN wpc' = "dequeue" /\ Locals(Head(queue), 0, "state") /\ NoZip
       ELSE wpc' = "stop" /\ Locals(AnyUser, 0, "state") /\ NoZip
    /\ UNCHANGED <<userVars, tables, archive, requestVars, faults, historyVars>>

Dequeue ==
    /\ wpc = "dequeue"
    /\ queue' = Without(queue, wuser)
    /\ wpc' = "insert"
    /\ UNCHANGED <<userVars, order, current, total, archive, wuser, wid, after, wname,
                   wzip, requestVars, faults, historyVars>>

\* do_dump: a user who is still in current_dump_state violates its primary
\* key, outside the try of do_dump, and the worker ends.
InsertState ==
    /\ wpc = "insert"
    /\ \/ /\ InState(wuser)
          /\ wpc' = "stop" /\ Locals(AnyUser, 0, "state") /\ NoZip
          /\ UNCHANGED <<order, current, total>>
       \/ /\ ~InState(wuser)
          /\ order' = Append(order, wuser)
          /\ LET first == IF files[wuser] = 0 THEN 0 ELSE 1 IN
             current' = [current EXCEPT ![wuser] = first] /\ wid' = first
          /\ total' = [total EXCEPT ![wuser] = files[wuser]]
          /\ wpc' = "open"
          /\ UNCHANGED <<wuser, after, wname, wzip>>
    /\ UNCHANGED <<userVars, queue, archive, requestVars, faults, historyVars>>

\* The archive of an earlier dump is overwritten.
OpenZip ==
    /\ wpc = "open"
    /\ archive' = [archive EXCEPT ![wuser][username[wuser]] = {}]
    /\ HasZip({}) /\ FilesFrom(wid)
    /\ UNCHANGED <<userVars, tables, wuser, wid, after, requestVars, faults, historyVars>>

WriteFile ==
    /\ wpc = "write"
    /\ wzip' = wzip \cup {wid}
    /\ written' = [written EXCEPT ![wuser] = @ \cup {wid}]
    /\ wpc' = "update"
    /\ UNCHANGED <<userVars, tables, archive, wuser, wid, after, wname, requestVars,
                   faults, unfinished, interrupted>>

\* Mutant: the file after the last one is dumped too.
UpdateBeyond ==
    /\ wpc = "update"
    /\ current' = [current EXCEPT ![wuser] = wid]
    /\ IF wid <= files[wuser] THEN wpc' = "write" /\ wid' = wid + 1
                              ELSE wpc' = "dispatch" /\ wid' = 0
    /\ UNCHANGED <<userVars, queue, order, total, archive, wuser, after, wname, wzip,
                   requestVars, faults, historyVars>>

\* The row notes the file just written, and the next id is fetched.
UpdateState ==
    /\ wpc = "update"
    /\ current' = [current EXCEPT ![wuser] = wid]
    /\ IF wid < files[wuser] THEN wpc' = "write" /\ wid' = wid + 1
                             ELSE wpc' = "dispatch" /\ wid' = 0
    /\ UNCHANGED <<userVars, queue, order, total, archive, wuser, after, wname, wzip,
                   requestVars, faults, historyVars>>

\* zipdump.close() writes the directory; dump_worker goes on with the queue
\* after resume_dump, and from the start after do_dump.
CloseZip ==
    /\ archive' = [archive EXCEPT ![wuser][wname] = wzip]
    /\ wpc' = after
    /\ Locals(AnyUser, 0, "state") /\ NoZip

\* Mutant: the worker starts over after a resumed dump too.
DispatchAgain ==
    /\ wpc = "dispatch"
    /\ \/ /\ wpc' = "remove"
          /\ UNCHANGED <<archive, wuser, wid, after, wname, wzip, unfinished>>
       \/ /\ wuser \in BadMailbox
          /\ unfinished' = unfinished \cup {wuser}
          /\ archive' = [archive EXCEPT ![wuser][wname] = wzip]
          /\ wpc' = "state"
          /\ Locals(AnyUser, 0, "state") /\ NoZip
    /\ UNCHANGED <<userVars, tables, requestVars, faults, written, interrupted>>

\* dispatch_dump: send_user_email raises unless the service accepts the mail;
\* do_dump and resume_dump log that and leave the row where it is.
Dispatch ==
    /\ wpc = "dispatch"
    /\ \/ /\ wpc' = "remove"
          /\ UNCHANGED <<archive, wuser, wid, after, wname, wzip, unfinished>>
       \/ /\ wuser \in BadMailbox
          /\ unfinished' = unfinished \cup {wuser}
          /\ CloseZip
    /\ UNCHANGED <<userVars, tables, requestVars, faults, written, interrupted>>

\* Mutant: the row outlives the delivery.
KeepState ==
    /\ wpc = "remove"
    /\ CloseZip
    /\ UNCHANGED <<userVars, tables, requestVars, faults, historyVars>>

RemoveState ==
    /\ wpc = "remove"
    /\ order' = Without(order, wuser)
    /\ current' = [current EXCEPT ![wuser] = 0]
    /\ total' = [total EXCEPT ![wuser] = 0]
    /\ written' = [written EXCEPT ![wuser] = {}]
    /\ unfinished' = unfinished \ {wuser}
    /\ interrupted' = interrupted \ {wuser}
    /\ CloseZip
    /\ UNCHANGED <<userVars, queue, requestVars, faults>>

\* The wrapper's finally takes the job out of the job manager, some awaits
\* after the queue was found empty.
WorkerStops ==
    /\ wpc = "stop"
    /\ wpc' = "none"
    /\ UNCHANGED <<userVars, tables, archive, wuser, wid, after, wname, wzip, requestVars, faults,
                   historyVars>>

-----------------------------------------------------------------------------
(* Errors: a call to Postgres, the disk or the mail service fails, or returns what
   the code does not expect (a user without limits). *)

\* A zip file gets its directory when it is closed.  One that never was lists
\* what it did when it was opened (nothing of it had reached the disk), or nothing
\* at all: "a" then begins a new archive after what the file holds.
ZipCut ==
    \/ UNCHANGED archive
    \/ ZipOpen /\ archive' = [archive EXCEPT ![wuser][wname] = {}]

\* Inside the try of do_dump and resume_dump: the archive is closed and the row
\* stays, even that of a dump that was mailed and could not be removed.  When
\* close() fails as well the error leaves the finally, and the worker ends.
DumpFails ==
    /\ ZipOpen /\ MayMishap
    /\ faults' = faults + 1
    /\ unfinished' = unfinished \cup {wuser}
    /\ \/ CloseZip /\ UNCHANGED interrupted
       \/ /\ ZipCut /\ interrupted' = interrupted \cup {wuser}
          /\ wpc' = "stop" /\ Locals(AnyUser, 0, "state") /\ NoZip
    /\ UNCHANGED <<userVars, tables, requestVars, written>>

\* Outside it the worker ends.  A user who was dequeued and has no row is lost.
WorkerFails ==
    /\ wpc \in {"state", "resume", "queue", "dequeue", "insert", "open"}
    /\ MayMishap
    /\ faults' = faults + 1
    /\ unfinished' = IF wpc = "open" THEN unfinished \cup {wuser} ELSE unfinished
    /\ wpc' = "stop" /\ Locals(AnyUser, 0, "state") /\ NoZip
    /\ UNCHANGED <<userVars, tables, archive, requestVars, written, interrupted>>

\* The server is killed and started again: start_tasks starts a worker.
Crash ==
    /\ MayMishap
    /\ faults' = faults + 1
    /\ ZipCut
    /\ interrupted' = IF ZipOpen \/ wpc = "open" THEN interrupted \cup {wuser} ELSE interrupted
    /\ wpc' = "state" /\ Locals(AnyUser, 0, "state") /\ NoZip
    /\ rpc' = [q \in Requests |-> "idle"] /\ ruser' = [q \in Requests |-> AnyUser]
    /\ UNCHANGED <<userVars, tables, written, unfinished>>

-----------------------------------------------------------------------------
(* What users and the janitor do meanwhile. *)

Upload(u) ==
    /\ files[u] < MaxFiles /\ files[u] < InitialFiles[u] + MaxUploads
    /\ files' = [files EXCEPT ![u] = @ + 1]
    /\ UNCHANGED <<username, renames, tables, archive, workerVars, requestVars, faults,
                   historyVars>>

\* PATCH /api/profile: a dump that is resumed after it opens another archive.
ChangeName(u, n) ==
    /\ MayMishap /\ n # username[u]
    /\ renames' = renames + 1
    /\ username' = [username EXCEPT ![u] = n]
    /\ interrupted' = IF InState(u) THEN interrupted \cup {u} ELSE interrupted
    /\ UNCHANGED <<files, tables, archive, workerVars, requestVars, faults, written,
                   unfinished>>

\* dump_janitor: a zip nothing was written to for six hours goes, so never that
\* of the dump under way.  One kept for a retry goes too, with what it holds.
CleanArchive(u, n) ==
    /\ archive[u][n] # {}
    /\ ~(wuser = u /\ ((ZipOpen /\ wname = n) \/ wpc = "open"))
    /\ archive' = [archive EXCEPT ![u][n] = {}]
    /\ interrupted' = IF InState(u) THEN interrupted \cup {u} ELSE interrupted
    /\ UNCHANGED <<userVars, tables, workerVars, requestVars, faults, written, unfinished>>

RequestSteps(q) == CheckQueue(q) \/ InsertQueue(q) \/ StartWorker(q)
DumpSteps == WriteFile \/ UpdateState \/ Dispatch \/ RemoveState
WorkerSteps == \/ FetchState \/ Resume \/ FetchQueue \/ Dequeue \/ InsertState \/ OpenZip
               \/ DumpSteps \/ WorkerStops

Next ==
    \/ \E q \in Requests, u \in Users : CheckState(q, u)
    \/ \E q \in Requests : RequestSteps(q)
    \/ WorkerSteps
    \/ \E u \in Users : Upload(u)
    \/ \E u \in Users, n \in Names : ChangeName(u, n) \/ CleanArchive(u, n)
    \/ DumpFails \/ WorkerFails \/ Crash

Safety == Init /\ [][Next]_vars

\* The event loop runs every task that is ready.  Nothing makes a user ask, or
\* upload, a call fail, or the server crash.
Fairness ==
    /\ \A q \in Requests : WF_vars(RequestSteps(q))
    /\ WF_vars(WorkerSteps)

Spec == Safety /\ Fairness

-----------------------------------------------------------------------------
(* Properties. *)

\* Who waits for a dump: the users in the queue, and the one the worker has
\* taken from it and not yet put in current_dump_state.
Waiting == IF wpc = "insert" THEN <<wuser>> \o queue ELSE queue

Mailed == IF wpc = "remove" THEN {wuser} ELSE {}

Service == INSTANCE DumpService WITH
              asked <- Waiting, begun <- Range(order), wanted <- total, got <- written,
              sent <- Mailed, faults <- faults

\* Whatever crashes, errors, refused mails and resumptions there are, users are
\* dumped in the order they asked; a dump takes the files in order and skips none, is
\* mailed when it has all the user had when it began, is mailed again only after a
\* crash or an error, and leaves current_dump_state only once it is mailed; and a
\* request is lost only to a crash or an error, which costs one at most, or because
\* the user's earlier dump is under way.
DumpsAreServed == Service!Spec

\* A dump is mailed with an archive that lists every file the user had when it
\* began, resumed after refused mails and errors or not: unless a crash or the disk
\* kept the archive from being closed, the janitor took it, or the user changed
\* name before it was mailed, after which no attempt finds it (tasks.py:41), nor
\* does the download (datadump/bp.py:204).
UncutIsComplete ==
    wpc \in {"dispatch", "remove"} /\ wuser \notin interrupted
        => 1 .. total[wuser] \subseteq wzip

\* request_data_dump says that "only one user can be in the dump state at a time"
\* (datadump/bp.py:38).  What the code keeps is weaker: besides the user the
\* worker is at, only those whose mail was refused, whose dump an error ended, or
\* whose archive was cut are in it.
RowsAreAccounted ==
    \A u \in Range(order) :
        \/ u = wuser /\ wpc \in {"open", "write", "update", "dispatch", "remove"}
        \/ u \in unfinished \cup interrupted

\* While a worker runs, a queued user gets their turn unless the worker stops:
\* users whose mail is always refused are retried, but never so that the queue
\* behind them waits for good.
QueueMovesOn ==
    \A u \in Users : (InQueue(u) /\ wpc # "none") ~> (~InQueue(u) \/ wpc = "none")

\* "in the case of an application failure, the system should be able to know
\* where it left off and continue writing to the zip file" (tasks.py:311): the
\* mailed archive lists every file.  The code breaks it: what was written
\* before the crash is not in the directory of the archive that is mailed.
DeliveredIsComplete ==
    wpc = "remove" => 1 .. total[wuser] \subseteq wzip

\* "if no user is in the queue, the function will stop" (tasks.py:396), and a
\* request starts it again: with no worker and no request about to start one,
\* nobody is queued.  The code breaks it: a request that finds the stopping
\* worker still registered starts none.
StoppedIsEmpty ==
    wpc = "none" /\ (\A q \in Requests : rpc[q] # "start") => queue = <<>>
=============================================================================
