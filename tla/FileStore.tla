------------------------------ MODULE FileStore ------------------------------
(***************************************************************************)
(* Uploaded files: the rows of the files table and the blobs of the image  *)
(* folder.  A blob is named by the hash of its content, so that rows of    *)
(* several users share one.  Uploads, deletions, background virus scans    *)
(* and the commands of manage.py are requests that run side by side; each  *)
(* action is what one of them does between two awaits.                     *)
(***************************************************************************)
EXTENDS Naturals

CONSTANTS
    Files,      \* shortnames, each given to one upload
    Paths,      \* the blobs' names on disk
    Users,
    PathOf,     \* [Files -> Paths]: the content of each upload
    OwnerOf,    \* [Files -> Users]
    Infected,   \* the uploads a slow virus scan condemns
    Requests,   \* requests, tasks and commands under way at once
    MaxAborts   \* bound: requests that die half way

ASSUME FilesAssumption ==
    /\ PathOf \in [Files -> Paths] /\ OwnerOf \in [Files -> Users]
    /\ Infected \subseteq Files /\ Files # {}
    /\ MaxAborts \in Nat

VARIABLES
    row,     \* each file's row; "purged" has no uploader and no fspath, and
             \* "blank" is such a row that was undeleted
    disk,    \* the blobs in the image folder
    scans,   \* the files whose background scan is still running
    pc,      \* the await each request stands at
    file,    \* the file it is about
    hard,    \* delete_file(..., set_delete=False)
    todo,    \* the blobs it has made up its mind to unlink
    strayed, \* the requests whose file was renamed: no row has the name they hold
    aborts,
    exposed, \* history: files whose blob somebody may take away (see below)
    leaky    \* history: blobs that nobody will come back for (see below)

tableVars   == <<row, scans>>
requestVars == <<pc, file, hard, todo, strayed>>
historyVars == <<exposed, leaky>>
vars == <<tableVars, disk, requestVars, aborts, historyVars>>

Steps == {"idle", "repeat", "insert", "save", "exif", "mark", "count", "unlink",
          "purge", "scan", "remove", "cleanup", "delete", "undelete"}

TypeOK ==
    /\ row \in [Files -> {"absent", "live", "deleted", "purged", "blank"}]
    /\ disk \subseteq Paths
    /\ scans \subseteq Infected
    /\ pc \in [Requests -> Steps]
    /\ file \in [Requests -> Files]
    /\ hard \in [Requests -> BOOLEAN]
    /\ todo \in [Requests -> SUBSET Paths]
    /\ strayed \subseteq Requests
    /\ aborts \in 0 .. MaxAborts
    /\ exposed \subseteq Files
    /\ leaky \subseteq Paths

AnyFile == CHOOSE f \in Files : TRUE

Init ==
    /\ row = [f \in Files |-> "absent"]
    /\ disk = {} /\ scans = {}
    /\ pc = [q \in Requests |-> "idle"]
    /\ file = [q \in Requests |-> AnyFile]
    /\ hard = [q \in Requests |-> FALSE]
    /\ todo = [q \in Requests |-> {}]
    /\ strayed = {} /\ aborts = 0
    /\ exposed = {} /\ leaky = {}

-----------------------------------------------------------------------------
LiveAt(p) == {f \in Files : row[f] = "live" /\ PathOf[f] = p}
RowsWith(status) == {f \in Files : row[f] = status}
PathsOf(S) == {PathOf[f] : f \in S}

\* What a statement WHERE filename = $1 finds under the name the request holds.
Found(q) == IF q \in strayed THEN "absent" ELSE row[file[q]]

\* Some request will unlink blob p whatever the table says by then.
Condemned(p) == \E q \in Requests : p \in todo[q]

Begin(q, step, f, isHard) ==
    /\ pc[q] = "idle"
    /\ pc' = [pc EXCEPT ![q] = step]
    /\ file' = [file EXCEPT ![q] = f]
    /\ hard' = [hard EXCEPT ![q] = isHard]
    /\ UNCHANGED <<todo, strayed>>

Goto(q, step) ==
    /\ pc' = [pc EXCEPT ![q] = step]
    /\ UNCHANGED <<file, hard, todo, strayed>>

\* The request is over and its locals are gone.
Return(q) ==
    /\ pc' = [pc EXCEPT ![q] = "idle"]
    /\ file' = [file EXCEPT ![q] = AnyFile]
    /\ hard' = [hard EXCEPT ![q] = FALSE]
    /\ todo' = [todo EXCEPT ![q] = {}]
    /\ strayed' = strayed \ {q}

Condemn(q, step, S) ==
    /\ pc' = [pc EXCEPT ![q] = step]
    /\ todo' = [todo EXCEPT ![q] = S]
    /\ UNCHANGED <<file, hard, strayed>>

-----------------------------------------------------------------------------
(* upload_handler *)

\* Mutant: every upload is scanned in the background.
ScanEveryUpload(q, f) ==
    /\ row[f] = "absent" /\ f \notin scans
    /\ \A o \in Requests : file[o] = f => pc[o] \notin {"repeat", "insert"}
    /\ Begin(q, IF PathOf[f] \in disk THEN "repeat" ELSE "insert", f, FALSE)
    /\ scans' = scans \cup {f}
    /\ UNCHANGED <<row, disk, aborts, historyVars>>

\* The name is generated, the checks are made (a scan that takes too long goes
\* on in the background), the content is hashed and looked for on disk.
BeginUpload(q, f) ==
    /\ row[f] = "absent" /\ f \notin scans
    /\ \A o \in Requests : file[o] = f => pc[o] \notin {"repeat", "insert"}
    /\ Begin(q, IF PathOf[f] \in disk THEN "repeat" ELSE "insert", f, FALSE)
    /\ scans' = IF f \in Infected THEN scans \cup {f} ELSE scans
    /\ UNCHANGED <<row, disk, aborts, historyVars>>

\* A live row of this user with this content is returned in place of a new one.
CheckRepeat(q) ==
    LET f == file[q] IN
    /\ pc[q] = "repeat"
    /\ IF \E g \in LiveAt(PathOf[f]) : OwnerOf[g] = OwnerOf[f]
       THEN Return(q)
       ELSE Goto(q, "insert")
    /\ UNCHANGED <<tableVars, disk, aborts, historyVars>>

\* A row that goes live while a request is about to unlink its blob is exposed.
InsertRow(q) ==
    LET f == file[q] IN
    /\ pc[q] = "insert"
    /\ row' = [row EXCEPT ![f] = "live"]
    /\ exposed' = IF Condemned(PathOf[f]) THEN exposed \cup {f} ELSE exposed
    /\ Goto(q, "save")
    /\ UNCHANGED <<scans, disk, aborts, leaky>>

\* The blob of a row that was deleted before it was written stays behind.
Save(q) ==
    LET f == file[q] IN
    /\ pc[q] = "save"
    /\ disk' = disk \cup {PathOf[f]}
    /\ leaky' = IF row[f] = "live" THEN leaky ELSE leaky \cup {PathOf[f]}
    /\ Goto(q, "exif")
    /\ UNCHANGED <<tableVars, aborts, exposed>>

\* The image comes out well, or grows too much and is deleted again.
StripExif(q) ==
    /\ pc[q] = "exif"
    /\ Return(q) \/ Goto(q, "mark")
    /\ UNCHANGED <<tableVars, disk, aborts, historyVars>>

-----------------------------------------------------------------------------
(* delete_file and remove_fspath *)

\* DELETE /api/delete, by a user who names a file.
BeginDelete(q, f) ==
    /\ Begin(q, "mark", f, FALSE)
    /\ UNCHANGED <<tableVars, disk, aborts, historyVars>>

\* DELETE /api/admin/file: the file's name and uploader are those of its row.
AdminDelete(q, f) == row[f] # "absent" /\ BeginDelete(q, f)

\* delete_all, the task that ends an account, manage.py nuke: set_delete is
\* False.  None of them picks a row of the dummy user.
BeginHardDelete(q, f) ==
    /\ row[f] \in {"live", "deleted"}
    /\ Begin(q, "count", f, TRUE)
    /\ UNCHANGED <<tableVars, disk, aborts, historyVars>>

\* UPDATE ... SET deleted = true; of no row, it is a NotFound.  A blank row is
\* the dummy user's, whom only an administrator's deletion names.
MarkDeleted(q) ==
    LET f == file[q] IN
    /\ pc[q] = "mark"
    /\ \/ Found(q) = "live" /\ row' = [row EXCEPT ![f] = "deleted"] /\ Goto(q, "count")
       \/ Found(q) = "blank" /\ row' = [row EXCEPT ![f] = "purged"] /\ Goto(q, "count")
       \/ Found(q) # "live" /\ Return(q) /\ UNCHANGED row
    /\ UNCHANGED <<scans, disk, aborts, historyVars>>

AfterUnlink(q) == IF hard[q] THEN Condemn(q, "purge", {}) ELSE Return(q)

\* Mutant: remove_fspath does not count the rows that share the blob.
CountNothing(q) ==
    /\ pc[q] = "count"
    /\ Condemn(q, "unlink", {PathOf[file[q]]})
    /\ UNCHANGED <<tableVars, disk, aborts, historyVars>>

\* Mutant: deleted rows are counted too, as long as they share the blob.
CountDeleted(q) ==
    LET f == file[q]  p == PathOf[f] IN
    /\ pc[q] = "count"
    /\ IF {g \in Files : row[g] \in {"live", "deleted"} /\ PathOf[g] = p} \subseteq {f}
       THEN Condemn(q, "unlink", {p})
       ELSE AfterUnlink(q)
    /\ UNCHANGED <<tableVars, disk, aborts, historyVars>>

\* The fspath is read and the live rows that share it counted.  Under a name no
\* row has there is nothing to remove.  The fspath of a row purged meanwhile is
\* '': only blank rows share it, and when there is none Path('').unlink() raises.
\* Either way the blob is left.
CountShared(q) ==
    LET p == PathOf[file[q]] IN
    /\ pc[q] = "count"
    /\ \/ Found(q) = "absent" /\ AfterUnlink(q) /\ leaky' = leaky \cup {p}
       \/ /\ Found(q) \in {"purged", "blank"}
          /\ IF RowsWith("blank") = {} THEN Return(q) ELSE AfterUnlink(q)
          /\ leaky' = leaky \cup {p}
       \/ /\ Found(q) \in {"live", "deleted"}
          /\ IF LiveAt(p) = {} THEN Condemn(q, "unlink", {p}) ELSE AfterUnlink(q)
          /\ UNCHANGED leaky
    /\ UNCHANGED <<tableVars, disk, aborts, exposed>>

Unlink(q) ==
    /\ pc[q] = "unlink"
    /\ disk' = disk \ todo[q]
    /\ leaky' = leaky \ todo[q]
    /\ AfterUnlink(q)
    /\ UNCHANGED <<tableVars, aborts, exposed>>

\* The row goes to the dummy user and forgets its path.  A row still live here
\* was counted by its own deletion, so its blob is on disk and stays there.  A
\* deletion that names the uploader finds neither a renamed row nor a blank one.
Purge(q) ==
    LET f == file[q] IN
    /\ pc[q] = "purge"
    /\ \/ Found(q) # "absent" /\ row' = [row EXCEPT ![f] = "purged"]
       \/ Found(q) \in {"absent", "blank"} /\ UNCHANGED row
    /\ leaky' = IF Found(q) = "live" THEN leaky \cup {PathOf[f]} ELSE leaky
    /\ Return(q)
    /\ UNCHANGED <<scans, disk, aborts, exposed>>

\* delete_user marks every file of the user at once and leaves their blobs to
\* the hard deletions of its background task.
MarkAccount(u) ==
    LET mine == {f \in RowsWith("live") : OwnerOf[f] = u} IN
    /\ mine # {}
    /\ row' = [f \in Files |-> IF f \in mine THEN "deleted" ELSE row[f]]
    /\ leaky' = leaky \cup PathsOf(mine)
    /\ UNCHANGED <<scans, disk, requestVars, aborts, exposed>>

-----------------------------------------------------------------------------
(* scan_background, when the scan ends in BadImage *)

ScanCondemns(q, f) ==
    /\ f \in scans
    /\ scans' = scans \ {f}
    /\ Begin(q, "scan", f, TRUE)
    /\ UNCHANGED <<row, disk, aborts, historyVars>>

\* SELECT fspath.  The file may not be in the table yet, or not under that name
\* (os.remove(None) is a TypeError that ends the task), or not any more (os.remove('')
\* fails, and Path('').unlink() raises when no blank row keeps it from being tried).
\* The rows of others that share the blob are not asked for.
ScanSelect(q) ==
    LET f == file[q] IN
    /\ pc[q] = "scan"
    /\ \/ Found(q) = "absent" /\ Return(q) /\ UNCHANGED exposed
       \/ Found(q) \in {"purged", "blank"} /\ Goto(q, "count") /\ UNCHANGED exposed
       \/ /\ Found(q) \in {"live", "deleted"}
          /\ Condemn(q, "remove", {PathOf[f]})
          /\ exposed' = exposed \cup LiveAt(PathOf[f])
    /\ UNCHANGED <<tableVars, disk, aborts, leaky>>

ScanRemove(q) ==
    /\ pc[q] = "remove"
    /\ disk' = disk \ todo[q]
    /\ leaky' = leaky \ todo[q]
    /\ Condemn(q, "count", {})
    /\ UNCHANGED <<tableVars, aborts, exposed>>

-----------------------------------------------------------------------------
(* manage.py *)

\* delete and undelete first look the row up, and refuse the dummy user's.
BeginManage(q, f) ==
    /\ row[f] \in {"live", "deleted"}
    /\ Begin(q, "delete", f, FALSE) \/ Begin(q, "undelete", f, FALSE)
    /\ UNCHANGED <<tableVars, disk, aborts, historyVars>>

\* Then they update whatever has the name by now.  delete: the row is marked and
\* the blob stays.
ManageDelete(q) ==
    LET f == file[q] IN
    /\ pc[q] = "delete"
    /\ row' = CASE Found(q) = "live"  -> [row EXCEPT ![f] = "deleted"]
              [] Found(q) = "blank" -> [row EXCEPT ![f] = "purged"]
              [] OTHER              -> row
    /\ leaky' = IF Found(q) = "live" THEN leaky \cup {PathOf[f]} ELSE leaky
    /\ Return(q)
    /\ UNCHANGED <<scans, disk, aborts, exposed>>

\* undelete: the row is live again, whether or not its blob is still there.  A row
\* purged since it was looked up goes live with an empty path.
ManageUndelete(q) ==
    LET f == file[q] IN
    /\ pc[q] = "undelete"
    /\ row' = CASE Found(q) = "deleted" -> [row EXCEPT ![f] = "live"]
              [] Found(q) = "purged"  -> [row EXCEPT ![f] = "blank"]
              [] OTHER                -> row
    /\ exposed' = IF \/ Found(q) = "purged"
                     \/ Found(q) = "deleted" /\ (Condemned(PathOf[f]) \/ PathOf[f] \notin disk)
                  THEN exposed \cup {f} ELSE exposed
    /\ Return(q)
    /\ UNCHANGED <<scans, disk, aborts, leaky>>

\* An administrator, or manage.py rename, gives the row another name: requests
\* that hold the old one do not find it any more.
Rename(f) ==
    /\ row[f] # "absent"
    /\ strayed' = strayed \cup {q \in Requests : pc[q] # "idle" /\ file[q] = f}
    /\ UNCHANGED <<tableVars, disk, pc, file, hard, todo, aborts, historyVars>>

\* cleanup_files: every fspath of a deleted row, shared with a live one or not.
BeginCleanup(q) ==
    LET S == PathsOf(RowsWith("deleted")) IN
    /\ pc[q] = "idle" /\ S # {}
    /\ Condemn(q, "cleanup", S)
    /\ exposed' = exposed \cup UNION {LiveAt(p) : p \in S}
    /\ UNCHANGED <<tableVars, disk, aborts, leaky>>

\* The empty fspath of a purged row (it may have been undeleted since the list was
\* read) ends the command where it stands in the list.
CleanupOne(q) ==
    /\ pc[q] = "cleanup"
    /\ \/ \E p \in todo[q] :
            /\ disk' = disk \ {p}
            /\ leaky' = leaky \ {p}
            /\ IF todo[q] = {p} THEN Return(q) ELSE Condemn(q, "cleanup", todo[q] \ {p})
       \/ /\ RowsWith("purged") \cup RowsWith("blank") # {}
          /\ Return(q)
          /\ UNCHANGED <<disk, leaky>>
    /\ UNCHANGED <<tableVars, aborts, exposed>>

-----------------------------------------------------------------------------
\* A request dies: its client left, Postgres failed it, the server stopped.
Abort(q) ==
    LET f == file[q] IN
    /\ pc[q] # "idle" /\ aborts < MaxAborts
    /\ aborts' = aborts + 1
    /\ exposed' = IF pc[q] = "save" THEN exposed \cup {f} ELSE exposed
    /\ leaky' = IF pc[q] \in {"count", "unlink", "remove", "cleanup"}
                THEN leaky \cup PathsOf({f}) \cup todo[q] ELSE leaky
    /\ Return(q)
    /\ UNCHANGED <<tableVars, disk>>

UploadSteps(q) == CheckRepeat(q) \/ InsertRow(q) \/ Save(q) \/ StripExif(q)
DeleteSteps(q) == MarkDeleted(q) \/ CountShared(q) \/ Unlink(q) \/ Purge(q)
ScanSteps(q)   == ScanSelect(q) \/ ScanRemove(q)
ManageSteps(q) == ManageDelete(q) \/ ManageUndelete(q) \/ CleanupOne(q)
RequestSteps(q) == UploadSteps(q) \/ DeleteSteps(q) \/ ScanSteps(q) \/ ManageSteps(q)

Next ==
    \/ \E q \in Requests, f \in Files :
          \/ BeginUpload(q, f) \/ BeginDelete(q, f) \/ AdminDelete(q, f)
          \/ BeginHardDelete(q, f) \/ ScanCondemns(q, f) \/ BeginManage(q, f)
    \/ \E q \in Requests : RequestSteps(q) \/ BeginCleanup(q) \/ Abort(q)
    \/ \E f \in Files : Rename(f)
    \/ \E u \in Users : MarkAccount(u)

Safety == Init /\ [][Next]_vars

-----------------------------------------------------------------------------
(* Properties. *)

\* A live file can be served: its row has a path and the blob is on disk, unless
\* its own upload is about to write it, or it was exposed: its row went live
\* between another request's count and unlink, a scan or cleanup_files took a blob
\* it shared without asking, it was undeleted too late (the blob gone, or the path
\* itself), or its upload died.  Deletions alone, however many and of whomever,
\* renamed under way or not, never take a blob a live row needs.
LiveHasBlob ==
    \A f \in (RowsWith("live") \cup RowsWith("blank")) \ exposed :
        \/ row[f] = "live" /\ PathOf[f] \in disk
        \/ \E q \in Requests : pc[q] = "save" /\ file[q] = f

\* A blob no live row refers to is being removed or is accounted for: a live
\* row was purged, a row was marked without its blob or renamed before its blob
\* was counted, a blob was written after the deletion of its row, or a deletion
\* died.  The last of several deletions of one content, in whatever order they
\* overlap, removes it.
BeingRemoved(p) ==
    \E q \in Requests : \/ pc[q] = "count" /\ PathOf[file[q]] = p
                        \/ pc[q] \in {"unlink", "remove"} /\ p \in todo[q]

OrphanHasACause ==
    \A p \in disk \ leaky : LiveAt(p) # {} \/ BeingRemoved(p)
=============================================================================
