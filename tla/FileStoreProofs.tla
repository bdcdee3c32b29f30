-------------------------- MODULE FileStoreProofs --------------------------
(***************************************************************************)
(* For any files, contents, users and number of requests: the types, that  *)
(* a live file keeps its blob unless it was exposed, and that an orphaned  *)
(* blob has a cause.                                                       *)
(***************************************************************************)
EXTENDS FileStore, TLAPS

USE FilesAssumption

\* Why unlinking is safe: whoever has made up their mind to unlink a blob did
\* so when no live row had it, or exposed the rows that did; and a row that
\* goes live after that is exposed.
UnlinkIsSafe == \A q \in Requests : \A p \in todo[q] : LiveAt(p) \subseteq exposed

\* A row without a path goes live by undelete alone, and is exposed then.
BlankIsExposed == RowsWith("blank") \subseteq exposed

LEMMA AnyFileIsFile == AnyFile \in Files
  BY DEF AnyFile

-----------------------------------------------------------------------------
(* The types. *)

LEMMA TypeInit == Init => TypeOK
  BY AnyFileIsFile DEF Init, TypeOK, Steps

\* The request that moves keeps the types of the request variables.
RequestsOK ==
    /\ pc \in [Requests -> Steps]
    /\ file \in [Requests -> Files]
    /\ hard \in [Requests -> BOOLEAN]
    /\ todo \in [Requests -> SUBSET Paths]
    /\ strayed \subseteq Requests

LEMMA RequestMoves ==
  ASSUME TypeOK, NEW q \in Requests, NEW step \in Steps, NEW S \in SUBSET Paths,
         Return(q) \/ Goto(q, step) \/ Condemn(q, step, S)
  PROVE  RequestsOK'
<1>1. RequestsOK /\ "idle" \in Steps
  BY DEF TypeOK, RequestsOK, Steps
<1>2. CASE Return(q)
  BY <1>1, <1>2, AnyFileIsFile DEF RequestsOK, Return
<1>3. CASE Goto(q, step)
  BY <1>1, <1>3 DEF RequestsOK, Goto
<1>4. CASE Condemn(q, step, S)
  BY <1>1, <1>4 DEF RequestsOK, Condemn
<1> QED
  BY <1>2, <1>3, <1>4

LEMMA TypeStep == TypeOK /\ [Next]_vars => TypeOK'
<1> SUFFICES ASSUME TypeOK, [Next]_vars PROVE TypeOK'
  OBVIOUS
<1> USE AnyFileIsFile
    DEF TypeOK, Steps, tableVars, requestVars, historyVars, Begin, Goto, Return, Condemn
<1>1. ASSUME NEW q \in Requests, NEW f \in Files, BeginUpload(q, f) PROVE TypeOK'
  BY <1>1 DEF BeginUpload
<1>2. ASSUME NEW q \in Requests, NEW f \in Files, BeginDelete(q, f) PROVE TypeOK'
  BY <1>2 DEF BeginDelete
<1>3. ASSUME NEW q \in Requests, NEW f \in Files, BeginHardDelete(q, f) PROVE TypeOK'
  BY <1>3 DEF BeginHardDelete
<1>4. ASSUME NEW q \in Requests, NEW f \in Files, ScanCondemns(q, f) PROVE TypeOK'
  BY <1>4 DEF ScanCondemns
<1>5. ASSUME NEW q \in Requests, CheckRepeat(q) PROVE TypeOK'
  <2>1. RequestsOK'
    <3> HIDE DEF Return, Goto
    <3> QED
      BY <1>5, RequestMoves DEF CheckRepeat
  <2> QED
    BY <1>5, <2>1 DEF CheckRepeat, RequestsOK
<1>6. ASSUME NEW q \in Requests, InsertRow(q) PROVE TypeOK'
  BY <1>6 DEF InsertRow
<1>7. ASSUME NEW q \in Requests, Save(q) PROVE TypeOK'
  BY <1>7 DEF Save
<1>8. ASSUME NEW q \in Requests, StripExif(q) PROVE TypeOK'
  <2>1. RequestsOK'
    <3> HIDE DEF Return, Goto
    <3> QED
      BY <1>8, RequestMoves DEF StripExif
  <2> QED
    BY <1>8, <2>1 DEF StripExif, RequestsOK
<1>9. ASSUME NEW q \in Requests, MarkDeleted(q) PROVE TypeOK'
  <2>1. RequestsOK'
    BY <1>9, RequestMoves DEF MarkDeleted, Found
  <2> QED
    BY <1>9, <2>1 DEF MarkDeleted, RequestsOK
<1>10. ASSUME NEW q \in Requests, CountShared(q) PROVE TypeOK'
  <2>1. RequestsOK'
    <3> HIDE DEF Return, Goto, Condemn
    <3>1. PathOf[file[q]] \in Paths
      OBVIOUS
    <3>2. CASE Return(q)
      BY <3>2, RequestMoves
    <3>3. CASE Condemn(q, "unlink", {PathOf[file[q]]})
      BY <3>1, <3>3, RequestMoves
    <3>4. CASE Condemn(q, "purge", {})
      BY <3>4, RequestMoves
    <3> QED
      BY <1>10, <3>2, <3>3, <3>4 DEF CountShared, AfterUnlink, Found
  <2> QED
    BY <1>10, <2>1 DEF CountShared, RequestsOK
<1>11. ASSUME NEW q \in Requests, Unlink(q) PROVE TypeOK'
  BY <1>11 DEF Unlink, AfterUnlink
<1>12. ASSUME NEW q \in Requests, Purge(q) PROVE TypeOK'
  BY <1>12 DEF Purge, Found
<1>13. ASSUME NEW q \in Requests, ScanSelect(q) PROVE TypeOK'
  <2>1. RequestsOK'
    <3> HIDE DEF Return, Goto, Condemn
    <3>1. CASE Return(q)
      BY <3>1, RequestMoves
    <3>2. CASE Condemn(q, "remove", {PathOf[file[q]]})
      BY <3>2, RequestMoves
    <3>3. CASE Goto(q, "count")
      BY <3>3, RequestMoves
    <3> QED
      BY <1>13, <3>1, <3>2, <3>3 DEF ScanSelect
  <2> QED
    BY <1>13, <2>1 DEF ScanSelect, LiveAt, RequestsOK
<1>14. ASSUME NEW q \in Requests, ScanRemove(q) PROVE TypeOK'
  BY <1>14 DEF ScanRemove
<1>15. ASSUME NEW q \in Requests, CleanupOne(q) PROVE TypeOK'
  <2>1. RequestsOK'
    <3> HIDE DEF Return, Condemn
    <3>1. CASE Return(q)
      BY <3>1, RequestMoves
    <3>2. ASSUME NEW p \in todo[q], Condemn(q, "cleanup", todo[q] \ {p}) PROVE RequestsOK'
      <4>1. todo[q] \ {p} \in SUBSET Paths
        OBVIOUS
      <4> QED
        BY <3>2, <4>1, RequestMoves
    <3> QED
      BY <1>15, <3>1, <3>2 DEF CleanupOne
  <2>2. (disk' \subseteq disk /\ leaky' \subseteq leaky) /\ UNCHANGED <<tableVars, aborts, exposed>>
    BY <1>15 DEF CleanupOne
  <2> QED
    BY <2>1, <2>2 DEF RequestsOK
<1>16. ASSUME NEW q \in Requests, BeginCleanup(q) PROVE TypeOK'
  BY <1>16 DEF BeginCleanup, PathsOf, RowsWith, LiveAt
<1>17. ASSUME NEW q \in Requests, Abort(q) PROVE TypeOK'
  BY <1>17 DEF Abort, PathsOf
<1>18. ASSUME NEW q \in Requests, ManageDelete(q) PROVE TypeOK'
  BY <1>18 DEF ManageDelete, Found
<1>19. ASSUME NEW q \in Requests, ManageUndelete(q) PROVE TypeOK'
  BY <1>19 DEF ManageUndelete, Found, Condemned
<1>20. ASSUME NEW u \in Users, MarkAccount(u) PROVE TypeOK'
  BY <1>20 DEF MarkAccount, PathsOf, RowsWith
<1>21. ASSUME NEW q \in Requests, NEW f \in Files, BeginManage(q, f) PROVE TypeOK'
  BY <1>21 DEF BeginManage
<1>22. ASSUME NEW f \in Files, Rename(f) PROVE TypeOK'
  BY <1>22 DEF Rename
<1>23. CASE UNCHANGED vars
  BY <1>23 DEF vars
<1> QED
  BY <1>1, <1>2, <1>3, <1>4, <1>5, <1>6, <1>7, <1>8, <1>9, <1>10, <1>11, <1>12, <1>13,
     <1>14, <1>15, <1>16, <1>17, <1>18, <1>19, <1>20, <1>21, <1>22, <1>23
  DEF Next, AdminDelete, RequestSteps, UploadSteps, DeleteSteps, ScanSteps, ManageSteps

\* Every variable keeps to its type, for any files, users and requests.
THEOREM TypeCorrect == Safety => []TypeOK
<1>1. QED
  BY TypeInit, TypeStep, PTL DEF Safety
-----------------------------------------------------------------------------
(* Live files. *)

LEMMA UnlinkSafeStep == TypeOK /\ UnlinkIsSafe /\ [Next]_vars => UnlinkIsSafe'
<1> SUFFICES ASSUME TypeOK, UnlinkIsSafe, [Next]_vars PROVE UnlinkIsSafe'
  OBVIOUS
<1> USE DEF TypeOK, UnlinkIsSafe, LiveAt, tableVars, requestVars, historyVars,
            Begin, Goto, Return, Condemn
<1>1. ASSUME NEW q \in Requests, NEW f \in Files, BeginUpload(q, f) PROVE UnlinkIsSafe'
  BY <1>1 DEF BeginUpload
<1>2. ASSUME NEW q \in Requests, NEW f \in Files, BeginDelete(q, f) PROVE UnlinkIsSafe'
  BY <1>2 DEF BeginDelete
<1>3. ASSUME NEW q \in Requests, NEW f \in Files, BeginHardDelete(q, f) PROVE UnlinkIsSafe'
  BY <1>3 DEF BeginHardDelete
<1>4. ASSUME NEW q \in Requests, NEW f \in Files, ScanCondemns(q, f) PROVE UnlinkIsSafe'
  BY <1>4 DEF ScanCondemns
<1>5. ASSUME NEW q \in Requests, CheckRepeat(q) PROVE UnlinkIsSafe'
  BY <1>5 DEF CheckRepeat
<1>6. ASSUME NEW q \in Requests, InsertRow(q) PROVE UnlinkIsSafe'
  BY <1>6 DEF InsertRow, Condemned
<1>7. ASSUME NEW q \in Requests, Save(q) PROVE UnlinkIsSafe'
  BY <1>7 DEF Save
<1>8. ASSUME NEW q \in Requests, StripExif(q) PROVE UnlinkIsSafe'
  BY <1>8 DEF StripExif
<1>9. ASSUME NEW q \in Requests, MarkDeleted(q) PROVE UnlinkIsSafe'
  BY <1>9 DEF MarkDeleted, Found
<1>10. ASSUME NEW q \in Requests, CountShared(q) PROVE UnlinkIsSafe'
  BY <1>10 DEF CountShared, AfterUnlink, Found
<1>11. ASSUME NEW q \in Requests, Unlink(q) PROVE UnlinkIsSafe'
  BY <1>11 DEF Unlink, AfterUnlink
<1>12. ASSUME NEW q \in Requests, Purge(q) PROVE UnlinkIsSafe'
  BY <1>12 DEF Purge, Found
<1>13. ASSUME NEW q \in Requests, ScanSelect(q) PROVE UnlinkIsSafe'
  BY <1>13 DEF ScanSelect
<1>14. ASSUME NEW q \in Requests, ScanRemove(q) PROVE UnlinkIsSafe'
  BY <1>14 DEF ScanRemove
<1>15. ASSUME NEW q \in Requests, CleanupOne(q) PROVE UnlinkIsSafe'
  BY <1>15 DEF CleanupOne
<1>16. ASSUME NEW q \in Requests, BeginCleanup(q) PROVE UnlinkIsSafe'
  BY <1>16 DEF BeginCleanup, PathsOf, RowsWith
<1>17. ASSUME NEW q \in Requests, Abort(q) PROVE UnlinkIsSafe'
  BY <1>17 DEF Abort, PathsOf
<1>18. ASSUME NEW q \in Requests, ManageDelete(q) PROVE UnlinkIsSafe'
  BY <1>18 DEF ManageDelete, Found
<1>19. ASSUME NEW q \in Requests, ManageUndelete(q) PROVE UnlinkIsSafe'
  BY <1>19 DEF ManageUndelete, Found, Condemned
<1>20. ASSUME NEW u \in Users, MarkAccount(u) PROVE UnlinkIsSafe'
  BY <1>20 DEF MarkAccount, RowsWith
<1>21. ASSUME NEW q \in Requests, NEW f \in Files, BeginManage(q, f) PROVE UnlinkIsSafe'
  BY <1>21 DEF BeginManage
<1>22. ASSUME NEW f \in Files, Rename(f) PROVE UnlinkIsSafe'
  BY <1>22 DEF Rename
<1>23. CASE UNCHANGED vars
  BY <1>23 DEF vars
<1> QED
  BY <1>1, <1>2, <1>3, <1>4, <1>5, <1>6, <1>7, <1>8, <1>9, <1>10, <1>11, <1>12, <1>13,
     <1>14, <1>15, <1>16, <1>17, <1>18, <1>19, <1>20, <1>21, <1>22, <1>23
  DEF Next, AdminDelete, RequestSteps, UploadSteps, DeleteSteps, ScanSteps, ManageSteps

LEMMA BlankStep == TypeOK /\ BlankIsExposed /\ [Next]_vars => BlankIsExposed'
<1> SUFFICES ASSUME TypeOK, BlankIsExposed, [Next]_vars PROVE BlankIsExposed'
  OBVIOUS
<1>1. exposed \subseteq exposed'
  BY DEF Next, vars, tableVars, requestVars, historyVars, BeginUpload, BeginDelete,
         AdminDelete, BeginHardDelete, ScanCondemns, BeginManage, RequestSteps, UploadSteps,
         DeleteSteps, ScanSteps, ManageSteps, CheckRepeat, InsertRow, Save, StripExif,
         MarkDeleted, CountShared, Unlink, Purge, ScanSelect, ScanRemove, ManageDelete,
         ManageUndelete, CleanupOne, BeginCleanup, Abort, Rename, MarkAccount
<1>2. ASSUME NEW f \in Files, row'[f] = "blank", row[f] # "blank" PROVE f \in exposed'
  <2>1. PICK q \in Requests : ManageUndelete(q)
    BY <1>2 DEF TypeOK, Next, vars, tableVars, requestVars, historyVars, BeginUpload,
         BeginDelete, AdminDelete, BeginHardDelete, ScanCondemns, BeginManage, RequestSteps,
         UploadSteps, DeleteSteps, ScanSteps, ManageSteps, CheckRepeat, InsertRow, Save,
         StripExif, MarkDeleted, CountShared, Unlink, Purge, ScanSelect, ScanRemove,
         ManageDelete, CleanupOne, BeginCleanup, Abort, Rename, MarkAccount
  <2> QED
    BY <1>2, <2>1 DEF TypeOK, ManageUndelete
<1> QED
  BY <1>1, <1>2 DEF BlankIsExposed, RowsWith

LEMMA LiveStep ==
  TypeOK /\ UnlinkIsSafe /\ BlankIsExposed /\ LiveHasBlob /\ [Next]_vars => LiveHasBlob'
<1> SUFFICES ASSUME TypeOK, UnlinkIsSafe, BlankIsExposed, LiveHasBlob, [Next]_vars
             PROVE  LiveHasBlob'
  OBVIOUS
<1> USE DEF TypeOK, LiveHasBlob, RowsWith, tableVars, requestVars, historyVars,
            Begin, Goto, Return, Condemn
<1>1. ASSUME NEW q \in Requests, NEW f \in Files, BeginUpload(q, f) PROVE LiveHasBlob'
  BY <1>1 DEF BeginUpload
<1>2. ASSUME NEW q \in Requests, NEW f \in Files, BeginDelete(q, f) PROVE LiveHasBlob'
  BY <1>2 DEF BeginDelete
<1>3. ASSUME NEW q \in Requests, NEW f \in Files, BeginHardDelete(q, f) PROVE LiveHasBlob'
  BY <1>3 DEF BeginHardDelete
<1>4. ASSUME NEW q \in Requests, NEW f \in Files, ScanCondemns(q, f) PROVE LiveHasBlob'
  BY <1>4 DEF ScanCondemns
<1>5. ASSUME NEW q \in Requests, CheckRepeat(q) PROVE LiveHasBlob'
  BY <1>5 DEF CheckRepeat
<1>6. ASSUME NEW q \in Requests, InsertRow(q) PROVE LiveHasBlob'
  BY <1>6 DEF InsertRow, Condemned
<1>7. ASSUME NEW q \in Requests, Save(q) PROVE LiveHasBlob'
  <2> SUFFICES ASSUME NEW f \in Files, row[f] \in {"live", "blank"}, f \notin exposed
               PROVE  \/ row[f] = "live" /\ PathOf[f] \in disk'
                      \/ \E o \in Requests : pc'[o] = "save" /\ file'[o] = f
    BY <1>7 DEF Save
  <2>1. row[f] = "live"
    BY DEF BlankIsExposed
  <2>2. CASE f = file[q]
    BY <1>7, <2>2, <2>1 DEF Save
  <2>3. CASE PathOf[f] \in disk
    BY <1>7, <2>3, <2>1 DEF Save
  <2>4. ASSUME NEW o \in Requests, o # q, pc[o] = "save", file[o] = f
        PROVE  pc'[o] = "save" /\ file'[o] = f
    BY <1>7, <2>4 DEF Save
  <2> QED
    BY <2>2, <2>3, <2>4
<1>8. ASSUME NEW q \in Requests, StripExif(q) PROVE LiveHasBlob'
  BY <1>8 DEF StripExif
<1>9. ASSUME NEW q \in Requests, MarkDeleted(q) PROVE LiveHasBlob'
  BY <1>9 DEF MarkDeleted, Found
<1>10. ASSUME NEW q \in Requests, CountShared(q) PROVE LiveHasBlob'
  BY <1>10 DEF CountShared, AfterUnlink, Found
<1>11. ASSUME NEW q \in Requests, Unlink(q) PROVE LiveHasBlob'
  BY <1>11 DEF Unlink, AfterUnlink, UnlinkIsSafe, LiveAt
<1>12. ASSUME NEW q \in Requests, Purge(q) PROVE LiveHasBlob'
  BY <1>12 DEF Purge, Found
<1>13. ASSUME NEW q \in Requests, ScanSelect(q) PROVE LiveHasBlob'
  BY <1>13 DEF ScanSelect
<1>14. ASSUME NEW q \in Requests, ScanRemove(q) PROVE LiveHasBlob'
  BY <1>14 DEF ScanRemove, UnlinkIsSafe, LiveAt
<1>15. ASSUME NEW q \in Requests, CleanupOne(q) PROVE LiveHasBlob'
  BY <1>15 DEF CleanupOne, UnlinkIsSafe, LiveAt
<1>16. ASSUME NEW q \in Requests, BeginCleanup(q) PROVE LiveHasBlob'
  BY <1>16 DEF BeginCleanup, PathsOf, RowsWith
<1>17. ASSUME NEW q \in Requests, Abort(q) PROVE LiveHasBlob'
  BY <1>17 DEF Abort, PathsOf
<1>18. ASSUME NEW q \in Requests, ManageDelete(q) PROVE LiveHasBlob'
  BY <1>18 DEF ManageDelete, Found
<1>19. ASSUME NEW q \in Requests, ManageUndelete(q) PROVE LiveHasBlob'
  BY <1>19 DEF ManageUndelete, Found, Condemned
<1>20. ASSUME NEW u \in Users, MarkAccount(u) PROVE LiveHasBlob'
  BY <1>20 DEF MarkAccount, RowsWith
<1>21. ASSUME NEW q \in Requests, NEW f \in Files, BeginManage(q, f) PROVE LiveHasBlob'
  BY <1>21 DEF BeginManage
<1>22. ASSUME NEW f \in Files, Rename(f) PROVE LiveHasBlob'
  BY <1>22 DEF Rename
<1>23. CASE UNCHANGED vars
  BY <1>23 DEF vars
<1> QED
  BY <1>1, <1>2, <1>3, <1>4, <1>5, <1>6, <1>7, <1>8, <1>9, <1>10, <1>11, <1>12, <1>13,
     <1>14, <1>15, <1>16, <1>17, <1>18, <1>19, <1>20, <1>21, <1>22, <1>23
  DEF Next, AdminDelete, RequestSteps, UploadSteps, DeleteSteps, ScanSteps, ManageSteps

\* In every behaviour a live file that was not exposed has its blob, or its
\* upload is about to write it: no deletion of any other file takes it away.
THEOREM LiveKeepsBlob == Safety => []LiveHasBlob
<1>1. Init => UnlinkIsSafe /\ BlankIsExposed /\ LiveHasBlob
  BY DEF Init, UnlinkIsSafe, BlankIsExposed, LiveHasBlob, RowsWith
<1> QED
  BY <1>1, UnlinkSafeStep, BlankStep, LiveStep, TypeCorrect, PTL DEF Safety

-----------------------------------------------------------------------------
(* Orphaned blobs. *)

LEMMA OrphanStep == TypeOK /\ OrphanHasACause /\ [Next]_vars => OrphanHasACause'
<1> SUFFICES ASSUME TypeOK, OrphanHasACause, [Next]_vars PROVE OrphanHasACause'
  OBVIOUS
<1> USE DEF TypeOK, OrphanHasACause, LiveAt, BeingRemoved, tableVars, requestVars, historyVars,
            Begin, Goto, Return, Condemn
<1>1. ASSUME NEW q \in Requests, NEW f \in Files, BeginUpload(q, f) PROVE OrphanHasACause'
  BY <1>1 DEF BeginUpload
<1>2. ASSUME NEW q \in Requests, NEW f \in Files, BeginDelete(q, f) PROVE OrphanHasACause'
  BY <1>2 DEF BeginDelete
<1>3. ASSUME NEW q \in Requests, NEW f \in Files, BeginHardDelete(q, f) PROVE OrphanHasACause'
  BY <1>3 DEF BeginHardDelete
<1>4. ASSUME NEW q \in Requests, NEW f \in Files, ScanCondemns(q, f) PROVE OrphanHasACause'
  BY <1>4 DEF ScanCondemns
<1>5. ASSUME NEW q \in Requests, CheckRepeat(q) PROVE OrphanHasACause'
  BY <1>5 DEF CheckRepeat
<1>6. ASSUME NEW q \in Requests, InsertRow(q) PROVE OrphanHasACause'
  BY <1>6 DEF InsertRow, Condemned
<1>7. ASSUME NEW q \in Requests, Save(q) PROVE OrphanHasACause'
  BY <1>7 DEF Save
<1>8. ASSUME NEW q \in Requests, StripExif(q) PROVE OrphanHasACause'
  BY <1>8 DEF StripExif
<1>9. ASSUME NEW q \in Requests, MarkDeleted(q) PROVE OrphanHasACause'
  BY <1>9 DEF MarkDeleted, Found
<1>10. ASSUME NEW q \in Requests, CountShared(q) PROVE OrphanHasACause'
  BY <1>10 DEF CountShared, AfterUnlink, Found
<1>11. ASSUME NEW q \in Requests, Unlink(q) PROVE OrphanHasACause'
  BY <1>11 DEF Unlink, AfterUnlink
<1>12. ASSUME NEW q \in Requests, Purge(q) PROVE OrphanHasACause'
  BY <1>12 DEF Purge, Found
<1>13. ASSUME NEW q \in Requests, ScanSelect(q) PROVE OrphanHasACause'
  BY <1>13 DEF ScanSelect
<1>14. ASSUME NEW q \in Requests, ScanRemove(q) PROVE OrphanHasACause'
  BY <1>14 DEF ScanRemove
<1>15. ASSUME NEW q \in Requests, CleanupOne(q) PROVE OrphanHasACause'
  BY <1>15 DEF CleanupOne
<1>16. ASSUME NEW q \in Requests, BeginCleanup(q) PROVE OrphanHasACause'
  BY <1>16 DEF BeginCleanup, PathsOf, RowsWith
<1>17. ASSUME NEW q \in Requests, Abort(q) PROVE OrphanHasACause'
  BY <1>17 DEF Abort, PathsOf
<1>18. ASSUME NEW q \in Requests, ManageDelete(q) PROVE OrphanHasACause'
  BY <1>18 DEF ManageDelete, Found
<1>19. ASSUME NEW q \in Requests, ManageUndelete(q) PROVE OrphanHasACause'
  BY <1>19 DEF ManageUndelete, Found, Condemned
<1>20. ASSUME NEW u \in Users, MarkAccount(u) PROVE OrphanHasACause'
  <2> DEFINE mine == {f \in RowsWith("live") : OwnerOf[f] = u}
  <2>1. /\ row' = [f \in Files |-> IF f \in mine THEN "deleted" ELSE row[f]]
        /\ leaky' = leaky \cup PathsOf(mine) /\ UNCHANGED <<disk, pc, file, todo>>
    BY <1>20 DEF MarkAccount
  <2>2. ASSUME NEW p \in disk \ leaky', LiveAt(p) # {} PROVE LiveAt(p)' # {}
    BY <2>1, <2>2 DEF LiveAt, RowsWith, PathsOf
  <2> QED
    BY <2>1, <2>2
<1>21. ASSUME NEW q \in Requests, NEW f \in Files, BeginManage(q, f) PROVE OrphanHasACause'
  BY <1>21 DEF BeginManage
<1>22. ASSUME NEW f \in Files, Rename(f) PROVE OrphanHasACause'
  BY <1>22 DEF Rename
<1>23. CASE UNCHANGED vars
  BY <1>23 DEF vars
<1> QED
  BY <1>1, <1>2, <1>3, <1>4, <1>5, <1>6, <1>7, <1>8, <1>9, <1>10, <1>11, <1>12, <1>13,
     <1>14, <1>15, <1>16, <1>17, <1>18, <1>19, <1>20, <1>21, <1>22, <1>23
  DEF Next, AdminDelete, RequestSteps, UploadSteps, DeleteSteps, ScanSteps, ManageSteps

\* In every behaviour a blob without a live row is being removed, or was left
\* behind for one of the named causes.
THEOREM OrphanCaused == Safety => []OrphanHasACause
<1>1. Init => OrphanHasACause
  BY DEF Init, OrphanHasACause
<1> QED
  BY <1>1, OrphanStep, TypeCorrect, PTL DEF Safety

-----------------------------------------------------------------------------
(* The table and the folder at rest. *)

\* When no request is under way the image folder holds the blobs of the live
\* files and no others, but for the files that were exposed and the blobs that
\* leaked: what overlapped while it lasted leaves no other trace.
RestIsConsistent ==
    (\A q \in Requests : pc[q] = "idle") =>
        /\ PathsOf(RowsWith("live") \ exposed) \subseteq disk
        /\ disk \ leaky \subseteq PathsOf(RowsWith("live"))

\* Uploads that share a blob and deletions of it, however they overlapped, have
\* kept the table and the folder in step once they are done
\* (common/common.py:157-247, upload/bp.py:165-246).
THEOREM RestingStoreIsConsistent == Safety => []RestIsConsistent
<1>1. LiveHasBlob /\ OrphanHasACause => RestIsConsistent
  BY DEF LiveHasBlob, OrphanHasACause, RestIsConsistent, LiveAt, BeingRemoved, PathsOf, RowsWith
<1> QED
  BY <1>1, LiveKeepsBlob, OrphanCaused, PTL
=============================================================================
