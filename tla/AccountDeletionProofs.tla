------------------------ MODULE AccountDeletionProofs ------------------------
(***************************************************************************)
(* What becomes of the users that were marked for deletion and of their    *)
(* files, for any users, files and number of requests.  The steps of the   *)
(* system are first summed up by what they do to a user's fate, to who has *)
(* the deletion in hand, and to the files; the invariants follow from that *)
(* summary alone.  With them every step is one of AccountLife.             *)
(***************************************************************************)
EXTENDS AccountsProofs

USE AccountsAssumption

-----------------------------------------------------------------------------
(* Who has the deletion of a user in hand. *)

MarkSteps == {"mark", "files", "shortens", "spawn"}
MarkedFor(u) == \E q \in Requests : Marking(q) /\ req[q].who = u
JobFor(u) == \E j \in Manager!Jobs : task[j] # "none" /\ deletes[j] /\ j[2] = u
InHands(u) == MarkedFor(u) \/ JobFor(u)
Hiding(u) == \E q \in Requests : At(q, "files") /\ req[q].who = u

LEMMA HandsAre == \A u : u \in InHand(Requests, Manager!Jobs) <=> InHands(u)
  BY DEF InHand, InHands, MarkedFor, JobFor

LEMMA HandsWillBe == \A u : (u \in InHand(Requests, Manager!Jobs) <=> InHands(u))'
  BY DEF InHand, InHands, MarkedFor, JobFor, Marking

-----------------------------------------------------------------------------
(* What a step does. *)

\* To a user's fate: nothing, or the deletion is given up; or the user is
\* registered, activated, deactivated, marked or deleted.
FateOf(u) ==
    \/ /\ status'[u] = status[u] /\ (u \in doomed' <=> u \in doomed)
       /\ u \in excused => u \in excused'
    \/ status[u] = "none" /\ status'[u] = "active" /\ (u \in doomed' <=> u \in doomed)
    \/ /\ u \notin doomed' /\ (u \in doomed => u \in revived')
       /\ status'[u] \in {status[u], "active"}
    \/ /\ status[u] \in {"active", "inactive"} /\ status'[u] = "inactive"
       /\ u \in doomed' <=> u \in doomed
       /\ u \in excused => u \in excused'
    \/ /\ \E q \in Requests : req[q].at = "mark" /\ req[q].who = u
       /\ status'[u] = IF Exists(u) THEN "inactive" ELSE status[u]
       /\ u \in doomed' /\ Hiding(u)'
    \/ JobFor(u) /\ status'[u] = "gone" /\ (u \in doomed' <=> u \in doomed)

Fates == (\A u \in Users : FateOf(u)) /\ revived \subseteq revived'

\* To the hands it is in.
HandStep ==
    \A u \in Users :
      /\ InHands(u)' /\ ~ InHands(u) => u \in doomed'
      /\ InHands(u) /\ ~ InHands(u)' => u \in excused' \/ status'[u] # "inactive"

\* A request comes to the mark only by the SELECT of an active user.
MarkStep ==
    \A q \in Requests : req'[q].at = "mark" =>
      \/ req[q].at = "mark" /\ req'[q].who = req[q].who
      \/ status[req'[q].who] = "active"

\* To the files: they are given to a user once, and to the dummy for good; what is
\* known of one that stays with its user is not forgotten.
FileStep ==
    \A f \in Files :
      \/ /\ uploader'[f] = uploader[f]
         /\ f \in late => f \in late'
         /\ f \in hidden \cup late \cup shown => f \in hidden' \cup late' \cup shown'
      \/ uploader'[f] = Dummy
      \/ status[uploader'[f]] = "active" \/ f \in late'

TodoStep ==
    \A j \in Manager!Jobs : task'[j] = "purge" /\ deletes'[j] =>
      \/ \A f \in Files : uploader'[f] = j[2] => f \in todo'[j]
      \/ /\ task[j] = "purge" /\ deletes[j] /\ strayed[j] \subseteq strayed'[j]
         /\ \A f \in todo[j] \ todo'[j] : uploader'[f] # j[2] \/ f \in strayed[j]

HideStep ==
    \A u \in Users : Hiding(u) /\ ~ Hiding(u)' =>
      u \in excused' \/ \A f \in Files : uploader'[f] = u => f \in hidden'

DeletionStep == Fates /\ HandStep /\ MarkStep /\ FileStep /\ TodoStep /\ HideStep

\* Requests that are not about to mark a user, and will not be.
Calm ==
    \A q \in Requests :
      req'[q] = req[q] \/ (req[q].at \notin MarkSteps /\ req'[q].at \notin MarkSteps)

LEMMA CalmRequests ==
  ASSUME Calm
  PROVE  /\ \A u : (MarkedFor(u)' <=> MarkedFor(u)) /\ (Hiding(u)' <=> Hiding(u))
         /\ MarkStep
  BY DEF Calm, MarkSteps, MarkedFor, Marking, Hiding, At, MarkStep

\* Steps that leave the jobs alone.
LEMMA SameJobs ==
  ASSUME TypeOK, UNCHANGED <<task, deletes>>,
         \A j \in Manager!Jobs :
           task[j] # "none" => todo'[j] = todo[j] /\ strayed[j] \subseteq strayed'[j]
  PROVE  TodoStep /\ \A u : JobFor(u)' <=> JobFor(u)
  BY DEF TodoStep, JobFor

LEMMA SameFiles ==
  ASSUME UNCHANGED <<uploader, hidden, late, shown>>
  PROVE  FileStep
  BY DEF FileStep

LEMMA SameFates ==
  ASSUME UNCHANGED <<status, doomed, revived>>, excused \subseteq excused'
  PROVE  Fates
  BY DEF Fates, FateOf

\* Calm requests and the same jobs: nothing is in other hands.
LEMMA SameHands ==
  ASSUME Calm, \A u : JobFor(u)' <=> JobFor(u)
  PROVE  HandStep /\ HideStep /\ MarkStep
  BY CalmRequests DEF HandStep, HideStep, InHands

LEMMA CalmSteps ==
  ASSUME TypeOK, Calm, UNCHANGED <<status, uploader, hidden, task, deletes, fate>>,
         \A j \in Manager!Jobs :
           task[j] # "none" => todo'[j] = todo[j] /\ strayed[j] \subseteq strayed'[j]
  PROVE  DeletionStep
<1>1. UNCHANGED <<doomed, excused, revived, late, shown>>
  BY DEF fate
<1>2. TodoStep /\ \A u : JobFor(u)' <=> JobFor(u)
  BY SameJobs
<1>3. HandStep /\ HideStep /\ MarkStep
  BY <1>2, SameHands
<1>4. FileStep
  BY <1>1, SameFiles
<1>5. Fates
  BY <1>1, SameFates
<1> QED
  BY <1>2, <1>3, <1>4, <1>5 DEF DeletionStep

LEMMA CalmOne ==
  ASSUME NEW q \in Requests, Others(q), req[q].at \notin MarkSteps, req'[q].at \notin MarkSteps
  PROVE  Calm
  BY DEF Calm, Others

-----------------------------------------------------------------------------
(* The steps of requests that are under way. *)

LEMMA QuietRequests ==
  ASSUME TypeOK, NEW q \in Requests,
         \/ InsertLimits(q) \/ CountTokens(q) \/ InsertToken(q) \/ InsertShorten(q)
         \/ CleanToken(q) \/ Rehash(q) \/ WaitDone(q)
         \/ \E p \in Passwords : ResetPassword(q, p) \/ ChangePassword(q, p)
  PROVE  DeletionStep
<1> USE DEF tables, jobVars
<1>1. ASSUME req[q].at \notin MarkSteps, Return(q) \/ Goto(q, "insert") \/ Goto(q, "clean")
      PROVE  Calm
  BY <1>1, Returning, Going, CalmOne DEF MarkSteps, Steps
<1>2. CASE WaitDone(q)
  <2> DEFINE j == <<req[q].home, req[q].who>>
  <2>1. /\ req[q].at = "wait" /\ task[j] = "none" /\ Return(q)
        /\ UNCHANGED <<status, uploader, hidden, task, deletes, fate>>
        /\ todo' = [todo EXCEPT ![j] = {}] /\ strayed' = [strayed EXCEPT ![j] = {}]
    BY <1>2 DEF WaitDone, At
  <2>2. \A i \in Manager!Jobs :
          task[i] # "none" => todo'[i] = todo[i] /\ strayed'[i] = strayed[i]
    BY <2>1 DEF TypeOK
  <2>3. Calm
    BY <1>1, <2>1 DEF MarkSteps
  <2> QED
    BY <2>1, <2>2, <2>3, CalmSteps
<1>3. CASE InsertLimits(q) \/ CountTokens(q) \/ InsertToken(q) \/ InsertShorten(q)
           \/ CleanToken(q) \/ Rehash(q)
  <2>1. /\ req[q].at \in {"limits", "count", "insert", "shorten", "clean", "rehash"}
        /\ Return(q) \/ Goto(q, "insert")
        /\ UNCHANGED <<status, uploader, hidden, task, deletes, todo, strayed, fate>>
    BY <1>3 DEF InsertLimits, CountTokens, InsertToken, InsertShorten, CleanToken, Rehash, At
  <2>2. Calm
    BY <1>1, <2>1 DEF MarkSteps
  <2> QED
    BY <2>1, <2>2, CalmSteps
<1>4. ASSUME NEW p \in Passwords, ResetPassword(q, p) \/ ChangePassword(q, p)
      PROVE  DeletionStep
  <2>1. /\ req[q].at \in {"reset", "choose"}
        /\ Return(q) \/ Goto(q, "clean")
        /\ UNCHANGED <<status, uploader, hidden, task, deletes, todo, strayed, fate>>
    BY <1>4 DEF ResetPassword, ChangePassword, ChoosePassword, At
  <2>2. Calm
    BY <1>1, <2>1 DEF MarkSteps
  <2> QED
    BY <2>1, <2>2, CalmSteps
<1> QED
  BY <1>2, <1>3, <1>4

LEMMA InsertFileSteps ==
  ASSUME TypeOK, NEW q \in Requests, NEW f \in Files, InsertFile(q, f)
  PROVE  DeletionStep
<1> DEFINE u == req[q].who
<1>1. /\ req[q].at = "upload" /\ Return(q)
      /\ uploader' = IF Exists(u) THEN [uploader EXCEPT ![f] = u] ELSE uploader
      /\ late' = IF status[u] = "inactive" THEN late \cup {f} ELSE late
      /\ UNCHANGED <<status, hidden, task, deletes, todo, strayed, doomed, excused, revived,
                     shown>>
  BY DEF InsertFile, At, jobVars
<1>2. Calm
  BY <1>1, Returning, CalmOne DEF MarkSteps
<1>3. TodoStep /\ \A w : JobFor(w)' <=> JobFor(w)
  BY <1>1, SameJobs
<1>4. HandStep /\ HideStep /\ MarkStep
  BY <1>2, <1>3, SameHands
<1>5. Fates
  BY <1>1, SameFates
<1>6. FileStep
  BY <1>1 DEF FileStep, Exists, TypeOK
<1> QED
  BY <1>3, <1>4, <1>5, <1>6 DEF DeletionStep

\* SetActive, by an administrator or with a token.
LEMMA ActivationSteps ==
  ASSUME TypeOK, Calm, NEW u \in Users, SetActive(u), UNCHANGED jobVars
  PROVE  DeletionStep
<1>1. /\ status' = IF Exists(u) THEN [status EXCEPT ![u] = "active"] ELSE status
      /\ revived' = revived \cup ({u} \cap doomed) /\ doomed' = doomed \ {u}
      /\ UNCHANGED <<uploader, hidden, excused, late, shown, task, deletes, todo, strayed>>
  BY DEF SetActive, jobVars
<1>2. TodoStep /\ \A w : JobFor(w)' <=> JobFor(w)
  BY <1>1, SameJobs
<1>3. HandStep /\ HideStep /\ MarkStep
  BY <1>2, SameHands
<1>4. FileStep
  BY <1>1, SameFiles
<1>5. Fates
  BY <1>1 DEF Fates, FateOf, TypeOK
<1> QED
  BY <1>2, <1>3, <1>4, <1>5 DEF DeletionStep

LEMMA SelectSteps ==
  ASSUME TypeOK, NEW q \in Requests, SelectActive(q)
  PROVE  DeletionStep
<1>1. /\ req[q].at = "select"
      /\ UNCHANGED <<status, uploader, hidden, task, deletes, todo, strayed, fate>>
      /\ \/ status[req[q].who] = "active" /\ Goto(q, "mark")
         \/ Finish(q)
  BY DEF SelectActive, At, tables, jobVars
<1>2. CASE Finish(q)
  <2>1. Calm
    BY <1>1, <1>2, Finishing, CalmOne DEF MarkSteps
  <2> QED
    BY <1>1, <2>1, CalmSteps
<1>3. CASE status[req[q].who] = "active" /\ Goto(q, "mark")
  <2>1. Others(q) /\ req'[q].at = "mark" /\ req'[q].who = req[q].who
    BY <1>3, Going DEF Steps
  <2>2. MarkStep
    BY <1>3, <2>1 DEF MarkStep, Others
  <2>3. \A u : (MarkedFor(u)' <=> MarkedFor(u)) /\ (Hiding(u)' <=> Hiding(u))
    BY <1>1, <2>1 DEF MarkedFor, Marking, Hiding, At, Others
  <2>4. TodoStep /\ \A u : JobFor(u)' <=> JobFor(u)
    BY <1>1, SameJobs
  <2>5. HandStep /\ HideStep
    BY <2>3, <2>4 DEF HandStep, HideStep, InHands
  <2>6. Fates /\ FileStep
    BY <1>1, SameFates, SameFiles DEF fate
  <2> QED
    BY <2>2, <2>4, <2>5, <2>6 DEF DeletionStep
<1> QED
  BY <1>1, <1>2, <1>3

LEMMA MarkingSteps ==
  ASSUME TypeOK, NEW q \in Requests, MarkInactive(q)
  PROVE  DeletionStep
<1>0. PICK u \in Users : u = req[q].who
  BY DEF TypeOK, Locals
<1>1. /\ req[q].at = "mark" /\ Goto(q, "files")
      /\ status' = IF Exists(u) THEN [status EXCEPT ![u] = "inactive"] ELSE status
      /\ doomed' = doomed \cup {u} /\ excused' = excused \ {u}
      /\ UNCHANGED <<uploader, hidden, late, shown, revived, task, deletes, todo, strayed>>
  BY <1>0 DEF MarkInactive, At, jobVars
<1>2. Others(q) /\ req'[q].at = "files" /\ req'[q].who = u
  BY <1>0, <1>1, Going DEF Steps
<1>3. TodoStep /\ \A w : JobFor(w)' <=> JobFor(w)
  BY <1>1, SameJobs
<1>4. MarkStep
  BY <1>2 DEF MarkStep, Others
<1>5. /\ \A w : w # u => (MarkedFor(w)' <=> MarkedFor(w)) /\ (Hiding(w)' <=> Hiding(w))
      /\ MarkedFor(u)' /\ Hiding(u)'
  BY <1>0, <1>1, <1>2 DEF MarkedFor, Marking, Hiding, At, Others
<1>6. HandStep /\ HideStep
  BY <1>1, <1>3, <1>5 DEF HandStep, HideStep, InHands
<1>7. FileStep
  BY <1>1, SameFiles
<1>8. Fates
  <2>1. ASSUME NEW w \in Users, w # u PROVE FateOf(w)
    BY <1>1, <2>1 DEF FateOf, TypeOK
  <2>2. status'[u] = IF Exists(u) THEN "inactive" ELSE status[u]
    BY <1>0, <1>1 DEF TypeOK
  <2>3. FateOf(u)
    BY <1>0, <1>1, <1>5, <2>2 DEF FateOf
  <2> QED
    BY <1>1, <2>1, <2>3 DEF Fates
<1> QED
  BY <1>3, <1>4, <1>6, <1>7, <1>8 DEF DeletionStep

LEMMA HidingSteps ==
  ASSUME TypeOK, NEW q \in Requests, HideFiles(q) \/ HideShortens(q)
  PROVE  DeletionStep
<1>0. PICK u \in Users : u = req[q].who
  BY DEF TypeOK, Locals
<1>1. PICK step \in {"shortens", "spawn"} :
        /\ Goto(q, step) /\ Marking(q) /\ req[q].at # "mark"
        /\ UNCHANGED <<status, uploader, task, deletes, todo, strayed, doomed, excused, revived,
                       late>>
        /\ hidden \subseteq hidden' /\ shown \subseteq shown' \cup hidden'
        /\ req[q].at = "files" => hidden' = hidden \cup FilesOf(u)
  BY <1>0 DEF HideFiles, HideShortens, At, jobVars, tables, fate, Marking
<1>2. Others(q) /\ req'[q].at = step /\ req'[q].who = u
  BY <1>0, <1>1, Going DEF Steps
<1>3. TodoStep /\ \A w : JobFor(w)' <=> JobFor(w)
  BY <1>1, SameJobs
<1>4. MarkStep
  BY <1>2 DEF MarkStep, Others
<1>5. /\ \A w : MarkedFor(w)' <=> MarkedFor(w)
      /\ \A w : w # u => (Hiding(w)' <=> Hiding(w))
      /\ Hiding(u) /\ ~ Hiding(u)' => req[q].at = "files"
  BY <1>0, <1>1, <1>2 DEF MarkedFor, Marking, Hiding, At, Others
<1>6. HandStep
  BY <1>3, <1>5 DEF HandStep, InHands
<1>7. HideStep
  BY <1>1, <1>5 DEF HideStep, FilesOf
<1>8. FileStep
  BY <1>1 DEF FileStep
<1>9. Fates
  BY <1>1, SameFates
<1> QED
  BY <1>3, <1>4, <1>6, <1>7, <1>8, <1>9 DEF DeletionStep

\* A job that is started under a name that was free.
LEMMA StartedJob ==
  ASSUME TypeOK, JobsAreKnown, NEW p \in Processes, NEW u \in Users, NEW b \in BOOLEAN,
         ~ Manager!Exists(p, u), StartJob(<<p, u>>, b)
  PROVE  /\ TodoStep
         /\ \A w : JobFor(w)' <=> (JobFor(w) \/ (b /\ w = u))
<1>1. PICK j \in Manager!Jobs : j = <<p, u>> /\ j[2] = u /\ StartJob(j, b)
  BY JobNames
<1>2. task[j] = "none"
  BY <1>1 DEF Manager!Exists, JobsAreKnown, TypeOK
<1>3. /\ task' = [task EXCEPT ![j] = "list"] /\ deletes' = [deletes EXCEPT ![j] = b]
      /\ UNCHANGED <<todo, strayed>>
  BY <1>1 DEF StartJob
<1>4. /\ task'[j] = "list" /\ deletes'[j] = b
      /\ \A i \in Manager!Jobs : i # j => task'[i] = task[i] /\ deletes'[i] = deletes[i]
  BY <1>3 DEF TypeOK
<1>5. TodoStep
  BY <1>3, <1>4 DEF TodoStep
<1>6. \A w : JobFor(w)' <=> (JobFor(w) \/ (b /\ w = u))
  BY <1>1, <1>2, <1>4 DEF JobFor
<1> QED
  BY <1>5, <1>6

LEMMA SpawnSteps ==
  ASSUME TypeOK, JobsAreKnown, NEW q \in Requests, SpawnJob(q)
  PROVE  DeletionStep
<1>0. PICK u \in Users, p \in Processes : u = req[q].who /\ p = req[q].home
  BY DEF TypeOK, Locals
<1>1. PICK j \in Manager!Jobs : j = <<p, u>> /\ j[1] = p /\ j[2] = u
  BY JobNames
<1>2. /\ req[q].at = "spawn"
      /\ UNCHANGED <<status, uploader, hidden, doomed, revived, late, shown>>
      /\ \/ NameTaken(q, j)
         \/ /\ ~ Manager!Exists(p, u) /\ StartJob(<<p, u>>, TRUE) /\ UNCHANGED excused
            /\ Goto(q, "wait") \/ Finish(q)
  BY <1>0, <1>1 DEF SpawnJob, At, tables
<1>3. /\ Others(q) /\ req'[q].at \notin MarkSteps
      /\ excused \subseteq excused'
  <2>1. CASE NameTaken(q, j)
    BY <2>1, Returning DEF NameTaken, MarkSteps
  <2>2. CASE UNCHANGED excused /\ (Goto(q, "wait") \/ Finish(q))
    BY <2>2, Going, Finishing DEF MarkSteps, Steps
  <2> QED
    BY <1>2, <2>1, <2>2
<1>4. /\ MarkStep
      /\ \A w : Hiding(w)' <=> Hiding(w)
      /\ \A w : MarkedFor(w)' => MarkedFor(w)
      /\ \A w : w # u => (MarkedFor(w)' <=> MarkedFor(w))
  BY <1>0, <1>2, <1>3 DEF MarkStep, MarkSteps, Hiding, MarkedFor, Marking, At, Others
<1>5. Fates /\ FileStep
  BY <1>2, <1>3, SameFates, SameFiles
<1>6. HideStep
  BY <1>4 DEF HideStep
<1>7. TodoStep /\ HandStep
  <2>1. CASE NameTaken(q, j)
    <3>1. UNCHANGED <<task, deletes, todo, strayed>> /\ (deletes[j] \/ u \in excused') /\ j \in jobs
      BY <1>1, <2>1 DEF NameTaken, jobVars, Manager!Exists
    <3>2. task[j] # "none"
      BY <3>1 DEF JobsAreKnown
    <3>3. TodoStep /\ \A w : JobFor(w)' <=> JobFor(w)
      BY <3>1, SameJobs
    <3>4. JobFor(u)' \/ u \in excused'
      BY <1>1, <3>1, <3>2 DEF JobFor
    <3> QED
      BY <1>4, <3>3, <3>4 DEF HandStep, InHands
  <2>2. CASE ~ Manager!Exists(p, u) /\ StartJob(<<p, u>>, TRUE)
    <3>1. TodoStep /\ \A w : JobFor(w)' <=> (JobFor(w) \/ w = u)
      BY <2>2, StartedJob
    <3>2. InHands(u)
      BY <1>0, <1>2 DEF InHands, MarkedFor, Marking
    <3> QED
      BY <1>4, <3>1, <3>2 DEF HandStep, InHands
  <2> QED
    BY <1>2, <2>1, <2>2
<1> QED
  BY <1>4, <1>5, <1>6, <1>7 DEF DeletionStep

LEMMA DeleteAllSteps ==
  ASSUME TypeOK, JobsAreKnown, NEW q \in Requests, DeleteAll(q)
  PROVE  DeletionStep
<1>0. PICK u \in Users, p \in Processes : u = req[q].who /\ p = req[q].home
  BY DEF TypeOK, Locals
<1>1. /\ req[q].at = "delete_all" /\ Return(q)
      /\ UNCHANGED <<status, uploader, hidden, fate>>
      /\ \/ UNCHANGED <<task, deletes, todo, strayed>>
         \/ ~ Manager!Exists(p, u) /\ StartJob(<<p, u>>, FALSE)
  BY <1>0 DEF DeleteAll, At, tables, jobVars
<1>2. Calm
  BY <1>1, Returning, CalmOne DEF MarkSteps
<1>3. CASE UNCHANGED <<task, deletes, todo, strayed>>
  BY <1>1, <1>2, <1>3, CalmSteps
<1>4. CASE ~ Manager!Exists(p, u) /\ StartJob(<<p, u>>, FALSE)
  <2>1. TodoStep /\ \A w : JobFor(w)' <=> JobFor(w)
    BY <1>4, StartedJob
  <2>2. HandStep /\ HideStep /\ MarkStep
    BY <1>2, <2>1, SameHands
  <2>3. Fates /\ FileStep
    BY <1>1, SameFates, SameFiles DEF fate
  <2> QED
    BY <2>1, <2>2, <2>3 DEF DeletionStep
<1> QED
  BY <1>1, <1>3, <1>4

LEMMA RunningDeletes ==
  ASSUME TypeOK, JobsAreKnown, NEW q \in Requests, Running(q)
  PROVE  DeletionStep
<1>1. CASE ActivateByToken(q)
  <2>1. PICK u \in Users : u = req[q].who
    BY DEF TypeOK, Locals
  <2>2. req[q].at = "activate" /\ SetActive(u) /\ Goto(q, "clean") /\ UNCHANGED jobVars
    BY <1>1, <2>1 DEF ActivateByToken, At
  <2>3. Calm
    BY <2>2, Going, CalmOne DEF MarkSteps, Steps
  <2> QED
    BY <2>2, <2>3, ActivationSteps
<1> QED
  BY <1>1, QuietRequests, InsertFileSteps, SelectSteps, MarkingSteps, HidingSteps, SpawnSteps,
     DeleteAllSteps DEF Running

-----------------------------------------------------------------------------
(* The other steps. *)

LEMMA AskingDeletes ==
  ASSUME TypeOK, NEW q \in Requests, Asking(q)
  PROVE  DeletionStep
<1>1. ASSUME NEW u \in Users, NEW p \in Processes, Register(q, u, p) PROVE DeletionStep
  <2>1. /\ status[u] = "none" /\ status' = [status EXCEPT ![u] = "active"]
        /\ UNCHANGED <<uploader, hidden, task, deletes, todo, strayed, doomed, excused,
                       revived, late, shown>>
    BY <1>1 DEF Register, jobVars, fate
  <2>2. Calm
    BY <1>1, RegisterAsks, CalmOne DEF MarkSteps
  <2>3. TodoStep /\ \A w : JobFor(w)' <=> JobFor(w)
    BY <2>1, SameJobs
  <2>4. HandStep /\ HideStep /\ MarkStep
    BY <2>2, <2>3, SameHands
  <2>5. FileStep
    BY <2>1, SameFiles
  <2>6. Fates
    BY <2>1 DEF Fates, FateOf, TypeOK
  <2> QED
    BY <2>3, <2>4, <2>5, <2>6 DEF DeletionStep
<1>2. ASSUME UNCHANGED <<tables, jobVars, fate>>, Others(q), req[q].at \notin MarkSteps,
             req'[q].at \notin MarkSteps
      PROVE  DeletionStep
  BY <1>2, CalmOne, CalmSteps DEF tables, jobVars
<1>3. ASSUME NEW u \in Users, NEW p \in Processes, AskDelete(q, u, p) PROVE DeletionStep
  BY <1>2, <1>3, AskDeleteAsks DEF AskDelete, MarkSteps
<1>4. ASSUME NEW u \in Users, NEW step \in {"upload", "shorten", "delete_all"},
             AskUpload(q, u, step)
      PROVE  DeletionStep
  BY <1>2, <1>4, AskUploadAsks DEF AskUpload, MarkSteps
<1>5. ASSUME NEW u \in Users, NEW p \in Passwords, AskRevocation(q, u, p) \/ AskProfile(q, u, p)
      PROVE  DeletionStep
  BY <1>2, <1>5, PasswordAsks DEF MarkSteps
<1>6. ASSUME NEW u \in Users, NEW k \in Mailed!Kinds, AskToken(q, u, k) PROVE DeletionStep
  BY <1>2, <1>6, AskTokenAsks DEF AskToken, MarkSteps
<1>7. ASSUME NEW t \in Tokens, Confirm(q, t) PROVE DeletionStep
  BY <1>2, <1>7, ConfirmAsks DEF Confirm, MarkSteps, PreUse
<1> QED
  BY <1>1, <1>3, <1>4, <1>5, <1>6, <1>7, WhoAsks

LEMMA AdministrationDeletes ==
  ASSUME TypeOK, Administration
  PROVE  DeletionStep
<1>0. ASSUME UNCHANGED req PROVE Calm
  BY <1>0 DEF Calm
<1>1. ASSUME NEW u \in Users, Activate(u) PROVE DeletionStep
  BY <1>0, <1>1, Ordering, ActivationSteps DEF Activate
<1>2. ASSUME NEW u \in Users, Deactivate(u) PROVE DeletionStep
  <2>1. /\ Exists(u) /\ UNCHANGED req
        /\ status' = [status EXCEPT ![u] = "inactive"]
        /\ UNCHANGED <<uploader, hidden, task, deletes, todo, strayed, doomed, excused,
                       revived, late, shown>>
    BY <1>2, Ordering DEF Deactivate, jobVars, fate
  <2>2. TodoStep /\ \A w : JobFor(w)' <=> JobFor(w)
    BY <2>1, SameJobs
  <2>3. HandStep /\ HideStep /\ MarkStep
    BY <1>0, <2>1, <2>2, SameHands
  <2>4. FileStep
    BY <2>1, SameFiles
  <2>5. Fates
    BY <2>1 DEF Fates, FateOf, TypeOK, Exists
  <2> QED
    BY <2>2, <2>3, <2>4, <2>5 DEF DeletionStep
<1>3. ASSUME NEW u \in Users, ChangeOwner(u) \/ \E p \in Passwords : ResetPass(u, p)
      PROVE  DeletionStep
  <2>1. UNCHANGED <<req, status, uploader, hidden, task, deletes, todo, strayed, fate>>
    BY <1>3, Ordering DEF ChangeOwner, ResetPass, ChoosePassword, jobVars
  <2> QED
    BY <1>0, <2>1, CalmSteps
<1> QED
  BY <1>1, <1>2, <1>3 DEF Administration

LEMMA HandlingDeletes ==
  ASSUME TypeOK, Handling
  PROVE  DeletionStep
<1>1. UNCHANGED req /\ Calm
  BY Ordering DEF Handling, Rename, Undelete, Calm
<1>2. ASSUME NEW f \in Files, Rename(f) PROVE DeletionStep
  <2>1. /\ UNCHANGED <<status, uploader, hidden, task, deletes, todo, fate>>
        /\ strayed' = [j \in Manager!Jobs |-> strayed[j] \cup ({f} \cap todo[j])]
    BY <1>2 DEF Rename, tables
  <2> QED
    BY <1>1, <2>1, CalmSteps
<1>3. ASSUME NEW f \in Files, Undelete(f) PROVE DeletionStep
  <2>1. /\ UNCHANGED <<status, uploader, task, deletes, todo, strayed, doomed, excused, revived,
                       late>>
        /\ hidden' = hidden \ {f} /\ shown' = shown \cup {f}
    BY <1>3 DEF Undelete, jobVars
  <2>2. TodoStep /\ \A w : JobFor(w)' <=> JobFor(w)
    BY <2>1, SameJobs
  <2>3. HandStep /\ HideStep /\ MarkStep
    BY <1>1, <2>2, SameHands
  <2>4. FileStep
    BY <2>1 DEF FileStep
  <2>5. Fates
    BY <2>1, SameFates
  <2> QED
    BY <2>2, <2>3, <2>4, <2>5 DEF DeletionStep
<1> QED
  BY <1>2, <1>3 DEF Handling

\* A job that is over has its user in hand no more, and lists nothing.
LEMMA OverJob ==
  ASSUME TypeOK, NEW j \in Manager!Jobs, NEW failed, JobOver(j, failed),
         \A i \in Manager!Jobs : i # j => todo'[i] = todo[i]
  PROVE  /\ TodoStep /\ Calm
         /\ \A w : JobFor(w)' => JobFor(w)
         /\ \A w : JobFor(w) /\ ~ JobFor(w)' => w = j[2] /\ deletes[j]
<1>1. /\ task'[j] = "none" /\ UNCHANGED <<req, strayed>>
      /\ \A i \in Manager!Jobs : i # j => task'[i] = task[i] /\ deletes'[i] = deletes[i]
  BY DEF JobOver, TypeOK
<1>2. TodoStep
  BY <1>1 DEF TodoStep
<1>3. Calm
  BY <1>1 DEF Calm
<1>4. /\ \A w : JobFor(w)' => JobFor(w)
      /\ \A w : JobFor(w) /\ ~ JobFor(w)' => w = j[2] /\ deletes[j]
  BY <1>1 DEF JobFor
<1> QED
  BY <1>2, <1>3, <1>4

LEMMA DeleteRowSteps ==
  ASSUME TypeOK, NEW j \in Manager!Jobs, DeleteRow(j)
  PROVE  DeletionStep
<1>0. PICK u \in Users : u = j[2]
  BY JobNames
<1>1. /\ task[j] = "purge" /\ deletes[j] /\ JobOver(j, FALSE)
      /\ UNCHANGED <<uploader, hidden, doomed, revived, late, shown, todo>>
      /\ \/ status' = [status EXCEPT ![u] = "gone"] /\ UNCHANGED excused
         \/ /\ status' = status
            /\ excused' = IF Exists(u) THEN excused \cup {u} ELSE excused
  BY <1>0 DEF DeleteRow, JobOver
<1>2. TodoStep /\ Calm /\ \A w : JobFor(w)' => JobFor(w)
  BY <1>1, OverJob
<1>3. \A w : JobFor(w) /\ ~ JobFor(w)' => w = u
  BY <1>0, <1>1, OverJob
<1>4. \/ status'[u] = "gone"
      \/ u \in excused'
      \/ status'[u] # "inactive"
  BY <1>1 DEF Exists, TypeOK
<1>5. \A w : (MarkedFor(w)' <=> MarkedFor(w)) /\ (Hiding(w)' <=> Hiding(w))
  BY <1>2, CalmRequests
<1>6. HandStep /\ HideStep /\ MarkStep
  BY <1>2, <1>3, <1>4, <1>5, CalmRequests DEF HandStep, HideStep, InHands
<1>7. FileStep
  BY <1>1, SameFiles
<1>8. JobFor(u)
  BY <1>0, <1>1 DEF JobFor
<1>9. Fates
  BY <1>1, <1>8 DEF Fates, FateOf, TypeOK
<1> QED
  BY <1>2, <1>6, <1>7, <1>9 DEF DeletionStep

LEMMA PurgeSteps ==
  ASSUME TypeOK, NEW j \in Manager!Jobs, NEW f \in Files, Purge(j, f)
  PROVE  DeletionStep
<1>0. j[2] \in Users /\ \A i \in Manager!Jobs : i[2] # Dummy
  BY JobNames
<1>1. /\ todo' = [todo EXCEPT ![j] = @ \ {f}]
      /\ \/ /\ uploader' = [uploader EXCEPT ![f] = Dummy] /\ hidden' = hidden \cup {f}
            /\ late' = late \ {f} /\ shown' = shown \ {f}
         \/ /\ uploader[f] # j[2] \/ f \in strayed[j]
            /\ UNCHANGED <<uploader, hidden, late, shown>>
      /\ UNCHANGED <<status, task, deletes, strayed, req, doomed, excused, revived>>
  BY DEF Purge, Finds
<1>2. /\ uploader'[f] # j[2] \/ f \in strayed[j]
      /\ \A g \in Files : uploader'[g] \in {uploader[g], Dummy}
  BY <1>0, <1>1 DEF TypeOK
<1>3. TodoStep
  <2>1. \A i \in Manager!Jobs, g \in Files : g \in todo[i] \ todo'[i] => i = j /\ g = f
    BY <1>1 DEF TypeOK
  <2>2. \A i \in Manager!Jobs : todo[i] \subseteq Files
    BY DEF TypeOK
  <2> QED
    BY <1>1, <1>2, <2>1, <2>2 DEF TodoStep
<1>4. Calm /\ \A w : JobFor(w)' <=> JobFor(w)
  BY <1>1 DEF Calm, JobFor
<1>5. HandStep /\ HideStep /\ MarkStep
  BY <1>4, SameHands
<1>6. FileStep
  BY <1>1 DEF FileStep, TypeOK
<1>7. Fates
  BY <1>1, SameFates
<1> QED
  BY <1>3, <1>5, <1>6, <1>7 DEF DeletionStep

LEMMA WorkingDeletes ==
  ASSUME TypeOK, NEW j \in Manager!Jobs, Working(j)
  PROVE  DeletionStep
<1>1. CASE ListFiles(j)
  <2>1. /\ task[j] = "list" /\ task' = [task EXCEPT ![j] = "purge"]
        /\ todo' = [todo EXCEPT ![j] = @ \cup FilesOf(j[2])]
        /\ strayed' = [strayed EXCEPT ![j] = {}]
        /\ UNCHANGED <<status, uploader, hidden, deletes, req, doomed, excused, revived, late, shown>>
    BY <1>1 DEF ListFiles, tables, fate
  <2>2. \A i \in Manager!Jobs :
          i # j => task'[i] = task[i] /\ todo'[i] = todo[i] /\ strayed'[i] = strayed[i]
    BY <2>1 DEF TypeOK
  <2>3. FilesOf(j[2]) \subseteq todo'[j] /\ task'[j] = "purge"
    BY <2>1 DEF TypeOK
  <2>4. TodoStep
    BY <2>1, <2>2, <2>3 DEF TodoStep, FilesOf
  <2>5. Calm /\ \A w : JobFor(w)' <=> JobFor(w)
    BY <2>1, <2>2, <2>3 DEF Calm, JobFor
  <2>6. HandStep /\ HideStep /\ MarkStep
    BY <2>5, SameHands
  <2>7. Fates /\ FileStep
    BY <2>1, SameFates, SameFiles
  <2> QED
    BY <2>4, <2>6, <2>7 DEF DeletionStep
<1>2. CASE EndEmptying(j)
  <2>1. /\ ~ deletes[j] /\ JobOver(j, FALSE)
        /\ UNCHANGED <<status, uploader, hidden, doomed, excused, revived, late, shown, todo>>
    BY <1>2 DEF EndEmptying, JobOver
  <2>2. TodoStep /\ Calm /\ \A w : JobFor(w)' <=> JobFor(w)
    BY <2>1, OverJob
  <2>3. HandStep /\ HideStep /\ MarkStep
    BY <2>2, SameHands
  <2>4. Fates /\ FileStep
    BY <2>1, SameFates, SameFiles
  <2> QED
    BY <2>2, <2>3, <2>4 DEF DeletionStep
<1> QED
  BY <1>1, <1>2, DeleteRowSteps, PurgeSteps DEF Working

LEMMA JobFailsDeletes ==
  ASSUME TypeOK, NEW j \in Manager!Jobs, JobFails(j)
  PROVE  DeletionStep
<1>0. PICK u \in Users : u = j[2]
  BY JobNames
<1>1. /\ JobOver(j, TRUE)
      /\ UNCHANGED <<status, uploader, hidden, doomed, revived, late, shown>>
      /\ excused' = IF deletes[j] THEN excused \cup {u} ELSE excused
      /\ UNCHANGED todo \/ \E f \in todo[j] : todo' = [todo EXCEPT ![j] = @ \ {f}]
  BY <1>0 DEF JobFails, JobOver
<1>2. \A i \in Manager!Jobs : i # j => todo'[i] = todo[i]
  BY <1>1 DEF TypeOK
<1>3. TodoStep /\ Calm /\ \A w : JobFor(w)' => JobFor(w)
  BY <1>1, <1>2, OverJob
<1>4. \A w : JobFor(w) /\ ~ JobFor(w)' => w \in excused'
  BY <1>0, <1>1, <1>2, OverJob
<1>5. \A w : (MarkedFor(w)' <=> MarkedFor(w)) /\ (Hiding(w)' <=> Hiding(w))
  BY <1>3, CalmRequests
<1>6. HandStep /\ HideStep /\ MarkStep
  BY <1>3, <1>4, <1>5, CalmRequests DEF HandStep, HideStep, InHands
<1>7. Fates /\ FileStep
  BY <1>1, SameFates, SameFiles
<1> QED
  BY <1>3, <1>6, <1>7 DEF DeletionStep

\* Requests and the jobs of their process end: what they had in hand is given up.
LEMMA DropDeletes ==
  ASSUME TypeOK, NEW requests \in SUBSET Requests, NEW keys \in SUBSET Manager!Jobs,
         Drop(requests, keys),
         \A j \in keys : task'[j] = "none",
         \A j \in Manager!Jobs \ keys :
           /\ task'[j] = task[j] /\ deletes'[j] = deletes[j]
           /\ todo'[j] = todo[j] /\ strayed'[j] = strayed[j]
  PROVE  DeletionStep
<1>1. /\ UNCHANGED <<status, uploader, hidden, doomed, revived, late, shown>>
      /\ excused' = excused \cup InHand(requests, keys)
  BY DEF Drop, tables
<1>2. /\ \A q \in requests : req'[q].at = "idle"
      /\ \A q \in Requests \ requests : req'[q] = req[q]
  BY Dropping, IdleFields
<1>3. MarkStep
  BY <1>2 DEF MarkStep
<1>4. /\ \A w : MarkedFor(w)' => MarkedFor(w)
      /\ \A w : MarkedFor(w) /\ ~ MarkedFor(w)' => w \in excused'
  BY <1>1, <1>2 DEF MarkedFor, Marking, InHand
<1>5. \A w : Hiding(w) /\ ~ Hiding(w)' => w \in excused'
  BY <1>1, <1>2 DEF Hiding, At, Marking, InHand
<1>6. /\ \A w : JobFor(w)' => JobFor(w)
      /\ \A w : JobFor(w) /\ ~ JobFor(w)' => w \in excused'
  BY <1>1 DEF JobFor, InHand
<1>7. HandStep /\ HideStep
  BY <1>4, <1>5, <1>6 DEF HandStep, HideStep, InHands
<1>8. TodoStep
  BY DEF TodoStep
<1>9. Fates /\ FileStep
  BY <1>1, SameFates, SameFiles
<1> QED
  BY <1>3, <1>7, <1>8, <1>9 DEF DeletionStep

LEMMA FailingDeletes ==
  ASSUME TypeOK, Failing
  PROVE  DeletionStep
<1>1. ASSUME NEW q \in Requests, Abort(q) PROVE DeletionStep
  <2>1. Drop({q}, {}) /\ UNCHANGED <<task, deletes, todo, strayed>>
    BY <1>1 DEF Abort, jobVars
  <2> QED
    BY <2>1, DropDeletes
<1>2. ASSUME NEW p \in Processes, Crash(p) PROVE DeletionStep
  <2> DEFINE mine == {j \in Manager!Jobs : j[1] = p}
             theirs == {q \in Requests : req[q].home = p}
  <2>1. /\ Drop(theirs, mine)
        /\ task' = [j \in Manager!Jobs |-> IF j \in mine THEN "none" ELSE task[j]]
        /\ deletes' = [j \in Manager!Jobs |-> IF j \in mine THEN FALSE ELSE deletes[j]]
        /\ todo' = [j \in Manager!Jobs |-> IF j \in mine THEN {} ELSE todo[j]]
        /\ strayed' = [j \in Manager!Jobs |-> IF j \in mine THEN {} ELSE strayed[j]]
    BY <1>2 DEF Crash
  <2>2. mine \in SUBSET Manager!Jobs /\ theirs \in SUBSET Requests
    OBVIOUS
  <2> HIDE DEF mine, theirs
  <2> QED
    BY <2>1, <2>2, DropDeletes
<1> QED
  BY <1>1, <1>2, JobFailsDeletes DEF Failing

LEMMA DeletionSteps == TypeOK /\ JobsAreKnown /\ [Next]_vars => DeletionStep
<1> SUFFICES ASSUME TypeOK, JobsAreKnown, [Next]_vars PROVE DeletionStep
  OBVIOUS
<1>1. ASSUME UNCHANGED <<tables, jobVars, req, fate>> PROVE DeletionStep
  BY <1>1, CalmSteps DEF tables, jobVars, Calm
<1>2. ASSUME NEW t \in Tokens, Expire(t) PROVE DeletionStep
  BY <1>1, <1>2 DEF Expire
<1>3. CASE UNCHANGED vars
  BY <1>1, <1>3 DEF vars
<1> QED
  BY <1>2, <1>3, AdministrationDeletes, HandlingDeletes, AskingDeletes, RunningDeletes,
     WorkingDeletes, FailingDeletes DEF Next

-----------------------------------------------------------------------------
(* The invariant.  A marked user is inactive or gone until somebody activates *)
(* the user again; a deletion is in hand of nobody but marked users, or such   *)
(* as were revived; and the three properties.                                  *)

DoomedAreOut == \A u \in doomed : status[u] \in {"inactive", "gone"}
MarkersKnow == \A q \in Requests : req[q].at = "mark" => status[req[q].who] # "none"
HandsAreDoomed == \A u \in Users : InHands(u) => u \in doomed \cup revived

HandInv == DoomedAreOut /\ MarkersKnow /\ HandsAreDoomed /\ DoomedAreDeleted
FileInv == OnlyLateFilesRemain /\ DoomedAreHidden

LEMMA HandInit == Init => HandInv /\ FileInv
  BY IdleFields DEF Init, HandInv, FileInv, DoomedAreOut, MarkersKnow, HandsAreDoomed, InHands,
     MarkedFor, JobFor, Marking, DoomedAreDeleted, OnlyLateFilesRemain, DoomedAreHidden

LEMMA HandInvStep == TypeOK /\ TypeOK' /\ HandInv /\ DeletionStep => HandInv'
<1> SUFFICES ASSUME TypeOK, TypeOK', HandInv, Fates, HandStep, MarkStep PROVE HandInv'
  BY DEF DeletionStep
<1>0. /\ doomed \subseteq Users /\ doomed' \subseteq Users
      /\ \A q \in Requests : req[q].who \in Users /\ req'[q].who \in Users
      /\ \A u \in Users : status[u] \in {"none", "active", "inactive", "gone"}
  BY DEF TypeOK, Locals
<1>1. ASSUME NEW u \in doomed' PROVE status'[u] \in {"inactive", "gone"}
  <2>1. FateOf(u)
    BY <1>0, <1>1 DEF Fates
  <2>2. u \in doomed => status[u] \in {"inactive", "gone"}
    BY DEF HandInv, DoomedAreOut
  <2>3. (\E q \in Requests : req[q].at = "mark" /\ req[q].who = u) => status[u] # "none"
    BY DEF HandInv, MarkersKnow
  <2> QED
    BY <1>0, <1>1, <2>1, <2>2, <2>3 DEF FateOf, Exists
<1>2. ASSUME NEW q \in Requests, NEW u \in Users, req'[q].at = "mark", req'[q].who = u
      PROVE  status'[u] # "none"
  <2>1. status[u] # "none"
    BY <1>2 DEF MarkStep, HandInv, MarkersKnow
  <2>2. FateOf(u)
    BY DEF Fates
  <2> QED
    BY <1>0, <2>1, <2>2 DEF FateOf, Exists
<1>3. ASSUME NEW u \in Users, InHands(u)' PROVE u \in doomed' \cup revived'
  <2>1. FateOf(u) /\ revived \subseteq revived'
    BY DEF Fates
  <2>2. CASE ~ InHands(u)
    BY <1>3, <2>2 DEF HandStep
  <2>3. CASE u \in doomed \cup revived
    BY <2>1, <2>3 DEF FateOf
  <2> QED
    BY <2>2, <2>3 DEF HandInv, HandsAreDoomed
<1>4. ASSUME NEW u \in doomed', status'[u] = "inactive"
      PROVE  u \in excused' \/ InHands(u)'
  <2>1. FateOf(u)
    BY <1>0, <1>4 DEF Fates
  <2>2. CASE Hiding(u)'
    BY <2>2 DEF InHands, MarkedFor, Marking, Hiding, At
  <2>3. CASE u \in doomed /\ status[u] = "inactive" /\ (u \in excused => u \in excused')
    <3>1. u \in excused \/ InHands(u)
      BY <2>3, HandsAre DEF HandInv, DoomedAreDeleted
    <3> QED
      BY <1>0, <1>4, <2>3, <3>1 DEF HandStep
  <2>4. u \in doomed => status[u] # "active"
    BY DEF HandInv, DoomedAreOut
  <2> QED
    BY <1>4, <2>1, <2>2, <2>3, <2>4 DEF FateOf
<1>5. DoomedAreDeleted'
  BY <1>4, HandsWillBe DEF DoomedAreDeleted
<1> QED
  BY <1>0, <1>1, <1>2, <1>3, <1>5 DEF HandInv, DoomedAreOut, MarkersKnow, HandsAreDoomed

LEMMA FileInvStep == TypeOK /\ TypeOK' /\ HandInv /\ FileInv /\ DeletionStep => FileInv'
<1> SUFFICES ASSUME TypeOK, TypeOK', HandInv, FileInv, Fates, FileStep, TodoStep, HideStep
             PROVE  FileInv'
  BY DEF DeletionStep
<1>0. /\ doomed \subseteq Users /\ doomed' \subseteq Users /\ Dummy \notin Users
      /\ revived \subseteq revived'
  BY DEF TypeOK, Fates
\* A file that came to be a marked user's came late.
<1>1. ASSUME NEW u \in Users, u \in doomed, NEW f \in Files, uploader'[f] = u
      PROVE  \/ f \in late'
             \/ /\ uploader[f] = u
                /\ f \in late => f \in late'
                /\ f \in hidden \cup late \cup shown => f \in hidden' \cup late' \cup shown'
  BY <1>0, <1>1 DEF FileStep, HandInv, DoomedAreOut
<1>2. ASSUME NEW j \in Manager!Jobs, task'[j] = "purge", deletes'[j], j[2] \notin revived',
             NEW f \in Files, uploader'[f] = j[2]
      PROVE  f \in todo'[j] \cup late' \cup strayed'[j]
  <2>1. CASE \A g \in Files : uploader'[g] = j[2] => g \in todo'[j]
    BY <1>2, <2>1
  <2>2. CASE /\ task[j] = "purge" /\ deletes[j] /\ strayed[j] \subseteq strayed'[j]
             /\ \A g \in todo[j] \ todo'[j] : uploader'[g] # j[2] \/ g \in strayed[j]
    <3>1. j[2] \in Users /\ j[2] \in doomed
      BY <1>0, <1>2, <2>2, JobNames DEF HandInv, HandsAreDoomed, InHands, JobFor
    <3>2. uploader[f] = j[2] => f \in todo[j] \cup late \cup strayed[j]
      BY <1>0, <1>2, <2>2 DEF FileInv, OnlyLateFilesRemain, FilesOf
    <3> QED
      BY <1>0, <1>1, <1>2, <2>2, <3>1, <3>2
  <2> QED
    BY <1>2, <2>1, <2>2 DEF TodoStep
<1>3. ASSUME NEW u \in doomed' \ excused', status'[u] = "inactive", ~ Hiding(u)',
             NEW f \in Files, uploader'[f] = u
      PROVE  f \in hidden' \cup late' \cup shown'
  <2>1. u \in Users /\ FateOf(u)
    BY <1>0 DEF Fates
  <2>2. u \in doomed => status[u] # "active"
    BY DEF HandInv, DoomedAreOut
  <2>3. u \in doomed \ excused /\ status[u] = "inactive"
    BY <1>3, <2>1, <2>2 DEF FateOf
  <2>4. CASE Hiding(u)
    BY <1>3, <2>1, <2>4 DEF HideStep
  <2>5. CASE ~ Hiding(u)
    <3>1. uploader[f] = u => f \in hidden \cup late \cup shown
      BY <2>3, <2>5 DEF FileInv, DoomedAreHidden, FilesOf, Hiding
    <3> QED
      BY <1>0, <1>1, <1>3, <2>1, <2>3, <3>1
  <2> QED
    BY <2>4, <2>5
<1>4. OnlyLateFilesRemain'
  BY <1>2 DEF OnlyLateFilesRemain, FilesOf
<1>5. DoomedAreHidden'
  BY <1>3 DEF DoomedAreHidden, FilesOf, Hiding, At
<1> QED
  BY <1>4, <1>5 DEF FileInv

LEMMA StartsKnown == Init => JobsAreKnown
  BY DEF Init, JobsAreKnown

\* A marked user who was not activated again is being deleted, or the deletion
\* was given up for one of the named causes.
THEOREM MarkedUsersAreDeleted == Spec => []DoomedAreDeleted
<1>1. HandInv => DoomedAreDeleted
  BY DEF HandInv
<1> QED
  BY <1>1, HandInit, HandInvStep, DeletionSteps, StartsKnown, JobsStep, TypeInit, TypeStep, PTL
  DEF Spec

\* Once a deletion has listed the files, none but those it has not come to yet, late
\* ones and renamed ones are the user's.
THEOREM DeletionsListAllFiles == Spec => []OnlyLateFilesRemain
<1>1. FileInv => OnlyLateFilesRemain
  BY DEF FileInv
<1> QED
  BY <1>1, HandInit, HandInvStep, FileInvStep, DeletionSteps, StartsKnown, JobsStep, TypeInit,
     TypeStep, PTL
  DEF Spec

\* The files of a marked user stay hidden, but for late ones and undeleted ones.
THEOREM MarkedUsersAreHidden == Spec => []DoomedAreHidden
<1>1. FileInv => DoomedAreHidden
  BY DEF FileInv
<1> QED
  BY <1>1, HandInit, HandInvStep, FileInvStep, DeletionSteps, StartsKnown, JobsStep, TypeInit,
     TypeStep, PTL
  DEF Spec

\* A user goes from the table only while inactive, or having been activated
\* again during the deletion (profile.py:414).
ActiveAccountsStay ==
    [][\A u \in Users :
         status[u] = "active" /\ status'[u] = "gone" => u \in revived]_vars

\* No deletion takes an active user who was not revived while it ran.
THEOREM ActiveUsersStay == Spec => ActiveAccountsStay
<1>1. TypeOK /\ HandInv /\ DeletionStep
        => \A u \in Users : status[u] = "active" /\ status'[u] = "gone" => u \in revived
  <2> SUFFICES ASSUME TypeOK, HandInv, DeletionStep,
                      NEW u \in Users, status[u] = "active", status'[u] = "gone"
               PROVE  u \in revived
    OBVIOUS
  <2>1. FateOf(u)
    BY DEF DeletionStep, Fates
  <2>2. JobFor(u)
    BY <2>1 DEF FateOf, Exists
  <2> QED
    BY <2>2 DEF HandInv, HandsAreDoomed, DoomedAreOut, InHands
<1>2. TypeOK /\ HandInv /\ JobsAreKnown /\ [Next]_vars
        => [\A u \in Users : status[u] = "active" /\ status'[u] = "gone" => u \in revived]_vars
  BY <1>1, DeletionSteps
<1> QED
  BY <1>2, HandInit, HandInvStep, DeletionSteps, StartsKnown, JobsStep, TypeInit, TypeStep, PTL
  DEF Spec, ActiveAccountsStay

-----------------------------------------------------------------------------
(* The refinement: every step is one of the life of an account, or none. *)

LifeStep == Life!Next \/ UNCHANGED <<Lives, Pending>>

\* A user's life hangs on the row and two histories.
LEMMA SameLife ==
  ASSUME NEW u, status'[u] = status[u], u \in doomed' <=> u \in doomed,
         u \in excused' <=> u \in excused
  PROVE  LifeOf(u)' = LifeOf(u)
  BY DEF LifeOf

LEMMA SamePending ==
  ASSUME \A u : InHands(u)' <=> InHands(u)
  PROVE  Pending' = Pending
  BY HandsAre, HandsWillBe DEF Pending

LEMMA CalmPending ==
  ASSUME Calm, \A u : JobFor(u)' <=> JobFor(u)
  PROVE  Pending' = Pending
  BY CalmRequests, SamePending DEF InHands

LEMMA NoLifeStep ==
  ASSUME UNCHANGED <<status, doomed, excused>>, Pending' = Pending
  PROVE  LifeStep
<1>1. \A u : LifeOf(u)' = LifeOf(u)
  BY SameLife
<1> QED
  BY <1>1 DEF LifeStep, Lives

\* One user comes to another stage.
LEMMA OneBecomes ==
  ASSUME NEW u \in Users, \A w \in Users : w # u => LifeOf(w)' = LifeOf(w)
  PROVE  Life!Become(u, LifeOf(u)')
  BY DEF Life!Become, Lives

LEMMA SetActiveLives ==
  ASSUME TypeOK, NEW u \in Users, SetActive(u), Pending' = Pending
  PROVE  LifeStep
<1>1. /\ status' = IF Exists(u) THEN [status EXCEPT ![u] = "active"] ELSE status
      /\ doomed' = doomed \ {u} /\ UNCHANGED excused
  BY DEF SetActive
<1>2. \A w \in Users : w # u => LifeOf(w)' = LifeOf(w)
  BY <1>1, SameLife DEF TypeOK
<1>3. CASE Exists(u)
  <2>1. LifeOf(u)' = "active"
    BY <1>1, <1>3 DEF LifeOf, TypeOK
  <2>2. Life!Exists(u)
    BY <1>3 DEF Life!Exists, Lives, LifeOf, Exists
  <2>3. Life!Activate(u)
    BY <1>2, <2>1, <2>2, OneBecomes DEF Life!Activate
  <2> QED
    BY <2>3 DEF LifeStep, Life!Next
<1>4. CASE ~ Exists(u)
  <2>1. LifeOf(u)' = LifeOf(u)
    BY <1>1, <1>4 DEF LifeOf, Exists
  <2>2. Lives' = Lives
    BY <1>2, <2>1 DEF Lives
  <2> QED
    BY <2>2 DEF LifeStep
<1> QED
  BY <1>3, <1>4

\* Deletions of some users are given up, and no other user's hands are emptied.
LEMMA GivingUp ==
  ASSUME TypeOK, NEW S \in SUBSET Users, \A u \in S : InHands(u),
         UNCHANGED <<status, doomed>>,
         excused \subseteq excused', \A u \in excused' \ excused : u \in S,
         \A u \in S : Exists(u) => u \in excused',
         \A u : InHands(u)' => InHands(u),
         \A u : InHands(u) /\ ~ InHands(u)' => u \in S
  PROVE  LifeStep
<1>1. S \subseteq Pending /\ Pending \ S \subseteq Pending' /\ Pending' \subseteq Pending
  BY HandsAre, HandsWillBe DEF Pending
<1>2. ASSUME NEW u \in Users
      PROVE  LifeOf(u)' = IF u \in S /\ Lives[u] = "doomed" THEN "spared" ELSE Lives[u]
  <2>1. Lives[u] = LifeOf(u)
    BY DEF Lives
  <2>0. status[u] \in {"none", "active", "inactive", "gone"}
    BY DEF TypeOK
  <2>5. status'[u] = status[u] /\ (u \in doomed' <=> u \in doomed)
    OBVIOUS
  <2>2. CASE u \in S /\ Exists(u)
    <3>1. u \in excused'
      BY <2>2
    <3> QED
      BY <2>0, <2>1, <2>2, <2>5, <3>1 DEF LifeOf
  <2>3. CASE u \in S /\ ~ Exists(u)
    <3>1. status[u] \in {"none", "gone"}
      BY <2>0, <2>3 DEF Exists
    <3> QED
      BY <2>1, <2>3, <2>5, <3>1 DEF LifeOf
  <2>4. CASE u \notin S
    BY <2>1, <2>4, SameLife
  <2> QED
    BY <2>2, <2>3, <2>4
<1>3. Lives' = [u \in Users |-> IF u \in S /\ Lives[u] = "doomed" THEN "spared" ELSE Lives[u]]
  BY <1>2 DEF Lives
<1>4. Life!GiveUp(S)
  BY <1>1, <1>3 DEF Life!GiveUp
<1> QED
  BY <1>4 DEF LifeStep, Life!Next

LEMMA AdministrationLives ==
  ASSUME TypeOK, DoomedAreOut, Administration
  PROVE  LifeStep
<1>0. ASSUME UNCHANGED <<req, task, deletes>> PROVE Pending' = Pending
  BY <1>0, CalmPending DEF Calm, JobFor
<1>1. ASSUME NEW u \in Users, Activate(u) PROVE LifeStep
  BY <1>0, <1>1, Ordering, SetActiveLives DEF Activate, jobVars
<1>2. ASSUME NEW u \in Users, Deactivate(u) PROVE LifeStep
  <2>1. /\ Exists(u) /\ UNCHANGED req
        /\ status' = [status EXCEPT ![u] = "inactive"]
        /\ UNCHANGED <<task, deletes, doomed, excused>>
    BY <1>2, Ordering DEF Deactivate, jobVars, fate
  <2>2. Pending' = Pending
    BY <1>0, <2>1
  <2>3. CASE status[u] = "inactive"
    <3>1. status' = status
      BY <2>1, <2>3 DEF TypeOK
    <3> QED
      BY <2>1, <2>2, <3>1, NoLifeStep
  <2>4. CASE status[u] = "active"
    <3>1. u \notin doomed
      BY <2>4 DEF DoomedAreOut
    <3>2. LifeOf(u)' = "inactive" /\ LifeOf(u) = "active"
      BY <2>1, <2>4, <3>1 DEF LifeOf, TypeOK
    <3>3. \A w \in Users : w # u => LifeOf(w)' = LifeOf(w)
      BY <2>1, SameLife DEF TypeOK
    <3>4. Life!Deactivate(u)
      BY <2>2, <3>2, <3>3, OneBecomes DEF Life!Deactivate, Lives
    <3> QED
      BY <3>4 DEF LifeStep, Life!Next
  <2> QED
    BY <2>1, <2>3, <2>4 DEF Exists
<1>3. ASSUME NEW u \in Users, ChangeOwner(u) \/ \E p \in Passwords : ResetPass(u, p)
      PROVE  LifeStep
  <2>1. UNCHANGED <<req, status, task, deletes, doomed, excused>>
    BY <1>3, Ordering DEF ChangeOwner, ResetPass, ChoosePassword, jobVars, fate
  <2> QED
    BY <1>0, <2>1, NoLifeStep
<1> QED
  BY <1>1, <1>2, <1>3 DEF Administration

LEMMA HandlingLives ==
  ASSUME TypeOK, Handling
  PROVE  LifeStep
<1>1. UNCHANGED <<req, status, task, deletes, doomed, excused>>
  BY Ordering DEF Handling, Rename, Undelete, tables, jobVars, fate
<1>2. Pending' = Pending
  BY <1>1, CalmPending DEF Calm, JobFor
<1> QED
  BY <1>1, <1>2, NoLifeStep

LEMMA AskingLives ==
  ASSUME TypeOK, NEW q \in Requests, Asking(q)
  PROVE  LifeStep
<1>0. ASSUME Others(q), req[q].at \notin MarkSteps, req'[q].at \notin MarkSteps,
             UNCHANGED jobVars
      PROVE  Pending' = Pending
  BY <1>0, CalmOne, CalmPending DEF jobVars, JobFor
<1>1. ASSUME NEW u \in Users, NEW p \in Processes, Register(q, u, p) PROVE LifeStep
  <2>1. /\ status[u] = "none" /\ status' = [status EXCEPT ![u] = "active"]
        /\ UNCHANGED <<doomed, excused>> /\ UNCHANGED jobVars
    BY <1>1 DEF Register, fate
  <2>2. Pending' = Pending
    BY <1>0, <1>1, <2>1, RegisterAsks DEF MarkSteps
  <2>3. LifeOf(u)' = "active" /\ LifeOf(u) = "none"
    BY <2>1 DEF LifeOf, TypeOK
  <2>4. \A w \in Users : w # u => LifeOf(w)' = LifeOf(w)
    BY <2>1, SameLife DEF TypeOK
  <2>5. Life!Register(u)
    BY <2>2, <2>3, <2>4, OneBecomes DEF Life!Register, Lives
  <2> QED
    BY <2>5 DEF LifeStep, Life!Next
<1>2. ASSUME UNCHANGED <<tables, jobVars, fate>>, Others(q), req[q].at \notin MarkSteps,
             req'[q].at \notin MarkSteps
      PROVE  LifeStep
  BY <1>0, <1>2, NoLifeStep DEF tables, fate
<1>3. ASSUME NEW u \in Users, NEW p \in Processes, AskDelete(q, u, p) PROVE LifeStep
  BY <1>2, <1>3, AskDeleteAsks DEF AskDelete, MarkSteps
<1>4. ASSUME NEW u \in Users, NEW step \in {"upload", "shorten", "delete_all"},
             AskUpload(q, u, step)
      PROVE  LifeStep
  BY <1>2, <1>4, AskUploadAsks DEF AskUpload, MarkSteps
<1>5. ASSUME NEW u \in Users, NEW p \in Passwords, AskRevocation(q, u, p) \/ AskProfile(q, u, p)
      PROVE  LifeStep
  BY <1>2, <1>5, PasswordAsks DEF MarkSteps
<1>6. ASSUME NEW u \in Users, NEW k \in Mailed!Kinds, AskToken(q, u, k) PROVE LifeStep
  BY <1>2, <1>6, AskTokenAsks DEF AskToken, MarkSteps
<1>7. ASSUME NEW t \in Tokens, Confirm(q, t) PROVE LifeStep
  BY <1>2, <1>7, ConfirmAsks DEF Confirm, MarkSteps, PreUse
<1> QED
  BY <1>1, <1>3, <1>4, <1>5, <1>6, <1>7, WhoAsks

\* The steps of requests that mark nobody and give nothing up.
LEMMA QuietLives ==
  ASSUME TypeOK, JobsAreKnown, NEW q \in Requests,
         \/ InsertLimits(q) \/ CountTokens(q) \/ InsertToken(q) \/ InsertShorten(q)
         \/ \E f \in Files : InsertFile(q, f)
         \/ CleanToken(q) \/ Rehash(q) \/ WaitDone(q) \/ SelectActive(q) \/ DeleteAll(q)
         \/ \E p \in Passwords : ResetPassword(q, p) \/ ChangePassword(q, p)
         \/ HideFiles(q) \/ HideShortens(q)
  PROVE  LifeStep
<1>1. UNCHANGED <<status, doomed, excused>>
  BY DEF InsertLimits, CountTokens, InsertToken, InsertShorten, InsertFile, CleanToken, Rehash,
         WaitDone, SelectActive, DeleteAll, ResetPassword, ChangePassword, ChoosePassword,
         HideFiles, HideShortens, tables, fate
<1>2. Others(q) /\ (Marking(q)' <=> Marking(q)) /\ (Marking(q) => req'[q].who = req[q].who)
  <2>1. CASE HideFiles(q) \/ HideShortens(q)
    BY <2>1, Going DEF HideFiles, HideShortens, At, Marking, Steps
  <2>2. CASE ~ (HideFiles(q) \/ HideShortens(q))
    <3>1. ~ Marking(q)
      BY <2>2 DEF InsertLimits, CountTokens, InsertToken, InsertShorten, InsertFile, CleanToken,
         Rehash, WaitDone, SelectActive, DeleteAll, ResetPassword, ChangePassword, At, Marking
    <3>2. \/ Return(q) \/ Finish(q)
          \/ \E step \in {"insert", "clean", "mark"} : Goto(q, step)
      BY <2>2 DEF InsertLimits, CountTokens, InsertToken, InsertShorten, InsertFile, CleanToken,
         Rehash, WaitDone, SelectActive, DeleteAll, ResetPassword, ChangePassword
    <3> QED
      BY <3>1, <3>2, Returning, Finishing, Going DEF Marking, Steps
  <2> QED
    BY <2>1, <2>2
<1>3. \A u : MarkedFor(u)' <=> MarkedFor(u)
  BY <1>2 DEF MarkedFor, Marking, Others
<1>4. \A u : JobFor(u)' <=> JobFor(u)
  <2>1. CASE DeleteAll(q)
    <3>0. PICK u \in Users, p \in Processes : u = req[q].who /\ p = req[q].home
      BY DEF TypeOK, Locals
    <3>1. \/ UNCHANGED <<task, deletes>>
          \/ ~ Manager!Exists(p, u) /\ StartJob(<<p, u>>, FALSE)
      BY <2>1, <3>0 DEF DeleteAll, jobVars
    <3>2. CASE UNCHANGED <<task, deletes>>
      BY <3>2 DEF JobFor
    <3>3. CASE ~ Manager!Exists(p, u) /\ StartJob(<<p, u>>, FALSE)
      BY <3>3, StartedJob
    <3> QED
      BY <3>1, <3>2, <3>3
  <2>2. CASE ~ DeleteAll(q)
    <3>1. UNCHANGED <<task, deletes>>
      BY <2>2 DEF InsertLimits, CountTokens, InsertToken, InsertShorten, InsertFile, CleanToken,
         Rehash, WaitDone, SelectActive, ResetPassword, ChangePassword, HideFiles, HideShortens,
         jobVars
    <3> QED
      BY <3>1 DEF JobFor
  <2> QED
    BY <2>1, <2>2
<1>5. Pending' = Pending
  BY <1>3, <1>4, SamePending DEF InHands
<1> QED
  BY <1>1, <1>5, NoLifeStep

LEMMA MarkLives ==
  ASSUME TypeOK, MarkersKnow, NEW q \in Requests, MarkInactive(q)
  PROVE  LifeStep
<1>0. PICK u \in Users : u = req[q].who
  BY DEF TypeOK, Locals
<1>1. /\ req[q].at = "mark" /\ Goto(q, "files")
      /\ status' = IF Exists(u) THEN [status EXCEPT ![u] = "inactive"] ELSE status
      /\ doomed' = doomed \cup {u} /\ excused' = excused \ {u}
      /\ UNCHANGED <<task, deletes>>
  BY <1>0 DEF MarkInactive, At, jobVars
<1>2. Others(q) /\ req'[q].at = "files" /\ req'[q].who = u
  BY <1>0, <1>1, Going DEF Steps
<1>3. /\ \A w : w # u => (InHands(w)' <=> InHands(w))
      /\ InHands(u)'
  BY <1>0, <1>1, <1>2 DEF InHands, JobFor, MarkedFor, Marking, Others
<1>4. Pending' = Pending \cup {u}
  BY <1>3, HandsAre, HandsWillBe DEF Pending
<1>5. \A w \in Users : w # u => LifeOf(w)' = LifeOf(w)
  BY <1>1, SameLife DEF TypeOK
<1>6. status[u] # "none"
  BY <1>0, <1>1 DEF MarkersKnow
<1>7. /\ LifeOf(u) # "none"
      /\ LifeOf(u)' = IF Life!Exists(u) THEN "doomed" ELSE LifeOf(u)
  BY <1>1, <1>6 DEF LifeOf, Life!Exists, Lives, Exists, TypeOK
<1>8. Life!Mark(u)
  <2>1. Lives[u] = LifeOf(u)
    BY DEF Lives
  <2>2. Life!Become(u, LifeOf(u)')
    BY <1>5, OneBecomes
  <2> QED
    BY <1>4, <1>7, <2>1, <2>2 DEF Life!Mark
<1> QED
  BY <1>8 DEF LifeStep, Life!Next

LEMMA SpawnLives ==
  ASSUME TypeOK, JobsAreKnown, NEW q \in Requests, SpawnJob(q)
  PROVE  LifeStep
<1>0. PICK u \in Users, p \in Processes : u = req[q].who /\ p = req[q].home
  BY DEF TypeOK, Locals
<1>1. PICK j \in Manager!Jobs : j = <<p, u>> /\ j[1] = p /\ j[2] = u
  BY JobNames
<1>2. /\ req[q].at = "spawn" /\ UNCHANGED <<status, doomed>>
      /\ \/ NameTaken(q, j)
         \/ /\ ~ Manager!Exists(p, u) /\ StartJob(<<p, u>>, TRUE) /\ UNCHANGED excused
            /\ Goto(q, "wait") \/ Finish(q)
  BY <1>0, <1>1 DEF SpawnJob, At, tables
<1>3. Others(q) /\ ~ Marking(q)' /\ MarkedFor(u)
  <2>1. Others(q) /\ req'[q].at \in {"idle", "clean", "wait"}
    BY <1>2, Returning, Going, Finishing DEF NameTaken, Steps
  <2> QED
    BY <1>0, <1>2, <2>1 DEF MarkedFor, Marking
<1>4. /\ \A w : MarkedFor(w)' => MarkedFor(w)
      /\ \A w : w # u => (MarkedFor(w)' <=> MarkedFor(w))
  BY <1>0, <1>3 DEF MarkedFor, Marking, Others
<1>5. CASE NameTaken(q, j)
  <2>1. /\ UNCHANGED <<task, deletes>> /\ j \in jobs
        /\ excused' = IF deletes[j] THEN excused ELSE excused \cup {u}
    BY <1>1, <1>5 DEF NameTaken, jobVars, Manager!Exists
  <2>2. \A w : JobFor(w)' <=> JobFor(w)
    BY <2>1 DEF JobFor
  <2>3. CASE deletes[j]
    <3>1. JobFor(u)
      BY <1>1, <2>1, <2>3 DEF JobFor, JobsAreKnown
    <3>2. Pending' = Pending
      BY <1>3, <1>4, <2>2, <3>1, SamePending DEF InHands
    <3> QED
      BY <1>2, <2>1, <2>3, <3>2, NoLifeStep
  <2>4. CASE ~ deletes[j]
    <3>1. InHands(u) /\ excused' = excused \cup {u}
      BY <1>3, <2>1, <2>4 DEF InHands
    <3>2. /\ \A w : InHands(w)' => InHands(w)
          /\ \A w : InHands(w) /\ ~ InHands(w)' => w \in {u}
      BY <1>4, <2>2 DEF InHands
    <3> QED
      BY <1>2, <3>1, <3>2, GivingUp
  <2> QED
    BY <2>3, <2>4
<1>6. CASE ~ Manager!Exists(p, u) /\ StartJob(<<p, u>>, TRUE) /\ UNCHANGED excused
  <2>1. \A w : JobFor(w)' <=> (JobFor(w) \/ w = u)
    BY <1>6, StartedJob
  <2>2. Pending' = Pending
    BY <1>3, <1>4, <2>1, SamePending DEF InHands
  <2> QED
    BY <1>2, <1>6, <2>2, NoLifeStep
<1> QED
  BY <1>2, <1>5, <1>6

LEMMA RunningLives ==
  ASSUME TypeOK, JobsAreKnown, MarkersKnow, NEW q \in Requests, Running(q)
  PROVE  LifeStep
<1>1. CASE ActivateByToken(q)
  <2>1. PICK u \in Users : u = req[q].who
    BY DEF TypeOK, Locals
  <2>2. req[q].at = "activate" /\ SetActive(u) /\ Goto(q, "clean") /\ UNCHANGED <<task, deletes>>
    BY <1>1, <2>1 DEF ActivateByToken, At, jobVars
  <2>3. Calm
    BY <2>2, Going, CalmOne DEF MarkSteps, Steps
  <2>4. Pending' = Pending
    BY <2>2, <2>3, CalmPending DEF JobFor
  <2> QED
    BY <2>2, <2>4, SetActiveLives
<1> QED
  BY <1>1, QuietLives, MarkLives, SpawnLives DEF Running

\* A job that ends, with what it gives up.
LEMMA OverLives ==
  ASSUME TypeOK, NEW j \in Manager!Jobs, NEW failed, JobOver(j, failed),
         \A i \in Manager!Jobs : i # j => todo'[i] = todo[i]
  PROVE  /\ \A w : InHands(w)' => InHands(w)
         /\ \A w : InHands(w) /\ ~ InHands(w)' => w = j[2] /\ deletes[j]
<1>1. /\ Calm /\ \A w : JobFor(w)' => JobFor(w)
      /\ \A w : JobFor(w) /\ ~ JobFor(w)' => w = j[2] /\ deletes[j]
  BY OverJob
<1>2. \A w : MarkedFor(w)' <=> MarkedFor(w)
  BY <1>1, CalmRequests
<1> QED
  BY <1>1, <1>2 DEF InHands

LEMMA DeleteRowLives ==
  ASSUME TypeOK, NEW j \in Manager!Jobs, DeleteRow(j)
  PROVE  LifeStep
<1>0. PICK u \in Users : u = j[2]
  BY JobNames
<1>1. /\ task[j] = "purge" /\ deletes[j] /\ JobOver(j, FALSE) /\ UNCHANGED <<doomed, todo>>
      /\ \/ Exists(u) /\ status' = [status EXCEPT ![u] = "gone"] /\ UNCHANGED excused
         \/ /\ status' = status
            /\ excused' = IF Exists(u) THEN excused \cup {u} ELSE excused
  BY <1>0 DEF DeleteRow, JobOver
<1>2. /\ \A w : InHands(w)' => InHands(w)
      /\ \A w : InHands(w) /\ ~ InHands(w)' => w = u
  BY <1>0, <1>1, OverLives
<1>3. InHands(u)
  BY <1>0, <1>1 DEF InHands, JobFor
<1>4. CASE Exists(u) /\ status' = [status EXCEPT ![u] = "gone"] /\ UNCHANGED excused
  <2>1. \A w \in Users : w # u => LifeOf(w)' = LifeOf(w)
    BY <1>1, <1>4, SameLife DEF TypeOK
  <2>2. LifeOf(u)' = "gone" /\ Life!Exists(u)
    BY <1>4 DEF LifeOf, Life!Exists, Lives, Exists, TypeOK
  <2>3. u \in Pending /\ Pending' \in {Pending, Pending \ {u}}
    BY <1>2, <1>3, HandsAre, HandsWillBe DEF Pending
  <2>4. Life!Drop(u)
    BY <2>1, <2>2, <2>3, OneBecomes DEF Life!Drop
  <2> QED
    BY <2>4 DEF LifeStep, Life!Next
<1>5. CASE /\ status' = status
           /\ excused' = IF Exists(u) THEN excused \cup {u} ELSE excused
  <2>1. {u} \in SUBSET Users /\ \A w \in {u} : InHands(w)
    BY <1>3
  <2>2. /\ excused \subseteq excused' /\ \A w \in excused' \ excused : w \in {u}
        /\ \A w \in {u} : Exists(w) => w \in excused'
    BY <1>5
  <2>3. \A w : InHands(w) /\ ~ InHands(w)' => w \in {u}
    BY <1>2
  <2>4. UNCHANGED <<status, doomed>>
    BY <1>1, <1>5
  <2> QED
    BY <1>2, <2>1, <2>2, <2>3, <2>4, GivingUp
<1> QED
  BY <1>1, <1>4, <1>5

LEMMA WorkingLives ==
  ASSUME TypeOK, NEW j \in Manager!Jobs, Working(j)
  PROVE  LifeStep
<1>1. ASSUME \/ ListFiles(j) \/ \E f \in Files : Purge(j, f) PROVE LifeStep
  <2>1. /\ UNCHANGED <<status, deletes, req, doomed, excused>>
        /\ \A i \in Manager!Jobs : task'[i] # "none" <=> task[i] # "none"
    BY <1>1 DEF ListFiles, Purge, tables, fate, TypeOK
  <2>2. Calm /\ \A w : JobFor(w)' <=> JobFor(w)
    BY <2>1 DEF Calm, JobFor
  <2> QED
    BY <2>1, <2>2, CalmPending, NoLifeStep
<1>2. ASSUME EndEmptying(j) PROVE LifeStep
  <2>1. /\ ~ deletes[j] /\ JobOver(j, FALSE)
        /\ UNCHANGED <<status, doomed, excused, todo>>
    BY <1>2 DEF EndEmptying, JobOver
  <2>2. \A w : InHands(w)' <=> InHands(w)
    BY <2>1, OverLives
  <2> QED
    BY <2>1, <2>2, SamePending, NoLifeStep
<1> QED
  BY <1>1, <1>2, DeleteRowLives DEF Working

LEMMA JobFailsLives ==
  ASSUME TypeOK, NEW j \in Manager!Jobs, JobFails(j)
  PROVE  LifeStep
<1>0. PICK u \in Users : u = j[2]
  BY JobNames
<1>1. /\ task[j] # "none" /\ JobOver(j, TRUE) /\ UNCHANGED <<status, doomed>>
      /\ excused' = IF deletes[j] THEN excused \cup {u} ELSE excused
      /\ UNCHANGED todo \/ \E f \in todo[j] : todo' = [todo EXCEPT ![j] = @ \ {f}]
  BY <1>0 DEF JobFails, JobOver
<1>2. \A i \in Manager!Jobs : i # j => todo'[i] = todo[i]
  BY <1>1 DEF TypeOK
<1>3. /\ \A w : InHands(w)' => InHands(w)
      /\ \A w : InHands(w) /\ ~ InHands(w)' => w = u /\ deletes[j]
  BY <1>0, <1>1, <1>2, OverLives
<1>4. CASE deletes[j]
  <2>1. InHands(u)
    BY <1>0, <1>1, <1>4 DEF InHands, JobFor
  <2> QED
    BY <1>1, <1>3, <1>4, <2>1, GivingUp
<1>5. CASE ~ deletes[j]
  BY <1>1, <1>3, <1>5, SamePending, NoLifeStep
<1> QED
  BY <1>4, <1>5

\* What ends with a request or a process gives up what it had in hand.
LEMMA DropLives ==
  ASSUME TypeOK, NEW requests \in SUBSET Requests, NEW keys \in SUBSET Manager!Jobs,
         Drop(requests, keys),
         \A j \in keys : task'[j] = "none",
         \A j \in Manager!Jobs \ keys : task'[j] = task[j] /\ deletes'[j] = deletes[j]
  PROVE  LifeStep
<1> DEFINE S == InHand(requests, keys)
<1>1. UNCHANGED <<status, doomed>> /\ excused' = excused \cup S
  BY DEF Drop, tables
<1>2. /\ \A q \in requests : req'[q].at = "idle"
      /\ \A q \in Requests \ requests : req'[q] = req[q]
  BY Dropping, IdleFields
<1>3. S \subseteq Users /\ \A u \in S : InHands(u)
  BY JobNames DEF InHand, InHands, MarkedFor, JobFor, TypeOK, Locals
<1>4. /\ \A w : MarkedFor(w)' => MarkedFor(w)
      /\ \A w : MarkedFor(w) /\ ~ MarkedFor(w)' => w \in S
  BY <1>2 DEF MarkedFor, Marking, InHand
<1>5. /\ \A w : JobFor(w)' => JobFor(w)
      /\ \A w : JobFor(w) /\ ~ JobFor(w)' => w \in S
  BY DEF JobFor, InHand
<1> HIDE DEF S
<1> QED
  BY <1>1, <1>3, <1>4, <1>5, GivingUp DEF InHands

LEMMA FailingLives ==
  ASSUME TypeOK, Failing
  PROVE  LifeStep
<1>1. ASSUME NEW q \in Requests, Abort(q) PROVE LifeStep
  <2>1. Drop({q}, {}) /\ UNCHANGED <<task, deletes>>
    BY <1>1 DEF Abort, jobVars
  <2> QED
    BY <2>1, DropLives
<1>2. ASSUME NEW p \in Processes, Crash(p) PROVE LifeStep
  <2> DEFINE mine == {j \in Manager!Jobs : j[1] = p}
             theirs == {q \in Requests : req[q].home = p}
  <2>1. /\ Drop(theirs, mine)
        /\ task' = [j \in Manager!Jobs |-> IF j \in mine THEN "none" ELSE task[j]]
        /\ deletes' = [j \in Manager!Jobs |-> IF j \in mine THEN FALSE ELSE deletes[j]]
    BY <1>2 DEF Crash
  <2>2. mine \in SUBSET Manager!Jobs /\ theirs \in SUBSET Requests
    OBVIOUS
  <2> HIDE DEF mine, theirs
  <2> QED
    BY <2>1, <2>2, DropLives
<1> QED
  BY <1>1, <1>2, JobFailsLives DEF Failing

\* The accounts implement the life of an account: whatever requests, jobs and
\* crashes do to one and its deletion is a step of AccountLife, or none.
THEOREM AccountsRefineTheLife == Spec => AccountsLeadTheirLives
<1>1. Init => Life!Init
  BY IdleFields DEF Init, Life!Init, Lives, LifeOf, Pending, InHand, Marking
<1>2. TypeOK /\ HandInv /\ JobsAreKnown /\ [Next]_vars => [Life!Next]_<<Lives, Pending>>
  <2> SUFFICES ASSUME TypeOK, HandInv, JobsAreKnown, [Next]_vars PROVE LifeStep
    BY DEF LifeStep
  <2>1. ASSUME UNCHANGED <<tables, jobVars, req, fate>> PROVE LifeStep
    <3>1. Calm /\ \A w : JobFor(w)' <=> JobFor(w)
      BY <2>1 DEF Calm, JobFor, jobVars
    <3> QED
      BY <2>1, <3>1, CalmPending, NoLifeStep DEF tables, fate
  <2>2. ASSUME NEW t \in Tokens, Expire(t) PROVE LifeStep
    BY <2>1, <2>2 DEF Expire
  <2>3. CASE UNCHANGED vars
    BY <2>1, <2>3 DEF vars
  <2> QED
    BY <2>2, <2>3, AdministrationLives, HandlingLives, AskingLives, RunningLives, WorkingLives,
       FailingLives DEF Next, HandInv
<1> QED
  BY <1>1, <1>2, HandInit, HandInvStep, DeletionSteps, StartsKnown, JobsStep, TypeInit, TypeStep,
     PTL
  DEF Spec, AccountsLeadTheirLives, Life!Spec

\* The life of an account says what its parts mean: in every behaviour of it,
\* the accounts' or any other's, somebody is at the deletion of every account
\* that is doomed.
THEOREM DoomedStayPending == Life!Spec => []Life!DoomedArePending
<1> DEFINE LInv == Life!LifeTypeOK /\ Life!DoomedArePending
<1>1. Life!Init => LInv
  BY DEF Life!Init, Life!LifeTypeOK, Life!DoomedArePending, Life!Stages
<1>2. LInv /\ [Life!Next]_<<Lives, Pending>> => LInv'
  <2> SUFFICES ASSUME Life!LifeTypeOK, Life!DoomedArePending,
                      [Life!Next]_<<Lives, Pending>>
               PROVE  Life!LifeTypeOK' /\ Life!DoomedArePending'
    OBVIOUS
  <2> USE DEF Life!LifeTypeOK, Life!DoomedArePending, Life!Stages, Life!Become
  <2>1. ASSUME NEW u \in Users,
               Life!Register(u) \/ Life!Activate(u) \/ Life!Deactivate(u)
        PROVE  Life!LifeTypeOK' /\ Life!DoomedArePending'
    BY <2>1 DEF Life!Register, Life!Activate, Life!Deactivate
  <2>2. ASSUME NEW u \in Users, Life!Mark(u)
        PROVE  Life!LifeTypeOK' /\ Life!DoomedArePending'
    BY <2>2 DEF Life!Mark
  <2>3. ASSUME NEW u \in Users, Life!Drop(u)
        PROVE  Life!LifeTypeOK' /\ Life!DoomedArePending'
    BY <2>3 DEF Life!Drop
  <2>4. ASSUME NEW users \in SUBSET Users, Life!GiveUp(users)
        PROVE  Life!LifeTypeOK' /\ Life!DoomedArePending'
    BY <2>4 DEF Life!GiveUp
  <2>5. CASE UNCHANGED <<Lives, Pending>>
    BY <2>5
  <2> QED
    BY <2>1, <2>2, <2>3, <2>4, <2>5 DEF Life!Next
<1> QED
  BY <1>1, <1>2, PTL DEF Life!Spec

-----------------------------------------------------------------------------
(* The accounts at rest. *)

\* When no request and no job is under way every name is free again, and a
\* marked account is gone, or active again, or its deletion was given up.
RestIsDeleted ==
    (\A q \in Requests : req[q] = Idle) /\ (\A j \in Manager!Jobs : task[j] = "none")
        => /\ \A j \in Manager!Jobs : j \notin jobs
           /\ \A u \in doomed \ excused : status[u] # "inactive"

\* A deletion leaves nothing half done that no failure or collision accounts
\* for (profile.py:414-513, jobs.py:30-45).
THEOREM RestingAccountsAreDeleted == Spec => []RestIsDeleted
<1>1. DoomedAreDeleted /\ JobsAreKnown => RestIsDeleted
  <2> SUFFICES ASSUME DoomedAreDeleted, JobsAreKnown,
                      \A q \in Requests : req[q] = Idle,
                      \A j \in Manager!Jobs : task[j] = "none"
               PROVE  RestIsDeleted
    BY DEF RestIsDeleted
  <2>1. ~ \E u : u \in InHand(Requests, Manager!Jobs)
    BY HandsAre DEF InHands, MarkedFor, JobFor, Marking, Idle
  <2> QED
    BY <2>1 DEF RestIsDeleted, DoomedAreDeleted, JobsAreKnown
<1> QED
  BY <1>1, MarkedUsersAreDeleted, JobManagersKnowTheirJobs, PTL
=============================================================================
