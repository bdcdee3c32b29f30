--------------------------- MODULE DataDumpProofs ---------------------------
(***************************************************************************)
(* What MCDataDump checks on two users, for any users, any number of       *)
(* requests and any bounds: the types, that a dump about to be mailed has  *)
(* skipped no file, that an uncut one has every file in its archive, that  *)
(* every row of current_dump_state is accounted for, and that tables and   *)
(* worker together implement the DumpService.                              *)
(***************************************************************************)
EXTENDS DataDump, SequenceTheorems, TLAPS

USE DumpAssumption

LEMMA AnyUserIsUser == AnyUser \in Users /\ AnyName \in Names
  BY DEF AnyUser, AnyName

-----------------------------------------------------------------------------
(* DELETE FROM ... WHERE user_id = u, on a table kept as a sequence. *)

\* Deleting a user leaves a table of users.
LEMMA WithoutIsTable ==
  ASSUME NEW s \in Seq(Users), NEW u
  PROVE  Without(s, u) \in Seq(Users)
<1>1. CASE u \notin Range(s)
  BY <1>1 DEF Without
<1>2. CASE u \in Range(s)
  <2> DEFINE n == CHOOSE i \in 1 .. Len(s) : s[i] = u
  <2>1. n \in 1 .. Len(s)
    BY <1>2, LenProperties DEF Range
  <2> HIDE DEF n
  <2>2. Len(s) \in Nat /\ \A i \in 1 .. Len(s) : s[i] \in Users
    BY LenProperties, ElementOfSeq
  <2>3. SubSeq(s, 1, n - 1) \in Seq(Users)
    <3>1. n - 1 \in Int /\ \A i \in 1 .. n - 1 : s[i] \in Users
      BY <2>1, <2>2
    <3> QED
      BY <3>1, SubSeqProperties
  <2>4. SubSeq(s, n + 1, Len(s)) \in Seq(Users)
    <3>1. n + 1 \in Int /\ Len(s) \in Int /\ \A i \in n + 1 .. Len(s) : s[i] \in Users
      BY <2>1, <2>2
    <3> QED
      BY <3>1, SubSeqProperties
  <2>5. SubSeq(s, 1, n - 1) \o SubSeq(s, n + 1, Len(s)) \in Seq(Users)
    BY <2>3, <2>4, ConcatProperties
  <2> QED
    BY <1>2, <2>5 DEF Without, RemoveAt, n
<1> QED
  BY <1>1, <1>2

\* A table has a user at most once; deleting the user leaves the others, once
\* each.
Distinct(s) == \A i, j \in 1 .. Len(s) : s[i] = s[j] => i = j

LEMMA WithoutDeletes ==
  ASSUME NEW s \in Seq(Users), NEW u, Distinct(s)
  PROVE  Distinct(Without(s, u)) /\ Range(Without(s, u)) = Range(s) \ {u}
<1>1. CASE u \notin Range(s)
  BY <1>1 DEF Without
<1>2. CASE u \in Range(s)
  <2> DEFINE n == CHOOSE i \in 1 .. Len(s) : s[i] = u
             low == SubSeq(s, 1, n - 1)
             high == SubSeq(s, n + 1, Len(s))
             t == low \o high
  <2>1. n \in 1 .. Len(s) /\ s[n] = u
    BY <1>2, LenProperties DEF Range
  <2>2. Without(s, u) = t
    BY <1>2 DEF Without, RemoveAt
  <2> HIDE DEF n
  <2>3. Len(s) \in Nat /\ \A i \in 1 .. Len(s) : s[i] \in Users
    BY LenProperties, ElementOfSeq
  <2>4. /\ low \in Seq(Users) /\ Len(low) = n - 1
        /\ \A i \in 1 .. n - 1 : low[i] = s[i]
    <3>1. n - 1 \in Int /\ \A i \in 1 .. n - 1 : s[i] \in Users
      BY <2>1, <2>3
    <3> QED
      BY <2>1, <2>3, <3>1, SubSeqProperties
  <2>5. /\ high \in Seq(Users)
        /\ Len(high) = Len(s) - n
        /\ \A i \in 1 .. Len(s) - n : high[i] = s[n + i]
    <3>1. n + 1 \in Int /\ Len(s) \in Int /\ \A i \in n + 1 .. Len(s) : s[i] \in Users
      BY <2>1, <2>3
    <3>2. /\ high \in Seq(Users)
          /\ Len(high) = IF n + 1 <= Len(s) THEN Len(s) - (n + 1) + 1 ELSE 0
          /\ \A i \in 1 .. Len(s) - (n + 1) + 1 : high[i] = s[(n + 1) + i - 1]
      BY <3>1, SubSeqProperties
    <3> QED
      BY <2>1, <2>3, <3>2
  <2> HIDE DEF low, high
  <2>6. t \in Seq(Users) /\ Len(t) = Len(s) - 1
        /\ \A i \in 1 .. Len(s) - 1 : t[i] = IF i < n THEN s[i] ELSE s[i + 1]
    <3>1. /\ t \in Seq(Users) /\ Len(t) = (n - 1) + (Len(s) - n)
          /\ \A i \in 1 .. (n - 1) + (Len(s) - n) :
                t[i] = IF i <= n - 1 THEN low[i]
                                     ELSE high[i - (n - 1)]
      <4>1. /\ t \in Seq(Users) /\ Len(t) = Len(low) + Len(high)
            /\ \A i \in 1 .. Len(low) + Len(high) :
                  t[i] = IF i <= Len(low) THEN low[i] ELSE high[i - Len(low)]
        BY <2>4, <2>5, ConcatProperties
      <4> QED
        BY <2>4, <2>5, <4>1
    <3> HIDE DEF t
    <3>2. (n - 1) + (Len(s) - n) = Len(s) - 1
      BY <2>1, <2>3
    <3>3. ASSUME NEW i \in 1 .. Len(s) - 1 PROVE t[i] = IF i < n THEN s[i] ELSE s[i + 1]
      <4>1. CASE i < n
        <5>1. i \in 1 .. n - 1 /\ i <= n - 1
          BY <2>1, <2>3, <4>1
        <5> QED
          BY <2>4, <3>1, <3>2, <4>1, <5>1
      <4>2. CASE ~(i < n)
        <5> DEFINE k == i - (n - 1)
        <5>1. k \in 1 .. Len(s) - n /\ n + k = i + 1 /\ ~(i <= n - 1)
          BY <2>1, <2>3, <4>2
        <5>2. t[i] = high[k]
          BY <3>1, <3>2, <5>1
        <5> HIDE DEF k
        <5> QED
          BY <2>5, <4>2, <5>1, <5>2
      <4> QED
        BY <4>1, <4>2
    <3> QED
      BY <3>1, <3>2, <3>3
  <2> HIDE DEF t
  <2> DEFINE at(i) == IF i < n THEN i ELSE i + 1
  <2>7. ASSUME NEW i \in 1 .. Len(t)
        PROVE  at(i) \in 1 .. Len(s) /\ t[i] = s[at(i)] /\ at(i) # n
    <3>1. Len(t) = Len(s) - 1 /\ Len(s) \in Nat /\ n \in 1 .. Len(s) /\ i \in 1 .. Len(s) - 1
      BY <2>1, <2>3, <2>6
    <3>2. at(i) \in 1 .. Len(s) /\ at(i) # n
      BY <3>1
    <3>3. t[i] = s[at(i)]
      BY <2>6, <3>1
    <3> QED
      BY <3>2, <3>3
  <2>8. \A i, j \in Int : at(i) = at(j) => i = j
    BY <2>1, <2>3
  <2>9. ASSUME NEW j \in 1 .. Len(s), s[j] # u
         PROVE  \E i \in 1 .. Len(t) : at(i) = j
    <3>1. j # n /\ Len(t) = Len(s) - 1 /\ Len(s) \in Nat /\ n \in 1 .. Len(s)
      BY <2>1, <2>3, <2>6, <2>9
    <3>2. CASE j < n
      <4>1. j \in 1 .. Len(t) /\ at(j) = j
        BY <3>1, <3>2
      <4> QED
        BY <4>1
    <3>3. CASE ~(j < n)
      <4>1. j - 1 \in 1 .. Len(t) /\ at(j - 1) = j
        BY <3>1, <3>3
      <4> QED
        BY <4>1
    <3> QED
      BY <3>2, <3>3
  <2> HIDE DEF at
  <2>10. ASSUME NEW i \in 1 .. Len(t), NEW j \in 1 .. Len(t), t[i] = t[j]
        PROVE  i = j
    <3>1. at(i) = at(j)
      BY <2>7, <2>10 DEF Distinct
    <3>2. i \in Int /\ j \in Int
      OBVIOUS
    <3> QED
      BY <2>8, <3>1, <3>2
  <2>11. ASSUME NEW i \in 1 .. Len(t)
         PROVE  \E j \in 1 .. Len(s) : t[i] = s[j] /\ s[j] # u
    BY <2>1, <2>7 DEF Distinct
  <2>12. ASSUME NEW j \in 1 .. Len(s), s[j] # u
         PROVE  \E i \in 1 .. Len(t) : t[i] = s[j]
    <3>1. PICK i \in 1 .. Len(t) : at(i) = j
      BY <2>9, <2>12
    <3>2. t[i] = s[at(i)]
      BY <2>7
    <3> QED
      BY <3>1, <3>2
  <2>13. DOMAIN s = 1 .. Len(s) /\ DOMAIN t = 1 .. Len(t)
    BY <2>6, LenProperties
  <2>14. ASSUME NEW x \in Range(t) PROVE x \in Range(s) \ {u}
    BY <2>11, <2>13, <2>14 DEF Range
  <2>15. ASSUME NEW x \in Range(s) \ {u} PROVE x \in Range(t)
    <3>1. PICK j \in 1 .. Len(s) : x = s[j]
      BY <2>13, <2>15 DEF Range
    <3>2. PICK i \in 1 .. Len(t) : t[i] = s[j]
      BY <2>12, <2>15, <3>1
    <3> QED
      BY <2>13, <3>1, <3>2 DEF Range
  <2>16. Range(t) = Range(s) \ {u}
    BY <2>14, <2>15
  <2> QED
    BY <2>2, <2>10, <2>16 DEF Distinct
<1> QED
  BY <1>1, <1>2

\* Deleting the first user of a table leaves the rest of it.
LEMMA WithoutFirst ==
  ASSUME NEW s \in Seq(Users), s # <<>>, Distinct(s)
  PROVE  Without(s, Head(s)) = Tail(s)
<1> DEFINE n == CHOOSE i \in 1 .. Len(s) : s[i] = Head(s)
<1>1. Len(s) \in Nat \ {0} /\ DOMAIN s = 1 .. Len(s) /\ Head(s) = s[1]
  BY EmptySeq, LenProperties, HeadTailProperties
<1>2. 1 \in 1 .. Len(s) /\ Head(s) \in Range(s)
  BY <1>1 DEF Range
<1>3. n \in 1 .. Len(s) /\ s[n] = s[1]
  BY <1>1, <1>2
<1>4. n = 1
  BY <1>2, <1>3 DEF Distinct
<1>5. Without(s, Head(s)) = SubSeq(s, 1, 0) \o SubSeq(s, 2, Len(s))
  <2>1. Without(s, Head(s)) = SubSeq(s, 1, n - 1) \o SubSeq(s, n + 1, Len(s))
    BY <1>2 DEF Without, RemoveAt
  <2> HIDE DEF n
  <2>2. n - 1 = 0 /\ n + 1 = 2
    BY <1>4
  <2> QED
    BY <2>1, <2>2
<1>6. SubSeq(s, 1, 0) = <<>> /\ SubSeq(s, 2, Len(s)) = Tail(s) /\ Tail(s) \in Seq(Users)
  BY SubSeqEmpty, TailIsSubSeq, HeadTailProperties
<1> QED
  BY <1>5, <1>6, ConcatEmptySeq

\* A user put before a list, and a list taken apart.
LEMMA PutFirst ==
  ASSUME NEW s \in Seq(Users), NEW u \in Users
  PROVE  /\ <<u>> \o s \in Seq(Users) /\ <<u>> \o s # <<>>
         /\ Head(<<u>> \o s) = u /\ Tail(<<u>> \o s) = s
<1> DEFINE t == <<u>> \o s
<1>1. <<u>> \in Seq(Users) /\ Len(<<u>>) = 1 /\ <<u>>[1] = u /\ Len(s) \in Nat
  BY LenProperties
<1>2. /\ t \in Seq(Users) /\ Len(t) = 1 + Len(s)
      /\ \A i \in 1 .. 1 + Len(s) : t[i] = IF i <= 1 THEN <<u>>[i] ELSE s[i - 1]
  BY <1>1, ConcatProperties
<1> HIDE DEF t
<1>3. Len(t) # 0 /\ t # <<>>
  BY <1>1, <1>2, EmptySeq
<1>4. t[1] = u /\ \A i \in 1 .. Len(s) : t[i + 1] = s[i]
  BY <1>1, <1>2
<1>5. Head(t) = u
  BY <1>2, <1>3, <1>4, HeadTailProperties
<1>6. /\ Tail(t) \in Seq(Users) /\ Len(Tail(t)) = Len(s)
      /\ \A i \in 1 .. Len(s) : Tail(t)[i] = t[i + 1]
  BY <1>1, <1>2, <1>3, HeadTailProperties
<1>7. Tail(t) = s
  BY <1>4, <1>6, SeqEqual
<1> QED
  BY <1>2, <1>3, <1>5, <1>7 DEF t

LEMMA TakenApart ==
  ASSUME NEW s \in Seq(Users), s # <<>>
  PROVE  <<Head(s)>> \o Tail(s) = s
<1>1. /\ Head(s) \in Users /\ Tail(s) \in Seq(Users) /\ Head(s) = s[1]
      /\ Len(s) \in Nat \ {0} /\ Len(Tail(s)) = Len(s) - 1
      /\ \A i \in 1 .. Len(s) - 1 : Tail(s)[i] = s[i + 1]
  BY HeadTailProperties, EmptySeq, LenProperties
<1>2. <<Head(s)>> \in Seq(Users) /\ Len(<<Head(s)>>) = 1 /\ <<Head(s)>>[1] = Head(s)
  BY <1>1
<1> DEFINE t == <<Head(s)>> \o Tail(s)
<1>3. /\ t \in Seq(Users) /\ Len(t) = 1 + (Len(s) - 1)
      /\ \A i \in 1 .. 1 + (Len(s) - 1) :
            t[i] = IF i <= 1 THEN <<Head(s)>>[i] ELSE Tail(s)[i - 1]
  BY <1>1, <1>2, ConcatProperties
<1> HIDE DEF t
<1>4. ASSUME NEW i \in 1 .. Len(s) PROVE t[i] = s[i]
  <2>1. CASE i = 1
    BY <1>1, <1>2, <1>3, <2>1
  <2>2. CASE i # 1
    <3>1. i - 1 \in 1 .. Len(s) - 1 /\ ~(i <= 1) /\ i \in 1 .. 1 + (Len(s) - 1)
          /\ (i - 1) + 1 = i
      BY <1>1, <2>2
    <3>2. Tail(s)[i - 1] = s[(i - 1) + 1]
      BY <1>1, <3>1
    <3> QED
      BY <1>3, <3>1, <3>2
  <2> QED
    BY <2>1, <2>2
<1>5. Len(t) = Len(s)
  BY <1>1, <1>3
<1> QED
  BY <1>3, <1>4, <1>5, SeqEqual DEF t

\* INSERT of a user who is not in the table adds the user at its end.
LEMMA AppendInserts ==
  ASSUME NEW s \in Seq(Users), NEW u \in Users, Distinct(s), u \notin Range(s)
  PROVE  Distinct(Append(s, u)) /\ Range(Append(s, u)) = Range(s) \cup {u}
<1> DEFINE t == Append(s, u)
<1>1. /\ Len(t) = Len(s) + 1 /\ Len(s) \in Nat /\ t[Len(s) + 1] = u
      /\ \A i \in 1 .. Len(s) : t[i] = s[i]
  BY AppendProperties, LenProperties
<1>2. DOMAIN s = 1 .. Len(s) /\ DOMAIN t = 1 .. Len(t)
  BY AppendProperties, LenProperties
<1> HIDE DEF t
<1>3. \A i \in 1 .. Len(t) : i \in 1 .. Len(s) \/ i = Len(s) + 1
  BY <1>1
<1>4. \A i \in 1 .. Len(s) : s[i] # u
  BY <1>2 DEF Range
<1>5. Distinct(t)
  BY <1>1, <1>3, <1>4 DEF Distinct
<1>6. Range(t) = Range(s) \cup {u}
  BY <1>1, <1>2, <1>3 DEF Range
<1> QED
  BY <1>5, <1>6 DEF t

-----------------------------------------------------------------------------
(* The types. *)

\* The types by parts, and what they need of the worker: it writes only files
\* there are.
TablesOK   == /\ files \in [Users -> 0 .. MaxFiles]
              /\ username \in [Users -> Names] /\ renames \in 0 .. MaxMishaps
              /\ queue \in Seq(Users) /\ order \in Seq(Users)
              /\ current \in [Users -> 0 .. MaxFiles] /\ total \in [Users -> 0 .. MaxFiles]
ArchivesOK == /\ archive \in [Users -> [Names -> SUBSET FileIds]]
              /\ wname \in Names /\ wzip \subseteq FileIds
              /\ written \in [Users -> SUBSET FileIds]
WorkerOK   == /\ wpc \in {"none", "state", "resume", "queue", "dequeue", "insert", "open",
                          "write", "update", "dispatch", "remove", "stop"}
              /\ wuser \in Users /\ wid \in 0 .. MaxFiles /\ after \in {"state", "queue"}
              /\ wpc \in {"write", "update"} => wid # 0
RequestsOK == /\ rpc \in [Requests -> {"idle", "checkqueue", "insert", "start"}]
              /\ ruser \in [Requests -> Users]
HistoryOK  == /\ faults \in 0 .. MaxMishaps
              /\ unfinished \subseteq Users /\ interrupted \subseteq Users

Typed == TablesOK /\ ArchivesOK /\ WorkerOK /\ RequestsOK /\ HistoryOK

LEMMA TypeInit == Init => Typed
<1>1. <<>> \in Seq(Users)
  BY EmptySeq
<1> QED
  BY <1>1, AnyUserIsUser DEF Init, Typed, TablesOK, ArchivesOK, WorkerOK, RequestsOK, HistoryOK

LEMMA CutIsArchive ==
  ASSUME ArchivesOK, WorkerOK, ZipCut
  PROVE  archive' \in [Users -> [Names -> SUBSET FileIds]]
<1>1. CASE archive' = archive
  BY <1>1 DEF ArchivesOK
<1>2. CASE archive' = [archive EXCEPT ![wuser][wname] = {}]
  BY <1>2 DEF ArchivesOK, WorkerOK
<1> QED
  BY <1>1, <1>2 DEF ZipCut

LEMMA TypeStep == Typed /\ [Next]_vars => Typed'
<1> SUFFICES ASSUME TablesOK, ArchivesOK, WorkerOK, RequestsOK, HistoryOK, [Next]_vars
             PROVE  Typed'
  BY DEF Typed
<1> USE AnyUserIsUser DEF userVars, tables, workerVars, requestVars, historyVars, Locals, NoZip,
                          HasZip, ZipFound
<1>1. ASSUME NEW q \in Requests, NEW u \in Users, CheckState(q, u) PROVE Typed'
  <2>1. TablesOK' /\ ArchivesOK'
    BY <1>1 DEF CheckState, TablesOK, ArchivesOK
  <2>2. WorkerOK' /\ RequestsOK' /\ HistoryOK'
    BY <1>1 DEF CheckState, WorkerOK, RequestsOK, HistoryOK
  <2> QED
    BY <2>1, <2>2 DEF Typed
<1>2. ASSUME NEW q \in Requests, CheckQueue(q) PROVE Typed'
  <2>1. TablesOK' /\ ArchivesOK'
    BY <1>2 DEF CheckQueue, TablesOK, ArchivesOK, RequestReturns, RequestGoto
  <2>2. WorkerOK' /\ RequestsOK' /\ HistoryOK'
    BY <1>2 DEF CheckQueue, WorkerOK, RequestsOK, HistoryOK, RequestReturns, RequestGoto
  <2> QED
    BY <2>1, <2>2 DEF Typed
<1>3. ASSUME NEW q \in Requests, InsertQueue(q) PROVE Typed'
  <2>1. Append(queue, ruser[q]) \in Seq(Users)
    BY AppendProperties DEF TablesOK, RequestsOK
  <2>2. TablesOK'
    BY <1>3, <2>1 DEF InsertQueue, TablesOK
  <2>3. ArchivesOK' /\ WorkerOK' /\ HistoryOK'
    BY <1>3 DEF InsertQueue, ArchivesOK, WorkerOK, HistoryOK
  <2>4. RequestsOK'
    BY <1>3 DEF InsertQueue, RequestsOK, RequestReturns, RequestGoto
  <2> QED
    BY <2>2, <2>3, <2>4 DEF Typed
<1>4. ASSUME NEW q \in Requests, StartWorker(q) PROVE Typed'
  <2>1. TablesOK' /\ ArchivesOK'
    BY <1>4 DEF StartWorker, TablesOK, ArchivesOK, RequestReturns
  <2>2. WorkerOK' /\ RequestsOK' /\ HistoryOK'
    BY <1>4 DEF StartWorker, WorkerOK, RequestsOK, HistoryOK, RequestReturns
  <2> QED
    BY <2>1, <2>2 DEF Typed
<1>5. CASE FetchState
  <2>1. order # <<>> => Head(order) \in Users
    BY HeadTailProperties DEF TablesOK
  <2>2. TablesOK' /\ RequestsOK' /\ HistoryOK'
    BY <1>5 DEF FetchState, TablesOK, RequestsOK, HistoryOK
  <2>3. ArchivesOK' /\ WorkerOK'
    BY <1>5, <2>1 DEF FetchState, ArchivesOK, WorkerOK
  <2> QED
    BY <2>2, <2>3 DEF Typed
<1>6. CASE Resume
  <2>1. TablesOK' /\ RequestsOK' /\ HistoryOK'
    BY <1>6 DEF Resume, TablesOK, RequestsOK, HistoryOK
  <2>2. ArchivesOK'
    BY <1>6 DEF Resume, ArchivesOK, WorkerOK, TablesOK
  <2>3. WorkerOK'
    BY <1>6 DEF Resume, WorkerOK, FilesFrom, TablesOK
  <2> QED
    BY <2>1, <2>2, <2>3 DEF Typed
<1>7. CASE FetchQueue
  <2>1. queue # <<>> => Head(queue) \in Users
    BY HeadTailProperties DEF TablesOK
  <2>2. TablesOK' /\ RequestsOK' /\ HistoryOK'
    BY <1>7 DEF FetchQueue, TablesOK, RequestsOK, HistoryOK
  <2>3. ArchivesOK' /\ WorkerOK'
    BY <1>7, <2>1 DEF FetchQueue, ArchivesOK, WorkerOK
  <2> QED
    BY <2>2, <2>3 DEF Typed
<1>8. CASE Dequeue
  <2>1. Without(queue, wuser) \in Seq(Users)
    BY WithoutIsTable DEF TablesOK
  <2>2. TablesOK'
    BY <1>8, <2>1 DEF Dequeue, TablesOK
  <2>3. ArchivesOK' /\ WorkerOK' /\ RequestsOK' /\ HistoryOK'
    BY <1>8 DEF Dequeue, ArchivesOK, WorkerOK, RequestsOK, HistoryOK
  <2> QED
    BY <2>2, <2>3 DEF Typed
<1>9. CASE InsertState
  <2>1. Append(order, wuser) \in Seq(Users)
    BY AppendProperties DEF TablesOK, WorkerOK
  <2>2. (IF files[wuser] = 0 THEN 0 ELSE 1) \in 0 .. MaxFiles
    BY DEF TablesOK, WorkerOK
  <2>3. TablesOK'
    BY <1>9, <2>1, <2>2 DEF InsertState, TablesOK, WorkerOK
  <2>4. WorkerOK'
    BY <1>9, <2>2 DEF InsertState, WorkerOK
  <2>5. ArchivesOK' /\ RequestsOK' /\ HistoryOK'
    BY <1>9 DEF InsertState, ArchivesOK, RequestsOK, HistoryOK
  <2> QED
    BY <2>3, <2>4, <2>5 DEF Typed
<1>10. CASE OpenZip
  <2>1. TablesOK' /\ RequestsOK' /\ HistoryOK'
    BY <1>10 DEF OpenZip, TablesOK, RequestsOK, HistoryOK
  <2>2. ArchivesOK'
    BY <1>10 DEF OpenZip, ArchivesOK, TablesOK, WorkerOK
  <2>3. WorkerOK'
    BY <1>10 DEF OpenZip, WorkerOK, FilesFrom
  <2> QED
    BY <2>1, <2>2, <2>3 DEF Typed
<1>11. CASE WriteFile
  <2>1. wid \in FileIds
    BY <1>11 DEF WriteFile, WorkerOK, FileIds
  <2>2. TablesOK' /\ RequestsOK' /\ HistoryOK'
    BY <1>11 DEF WriteFile, TablesOK, RequestsOK, HistoryOK
  <2>3. ArchivesOK'
    BY <1>11, <2>1 DEF WriteFile, ArchivesOK
  <2>4. WorkerOK'
    BY <1>11 DEF WriteFile, WorkerOK
  <2> QED
    BY <2>2, <2>3, <2>4 DEF Typed
<1>12. CASE UpdateState
  <2>1. TablesOK'
    BY <1>12 DEF UpdateState, TablesOK, WorkerOK
  <2>2. WorkerOK'
    <3>1. /\ UNCHANGED <<wuser, after>>
          /\ \/ wid < files[wuser] /\ wpc' = "write" /\ wid' = wid + 1
             \/ wpc' = "dispatch" /\ wid' = 0
      BY <1>12 DEF UpdateState
    <3>2. files[wuser] \in 0 .. MaxFiles /\ wid \in 0 .. MaxFiles
      BY DEF TablesOK, WorkerOK
    <3>3. wid' \in 0 .. MaxFiles /\ (wpc' = "write" => wid' # 0) /\ wpc' \in {"write", "dispatch"}
      BY <3>1, <3>2
    <3> QED
      BY <3>1, <3>3 DEF WorkerOK
  <2>3. ArchivesOK' /\ RequestsOK' /\ HistoryOK'
    BY <1>12 DEF UpdateState, ArchivesOK, RequestsOK, HistoryOK
  <2> QED
    BY <2>1, <2>2, <2>3 DEF Typed
<1>13. CASE Dispatch
  <2>1. TablesOK' /\ RequestsOK'
    BY <1>13 DEF Dispatch, TablesOK, RequestsOK
  <2>2. ArchivesOK'
    BY <1>13 DEF Dispatch, ArchivesOK, CloseZip, WorkerOK
  <2>3. WorkerOK'
    BY <1>13 DEF Dispatch, WorkerOK, CloseZip
  <2>4. HistoryOK'
    BY <1>13 DEF Dispatch, HistoryOK, WorkerOK
  <2> QED
    BY <2>1, <2>2, <2>3, <2>4 DEF Typed
<1>14. CASE RemoveState
  <2>1. Without(order, wuser) \in Seq(Users)
    BY WithoutIsTable DEF TablesOK
  <2>2. TablesOK'
    BY <1>14, <2>1, 0 \in 0 .. MaxFiles DEF RemoveState, TablesOK
  <2>3. ArchivesOK'
    BY <1>14 DEF RemoveState, ArchivesOK, CloseZip, WorkerOK
  <2>4. WorkerOK'
    BY <1>14 DEF RemoveState, WorkerOK, CloseZip
  <2>5. RequestsOK' /\ HistoryOK'
    BY <1>14 DEF RemoveState, RequestsOK, HistoryOK
  <2> QED
    BY <2>2, <2>3, <2>4, <2>5 DEF Typed
<1>15. CASE WorkerStops
  <2>1. TablesOK' /\ ArchivesOK' /\ RequestsOK' /\ HistoryOK'
    BY <1>15 DEF WorkerStops, TablesOK, ArchivesOK, RequestsOK, HistoryOK
  <2>2. WorkerOK'
    BY <1>15 DEF WorkerStops, WorkerOK
  <2> QED
    BY <2>1, <2>2 DEF Typed
<1>16. ASSUME NEW u \in Users, Upload(u) PROVE Typed'
  <2>1. TablesOK'
    <3>1. /\ files' = [files EXCEPT ![u] = files[u] + 1] /\ files[u] < MaxFiles
          /\ UNCHANGED <<username, renames, queue, order, current, total>>
      BY <1>16 DEF Upload
    <3>2. files[u] + 1 \in 0 .. MaxFiles
      <4>1. files[u] \in 0 .. MaxFiles /\ MaxFiles \in Nat
        BY DEF TablesOK
      <4> QED
        BY <3>1, <4>1
    <3>3. files' \in [Users -> 0 .. MaxFiles]
      BY <3>1, <3>2 DEF TablesOK
    <3> QED
      BY <3>1, <3>3 DEF TablesOK
  <2>2. ArchivesOK' /\ WorkerOK' /\ RequestsOK' /\ HistoryOK'
    BY <1>16 DEF Upload, ArchivesOK, WorkerOK, RequestsOK, HistoryOK
  <2> QED
    BY <2>1, <2>2 DEF Typed
<1>17. CASE Crash
  <2>1. TablesOK'
    BY <1>17 DEF Crash, TablesOK
  <2>2. ArchivesOK'
    <3>1. archive' \in [Users -> [Names -> SUBSET FileIds]]
      BY <1>17, CutIsArchive DEF Crash, ArchivesOK
    <3> QED
      BY <1>17, <3>1 DEF Crash, ArchivesOK
  <2>3. WorkerOK' /\ RequestsOK'
    BY <1>17 DEF Crash, WorkerOK, RequestsOK
  <2>4. HistoryOK'
    <3>1. faults + 1 \in 0 .. MaxMishaps
      BY <1>17 DEF Crash, MayMishap, HistoryOK, TablesOK
    <3> QED
      BY <1>17, <3>1 DEF Crash, HistoryOK, WorkerOK
  <2> QED
    BY <2>1, <2>2, <2>3, <2>4 DEF Typed
<1>18. CASE UNCHANGED vars
  <2>1. TablesOK' /\ ArchivesOK' /\ WorkerOK' /\ RequestsOK' /\ HistoryOK'
    BY <1>18 DEF vars, TablesOK, ArchivesOK, WorkerOK, RequestsOK, HistoryOK
  <2> QED
    BY <2>1 DEF Typed
<1>19. ASSUME NEW u \in Users, NEW n \in Names, CleanArchive(u, n) PROVE Typed'
  <2>1. TablesOK' /\ WorkerOK' /\ RequestsOK'
    BY <1>19 DEF CleanArchive, TablesOK, WorkerOK, RequestsOK
  <2>2. ArchivesOK' /\ HistoryOK'
    BY <1>19 DEF CleanArchive, ArchivesOK, HistoryOK
  <2> QED
    BY <2>1, <2>2 DEF Typed
<1>20. ASSUME NEW u \in Users, NEW n \in Names, ChangeName(u, n) PROVE Typed'
  <2>1. renames + 1 \in 0 .. MaxMishaps
    BY <1>20 DEF ChangeName, MayMishap, HistoryOK, TablesOK
  <2>2. TablesOK'
    BY <1>20, <2>1 DEF ChangeName, TablesOK
  <2>3. ArchivesOK' /\ WorkerOK' /\ RequestsOK' /\ HistoryOK'
    BY <1>20 DEF ChangeName, ArchivesOK, WorkerOK, RequestsOK, HistoryOK
  <2> QED
    BY <2>2, <2>3 DEF Typed
<1>21. ASSUME DumpFails \/ WorkerFails PROVE Typed'
  <2>1. TablesOK' /\ RequestsOK'
    BY <1>21 DEF DumpFails, WorkerFails, TablesOK, RequestsOK
  <2>2. ArchivesOK'
    <3>1. archive' \in [Users -> [Names -> SUBSET FileIds]]
      <4>1. \/ archive' = archive \/ ZipCut
            \/ archive' = [archive EXCEPT ![wuser][wname] = wzip]
        BY <1>21 DEF DumpFails, WorkerFails, CloseZip
      <4>2. [archive EXCEPT ![wuser][wname] = wzip] \in [Users -> [Names -> SUBSET FileIds]]
        BY DEF ArchivesOK, WorkerOK
      <4> QED
        BY <4>1, <4>2, CutIsArchive DEF ArchivesOK
    <3> QED
      BY <1>21, <3>1 DEF DumpFails, WorkerFails, CloseZip, ArchivesOK
  <2>3. WorkerOK'
    BY <1>21 DEF DumpFails, WorkerFails, CloseZip, WorkerOK
  <2>4. HistoryOK'
    <3>1. faults + 1 \in 0 .. MaxMishaps
      BY <1>21 DEF DumpFails, WorkerFails, MayMishap, HistoryOK, TablesOK
    <3> QED
      BY <1>21, <3>1 DEF DumpFails, WorkerFails, HistoryOK, WorkerOK
  <2> QED
    BY <2>1, <2>2, <2>3, <2>4 DEF Typed
<1> QED
  BY <1>1, <1>2, <1>3, <1>4, <1>5, <1>6, <1>7, <1>8, <1>9, <1>10, <1>11, <1>12, <1>13,
     <1>14, <1>15, <1>16, <1>17, <1>18, <1>19, <1>20, <1>21
  DEF Next, RequestSteps, WorkerSteps, DumpSteps

\* The two tables stay tables of users and every id stays the id of a file, for
\* any users, requests and bounds.
THEOREM TypeCorrect == Spec => []TypeOK
<1>1. Typed => TypeOK
  BY DEF Typed, TypeOK, TablesOK, ArchivesOK, WorkerOK, RequestsOK, HistoryOK
<1> QED
  BY TypeInit, TypeStep, <1>1, PTL DEF Spec, Safety
-----------------------------------------------------------------------------
(* No file is skipped.  That a dump about to be mailed is complete is not    *)
(* inductive: it rests on what the rows and the worker say on the way there. *)

\* The files before file i of a user: those a row at i says are written.
Before(i) == {j \in FileIds : j < i}

\* When a dump is about to be mailed, every file the user had when it began
\* has been written to an archive of it, whatever faults, refused mails and
\* resumptions there were.
NothingSkipped ==
    wpc \in {"dispatch", "remove"} => 1 .. total[wuser] \subseteq written[wuser]

\* A row never runs ahead of the files, nor does the worker.
RowsBehind ==
    \A u \in Users :
        /\ total[u] <= files[u] /\ current[u] <= files[u]
        /\ current[u] = 0 => total[u] = 0
        /\ Before(current[u]) \subseteq written[u]

WorkerBehind ==
    /\ wpc = "open" => wid = current[wuser] /\ wid <= 1
    /\ wpc \in {"write", "update"} => /\ wid \in 1 .. files[wuser]
                                      /\ Before(wid) \subseteq written[wuser]
    /\ wpc = "update" => wid \in written[wuser]

Behind == RowsBehind /\ WorkerBehind /\ NothingSkipped

LEMMA BehindInit == Init => Behind
  BY DEF Init, Behind, RowsBehind, WorkerBehind, NothingSkipped, Before, FileIds

\* The requests touch nothing the invariant is about; a worker that starts is
\* not at a file.
LEMMA RequestsKeepBehind ==
  ASSUME Behind, UNCHANGED <<files, current, total, written, wuser, wid>>,
         wpc' = wpc \/ wpc' \in {"none", "state", "queue", "dequeue", "insert", "stop"}
  PROVE  Behind'
  BY DEF Behind, RowsBehind, WorkerBehind, NothingSkipped, Before

LEMMA BehindStep == Typed /\ Behind /\ [Next]_vars => Behind'
<1> SUFFICES ASSUME TablesOK, ArchivesOK, WorkerOK, Behind, [Next]_vars PROVE Behind'
  BY DEF Typed
<1> USE DEF userVars, tables, workerVars, requestVars, historyVars
<1>1. ASSUME NEW q \in Requests, NEW u \in Users, CheckState(q, u) PROVE Behind'
  BY <1>1, RequestsKeepBehind DEF CheckState
<1>2. ASSUME NEW q \in Requests, RequestSteps(q) PROVE Behind'
  BY <1>2, RequestsKeepBehind DEF RequestSteps, CheckQueue, InsertQueue, StartWorker
<1>3. CASE FetchState
  <2>1. wpc' \in {"resume", "queue"} /\ UNCHANGED <<files, current, total, written>>
    BY <1>3 DEF FetchState
  <2> QED
    BY <2>1 DEF Behind, RowsBehind, WorkerBehind, NothingSkipped, Before
<1>4. CASE Resume
  <2>1. UNCHANGED <<files, current, total, written>> /\ wuser' = wuser /\ wid' = current[wuser]
    BY <1>4 DEF Resume, Locals
  <2>2. wpc' = IF wid' = 0 THEN "dispatch" ELSE "write"
    BY <1>4, <2>1 DEF Resume, FilesFrom
  <2>3. RowsBehind'
    BY <2>1 DEF Behind, RowsBehind, Before
  <2>4. WorkerBehind'
    BY <2>1, <2>2 DEF Behind, RowsBehind, WorkerBehind, Before, TablesOK, WorkerOK
  <2>5. NothingSkipped'
    BY <2>1, <2>2 DEF Behind, RowsBehind, NothingSkipped, TablesOK, WorkerOK
  <2> QED
    BY <2>3, <2>4, <2>5 DEF Behind
<1>5. CASE FetchQueue
  <2>1. wpc' \in {"dequeue", "stop"} /\ UNCHANGED <<files, current, total, written>>
    BY <1>5 DEF FetchQueue
  <2> QED
    BY <2>1 DEF Behind, RowsBehind, WorkerBehind, NothingSkipped, Before
<1>6. CASE Dequeue
  BY <1>6, RequestsKeepBehind DEF Dequeue
<1>7. CASE InsertState
  <2>1. CASE InState(wuser)
    <3>1. wpc' = "stop" /\ UNCHANGED <<files, current, total, written>>
      BY <1>7, <2>1 DEF InsertState
    <3> QED
      BY <3>1 DEF Behind, RowsBehind, WorkerBehind, NothingSkipped, Before
  <2>2. CASE ~InState(wuser)
    <3> DEFINE first == IF files[wuser] = 0 THEN 0 ELSE 1
    <3>1. /\ current' = [current EXCEPT ![wuser] = first] /\ wid' = first
          /\ total' = [total EXCEPT ![wuser] = files[wuser]]
          /\ wpc' = "open" /\ UNCHANGED <<files, written, wuser>>
      BY <1>7, <2>2 DEF InsertState
    <3>2. first <= 1 /\ first <= files[wuser] /\ (first = 0 => files[wuser] = 0)
      BY DEF TablesOK, WorkerOK
    <3>3. Before(first) = {}
      BY <3>2 DEF Before, FileIds
    <3> HIDE DEF first
    <3>4. RowsBehind'
      <4>1. \A u \in Users : /\ current'[u] = IF u = wuser THEN first ELSE current[u]
                             /\ total'[u] = IF u = wuser THEN files[u] ELSE total[u]
                             /\ files[u] <= files[u]
        BY <3>1 DEF TablesOK
      <4> QED
        BY <3>1, <3>2, <3>3, <4>1 DEF Behind, RowsBehind, Before
    <3>5. WorkerBehind' /\ NothingSkipped'
      BY <3>1, <3>2 DEF WorkerBehind, NothingSkipped, TablesOK, WorkerOK
    <3> QED
      BY <3>4, <3>5 DEF Behind
  <2> QED
    BY <2>1, <2>2
<1>8. CASE OpenZip
  <2>1. /\ UNCHANGED <<files, current, total, written, wuser, wid>> /\ wpc = "open"
        /\ wpc' = IF wid = 0 THEN "dispatch" ELSE "write"
    BY <1>8 DEF OpenZip, FilesFrom
  <2>2. wid = current[wuser] /\ wid <= files[wuser] /\ (wid = 0 => total[wuser] = 0)
        /\ Before(wid) \subseteq written[wuser]
    BY <2>1 DEF Behind, WorkerBehind, RowsBehind, WorkerOK
  <2>3. RowsBehind'
    BY <2>1 DEF Behind, RowsBehind, Before
  <2>4. WorkerBehind' /\ NothingSkipped'
    BY <2>1, <2>2 DEF WorkerBehind, NothingSkipped, Before, WorkerOK, TablesOK
  <2> QED
    BY <2>3, <2>4 DEF Behind
<1>9. CASE WriteFile
  <2>1. /\ UNCHANGED <<files, current, total, wuser, wid>> /\ wpc = "write" /\ wpc' = "update"
        /\ written' = [written EXCEPT ![wuser] = @ \cup {wid}]
    BY <1>9 DEF WriteFile
  <2>2. wid \in written'[wuser] /\ \A u \in Users : written[u] \subseteq written'[u]
    BY <2>1 DEF WorkerOK, ArchivesOK
  <2>3. RowsBehind'
    BY <2>1, <2>2 DEF Behind, RowsBehind, Before
  <2>4. WorkerBehind' /\ NothingSkipped'
    BY <2>1, <2>2 DEF Behind, WorkerBehind, NothingSkipped, Before, WorkerOK
  <2> QED
    BY <2>3, <2>4 DEF Behind
<1>10. CASE UpdateState
  <2>1. /\ UNCHANGED <<files, total, written, wuser>> /\ wpc = "update"
        /\ current' = [current EXCEPT ![wuser] = wid]
        /\ \/ wid < files[wuser] /\ wpc' = "write" /\ wid' = wid + 1
           \/ ~(wid < files[wuser]) /\ wpc' = "dispatch"
    BY <1>10 DEF UpdateState
  <2>2. wid \in 1 .. files[wuser] /\ Before(wid) \cup {wid} \subseteq written[wuser]
    BY <2>1 DEF Behind, WorkerBehind
  <2>3. Before(wid + 1) \subseteq written[wuser]
    BY <2>2 DEF Before, FileIds, WorkerOK
  <2>4. RowsBehind'
    <3>1. \A u \in Users : current'[u] = IF u = wuser THEN wid ELSE current[u]
      BY <2>1 DEF TablesOK
    <3>2. wid <= files[wuser] /\ wid # 0 /\ Before(wid) \subseteq written[wuser]
      BY <2>2 DEF TablesOK, WorkerOK
    <3> QED
      BY <2>1, <3>1, <3>2 DEF Behind, RowsBehind, Before
  <2>5. WorkerBehind'
    <3>1. wid < files[wuser] => wid + 1 \in 1 .. files[wuser]
      BY <2>2 DEF TablesOK, WorkerOK
    <3> QED
      BY <2>1, <2>3, <3>1 DEF WorkerBehind, Before
  <2>6. NothingSkipped'
    <3>1. ~(wid < files[wuser]) => 1 .. total[wuser] \subseteq Before(wid + 1)
      BY DEF Behind, RowsBehind, Before, FileIds, TablesOK, WorkerOK
    <3> QED
      BY <2>1, <2>3, <3>1 DEF NothingSkipped
  <2> QED
    BY <2>4, <2>5, <2>6 DEF Behind
<1>11. CASE Dispatch
  <2>1. UNCHANGED <<files, current, total, written>> /\ wpc = "dispatch"
    BY <1>11 DEF Dispatch
  <2>2. (wpc' = "remove" /\ wuser' = wuser) \/ wpc' \in {"state", "queue"}
    BY <1>11 DEF Dispatch, CloseZip, WorkerOK
  <2> QED
    BY <2>1, <2>2 DEF Behind, RowsBehind, WorkerBehind, NothingSkipped, Before
<1>12. CASE RemoveState
  <2>1. /\ current' = [current EXCEPT ![wuser] = 0] /\ total' = [total EXCEPT ![wuser] = 0]
        /\ written' = [written EXCEPT ![wuser] = {}] /\ files' = files
        /\ wpc' \in {"state", "queue"}
    BY <1>12 DEF RemoveState, CloseZip, WorkerOK
  <2>2. Before(0) = {}
    BY DEF Before, FileIds
  <2>3. RowsBehind'
    BY <2>1, <2>2 DEF Behind, RowsBehind, Before, TablesOK, ArchivesOK
  <2> QED
    BY <2>1, <2>3 DEF Behind, WorkerBehind, NothingSkipped
<1>13. CASE WorkerStops
  BY <1>13, RequestsKeepBehind DEF WorkerStops
<1>14. ASSUME NEW u \in Users, Upload(u) PROVE Behind'
  <2>1. /\ UNCHANGED <<current, total, written, wpc, wuser, wid>>
        /\ \A v \in Users : files[v] <= files'[v] /\ files'[v] \in Nat
    <3>1. /\ UNCHANGED <<current, total, written, wpc, wuser, wid>>
          /\ files' = [files EXCEPT ![u] = files[u] + 1]
      BY <1>14 DEF Upload
    <3>2. \A v \in Users : files[v] \in Nat
      BY DEF TablesOK
    <3>3. \A v \in Users : files'[v] = IF v = u THEN files[v] + 1 ELSE files[v]
      BY <3>1 DEF TablesOK
    <3>4. \A v \in Users : files[v] <= files'[v] /\ files'[v] \in Nat
      BY <3>2, <3>3
    <3> QED
      BY <3>1, <3>4
  <2>2. RowsBehind'
    <3>1. \A v \in Users : /\ current[v] <= files[v] /\ total[v] <= files[v]
                           /\ current[v] \in Nat /\ total[v] \in Nat /\ files[v] \in Nat
      BY DEF Behind, RowsBehind, TablesOK
    <3>2. \A v \in Users : current[v] <= files'[v] /\ total[v] <= files'[v]
      BY <2>1, <3>1
    <3> QED
      BY <2>1, <3>2 DEF Behind, RowsBehind, Before
  <2>3. WorkerBehind'
    <3>1. wuser \in Users /\ wid \in Nat /\ files[wuser] \in Nat
      BY DEF TablesOK, WorkerOK
    <3>2. files[wuser] <= files'[wuser] /\ files'[wuser] \in Nat
      BY <2>1, <3>1
    <3>3. wid \in 1 .. files[wuser] => wid \in 1 .. files'[wuser]
      BY <3>1, <3>2
    <3> QED
      BY <2>1, <3>3 DEF Behind, WorkerBehind, Before
  <2>4. NothingSkipped'
    BY <2>1 DEF Behind, NothingSkipped
  <2> QED
    BY <2>2, <2>3, <2>4 DEF Behind
<1>15. CASE Crash
  <2>1. wpc' = "state" /\ UNCHANGED <<files, current, total, written>>
    BY <1>15 DEF Crash
  <2> QED
    BY <2>1 DEF Behind, RowsBehind, WorkerBehind, NothingSkipped, Before
<1>16. CASE UNCHANGED vars
  BY <1>16, RequestsKeepBehind DEF vars
<1>17. ASSUME NEW u \in Users, NEW n \in Names, CleanArchive(u, n) \/ ChangeName(u, n)
       PROVE  Behind'
  BY <1>17, RequestsKeepBehind DEF CleanArchive, ChangeName
<1>18. CASE DumpFails \/ WorkerFails
  <2>1. wpc' \in {"state", "queue", "stop"} /\ UNCHANGED <<files, current, total, written>>
    BY <1>18 DEF DumpFails, WorkerFails, CloseZip, WorkerOK
  <2> QED
    BY <2>1 DEF Behind, RowsBehind, WorkerBehind, NothingSkipped, Before
<1> QED
  BY <1>1, <1>2, <1>3, <1>4, <1>5, <1>6, <1>7, <1>8, <1>9, <1>10, <1>11, <1>12, <1>13,
     <1>14, <1>15, <1>16, <1>17, <1>18
  DEF Next, WorkerSteps, DumpSteps

\* When a dump is about to be mailed every file the user had when it began has
\* been written, whatever failed or was refused on the way, for any users,
\* requests, files and faults.
THEOREM SkipsNothing == Spec => []NothingSkipped
<1>1. Behind => NothingSkipped
  BY DEF Behind
<1> QED
  BY TypeInit, TypeStep, BehindInit, BehindStep, <1>1, PTL DEF Spec, Safety
-----------------------------------------------------------------------------
(* Nobody stays in current_dump_state without a reason.  Removing a row      *)
(* removes its user because a user has one row.                              *)

Accounted == Distinct(order) /\ RowsAreAccounted

LEMMA AccountedInit == Init => Accounted
<1>1. Init => order = <<>>
  BY DEF Init
<1>2. Distinct(<<>>) /\ Range(<<>>) = {}
  BY EmptySeq DEF Distinct, Range
<1> QED
  BY <1>1, <1>2 DEF Accounted, RowsAreAccounted

\* Steps that touch no row, and do not leave the user the worker is at.
LEMMA SameRowsStayAccounted ==
  ASSUME Accounted, order' = order,
         unfinished \subseteq unfinished', interrupted \subseteq interrupted',
         \/ wpc \notin {"open", "write", "update", "dispatch", "remove"}
         \/ wuser \in unfinished' \cup interrupted'
         \/ wuser' = wuser /\ wpc' \in {"open", "write", "update", "dispatch", "remove"}
  PROVE  Accounted'
  BY DEF Accounted, RowsAreAccounted

LEMMA AccountedStep == Typed /\ Accounted /\ [Next]_vars => Accounted'
<1> SUFFICES ASSUME TablesOK, WorkerOK, Accounted, [Next]_vars PROVE Accounted'
  BY DEF Typed
<1> USE DEF userVars, tables, workerVars, requestVars, historyVars
<1>1. ASSUME NEW q \in Requests, NEW u \in Users, CheckState(q, u) PROVE Accounted'
  BY <1>1 DEF CheckState, Accounted, RowsAreAccounted
<1>2. ASSUME NEW q \in Requests, CheckQueue(q) \/ InsertQueue(q) PROVE Accounted'
  BY <1>2 DEF CheckQueue, InsertQueue, Accounted, RowsAreAccounted
<1>3. ASSUME NEW q \in Requests, StartWorker(q) PROVE Accounted'
  BY <1>3 DEF StartWorker, Accounted, RowsAreAccounted
<1>4. CASE FetchState \/ Resume \/ FetchQueue \/ Dequeue \/ WorkerStops
  BY <1>4, SameRowsStayAccounted DEF FetchState, Resume, FetchQueue, Dequeue, WorkerStops
<1>5. CASE InsertState
  <2>1. CASE InState(wuser)
    BY <1>5, <2>1, SameRowsStayAccounted DEF InsertState
  <2>2. CASE ~InState(wuser)
    <3>1. /\ order' = Append(order, wuser) /\ wpc' = "open" /\ wpc = "insert"
          /\ UNCHANGED <<wuser, unfinished, interrupted>>
      BY <1>5, <2>2 DEF InsertState
    <3>2. Distinct(order') /\ Range(order') = Range(order) \cup {wuser}
      BY <2>2, <3>1, AppendInserts DEF Accounted, InState, TablesOK, WorkerOK
    <3> QED
      BY <3>1, <3>2 DEF Accounted, RowsAreAccounted
  <2> QED
    BY <2>1, <2>2
<1>6. CASE OpenZip
  BY <1>6, SameRowsStayAccounted DEF OpenZip, FilesFrom
<1>7. CASE WriteFile \/ UpdateState
  BY <1>7, SameRowsStayAccounted DEF WriteFile, UpdateState
<1>8. CASE Dispatch
  <2>1. order' = order /\ interrupted' = interrupted
        /\ \/ wpc' = "remove" /\ wuser' = wuser /\ unfinished' = unfinished
           \/ unfinished' = unfinished \cup {wuser}
    BY <1>8 DEF Dispatch
  <2> QED
    BY <2>1, SameRowsStayAccounted
<1>9. CASE RemoveState
  <2>1. /\ order' = Without(order, wuser)
        /\ unfinished' = unfinished \ {wuser} /\ interrupted' = interrupted \ {wuser}
    BY <1>9 DEF RemoveState
  <2>2. Distinct(order') /\ Range(order') \subseteq Range(order) \ {wuser}
    BY <2>1, WithoutDeletes DEF Accounted, TablesOK
  <2> QED
    BY <2>1, <2>2 DEF Accounted, RowsAreAccounted
<1>10. ASSUME NEW u \in Users, Upload(u) PROVE Accounted'
  BY <1>10 DEF Upload, Accounted, RowsAreAccounted
<1>11. CASE Crash
  <2>1. order' = order /\ unfinished' = unfinished /\ interrupted \subseteq interrupted'
        /\ (ZipOpen \/ wpc = "open" => wuser \in interrupted')
    BY <1>11 DEF Crash
  <2> QED
    BY <2>1, SameRowsStayAccounted DEF ZipOpen
<1>12. CASE UNCHANGED vars
  BY <1>12 DEF vars, Accounted, RowsAreAccounted
<1>13. ASSUME NEW u \in Users, NEW n \in Names, CleanArchive(u, n) \/ ChangeName(u, n)
       PROVE  Accounted'
  BY <1>13, SameRowsStayAccounted DEF CleanArchive, ChangeName
<1>14. CASE DumpFails
  <2>1. order' = order /\ wuser \in unfinished'
        /\ unfinished \subseteq unfinished' /\ interrupted \subseteq interrupted'
    BY <1>14 DEF DumpFails
  <2> QED
    BY <2>1, SameRowsStayAccounted
<1>15. CASE WorkerFails
  <2>1. /\ order' = order /\ interrupted' = interrupted /\ unfinished \subseteq unfinished'
        /\ wpc \in {"state", "resume", "queue", "dequeue", "insert", "open"}
        /\ wpc = "open" => wuser \in unfinished'
    BY <1>15 DEF WorkerFails
  <2> QED
    BY <2>1, SameRowsStayAccounted
<1> QED
  BY <1>1, <1>2, <1>3, <1>4, <1>5, <1>6, <1>7, <1>8, <1>9, <1>10, <1>11, <1>12, <1>13,
     <1>14, <1>15
  DEF Next, RequestSteps, WorkerSteps, DumpSteps

\* Besides the user the worker is at, only users whose mail was refused, whose dump
\* an error ended, or whose archive was cut or lost under a new name are in
\* current_dump_state, for any users, requests and faults.
THEOREM RowsAccounted == Spec => []RowsAreAccounted
<1>1. Accounted => RowsAreAccounted
  BY DEF Accounted
<1> QED
  BY TypeInit, TypeStep, AccountedInit, AccountedStep, <1>1, PTL DEF Spec, Safety

-----------------------------------------------------------------------------
(* Where the worker is: at the user it says, who is first in the queue or has a *)
(* row; and a user without a row has nothing written.                          *)

QueueOK == /\ Distinct(queue)
           /\ wpc = "dequeue" => queue # <<>> /\ wuser = Head(queue)

RowOK == /\ wpc \in {"resume", "open", "write", "update", "dispatch", "remove"}
               => InState(wuser)
         /\ \A u \in Users : ~InState(u) => written[u] = {}

Placed == QueueOK /\ RowOK

LEMMA PlacedInit == Init => Placed
<1>1. Distinct(<<>>) /\ Range(<<>>) = {}
  BY EmptySeq DEF Distinct, Range
<1> QED
  BY <1>1 DEF Init, Placed, QueueOK, RowOK, InState

\* Steps that touch neither table and leave the worker where it is, or take it
\* to a place where it has no user in hand.
LEMMA SamePlace ==
  ASSUME Placed, UNCHANGED <<queue, order, written>>,
         UNCHANGED <<wpc, wuser>> \/ wpc' \in {"none", "state", "queue", "insert", "stop"}
  PROVE  Placed'
  BY DEF Placed, QueueOK, RowOK, InState

LEMMA HeadIsUser ==
  ASSUME NEW s \in Seq(Users), s # <<>>
  PROVE  Head(s) \in Users /\ Head(s) \in Range(s)
<1>1. Len(s) \in Nat \ {0} /\ DOMAIN s = 1 .. Len(s) /\ Head(s) = s[1]
  BY EmptySeq, LenProperties, HeadTailProperties
<1> QED
  BY <1>1, HeadTailProperties DEF Range

LEMMA PlacedStep == Typed /\ Accounted /\ Placed /\ [Next]_vars => Placed'
<1> SUFFICES ASSUME TablesOK, ArchivesOK, WorkerOK, RequestsOK, Accounted, Placed, [Next]_vars
             PROVE  Placed'
  BY DEF Typed
<1> USE DEF userVars, tables, workerVars, requestVars, historyVars
<1>1. ASSUME NEW q \in Requests, NEW u \in Users, CheckState(q, u) PROVE Placed'
  BY <1>1, SamePlace DEF CheckState
<1>2. ASSUME NEW q \in Requests, CheckQueue(q) \/ StartWorker(q) PROVE Placed'
  BY <1>2, SamePlace DEF CheckQueue, StartWorker
<1>3. ASSUME NEW q \in Requests, InsertQueue(q) PROVE Placed'
  <2>1. CASE UNCHANGED queue
    BY <1>3, <2>1, SamePlace DEF InsertQueue
  <2>2. CASE ~InQueue(ruser[q]) /\ queue' = Append(queue, ruser[q])
    <3>1. ruser[q] \in Users /\ queue \in Seq(Users)
      BY DEF RequestsOK, TablesOK
    <3>2. Distinct(queue') /\ queue' # <<>> /\ (queue # <<>> => Head(queue') = Head(queue))
      BY <2>2, <3>1, AppendInserts, AppendProperties, HeadTailAppend
         DEF Placed, QueueOK, InQueue
    <3> QED
      BY <1>3, <3>2 DEF InsertQueue, Placed, QueueOK, RowOK, InState
  <2> QED
    BY <1>3, <2>1, <2>2 DEF InsertQueue
<1>4. CASE FetchState
  <2>1. order # <<>> => Head(order) \in Range(order)
    BY HeadIsUser DEF TablesOK
  <2> QED
    BY <1>4, <2>1 DEF FetchState, Locals, Placed, QueueOK, RowOK, InState
<1>5. CASE Resume
  BY <1>5 DEF Resume, Locals, FilesFrom, Placed, QueueOK, RowOK, InState
<1>6. CASE FetchQueue
  BY <1>6 DEF FetchQueue, Locals, Placed, QueueOK, RowOK, InState
<1>7. CASE Dequeue
  <2>1. Distinct(queue') /\ wpc' = "insert" /\ UNCHANGED <<order, written>>
    BY <1>7, WithoutDeletes DEF Dequeue, TablesOK, Placed, QueueOK
  <2> QED
    BY <2>1 DEF Placed, QueueOK, RowOK, InState
<1>8. CASE InsertState
  <2>1. CASE InState(wuser)
    BY <1>8, <2>1, SamePlace DEF InsertState
  <2>2. CASE ~InState(wuser)
    <3>1. Range(order') = Range(order) \cup {wuser}
      BY <1>8, <2>2, AppendInserts DEF InsertState, Accounted, TablesOK, WorkerOK, InState
    <3> QED
      BY <1>8, <2>2, <3>1 DEF InsertState, Placed, QueueOK, RowOK, InState
  <2> QED
    BY <2>1, <2>2
<1>9. CASE OpenZip \/ UpdateState
  BY <1>9 DEF OpenZip, UpdateState, FilesFrom, Placed, QueueOK, RowOK, InState
<1>10. CASE WriteFile
  <2>1. \A u \in Users : u # wuser => written'[u] = written[u]
    BY <1>10 DEF WriteFile, ArchivesOK
  <2> QED
    BY <1>10, <2>1 DEF WriteFile, Placed, QueueOK, RowOK, InState
<1>11. CASE Dispatch
  <2>1. /\ UNCHANGED <<queue, order, written>> /\ wpc = "dispatch"
        /\ (wpc' = "remove" /\ wuser' = wuser) \/ wpc' \in {"state", "queue"}
    BY <1>11 DEF Dispatch, CloseZip, WorkerOK
  <2> QED
    BY <2>1 DEF Placed, QueueOK, RowOK, InState
<1>12. CASE RemoveState
  <2>1. /\ order' = Without(order, wuser) /\ written' = [written EXCEPT ![wuser] = {}]
        /\ wpc' \in {"state", "queue"} /\ queue' = queue
    BY <1>12 DEF RemoveState, CloseZip, WorkerOK
  <2>2. Range(order') = Range(order) \ {wuser}
    BY <2>1, WithoutDeletes DEF Accounted, TablesOK
  <2>3. \A u \in Users : written'[u] = IF u = wuser THEN {} ELSE written[u]
    BY <2>1 DEF ArchivesOK
  <2> QED
    BY <2>1, <2>2, <2>3 DEF Placed, QueueOK, RowOK, InState
<1>13. CASE WorkerStops
  BY <1>13, SamePlace DEF WorkerStops
<1>14. ASSUME NEW u \in Users, NEW n \in Names,
              CleanArchive(u, n) \/ ChangeName(u, n)
       PROVE  Placed'
  BY <1>14, SamePlace DEF CleanArchive, ChangeName
<1>15. CASE Crash
  BY <1>15, SamePlace DEF Crash
<1>16. CASE UNCHANGED vars
  BY <1>16, SamePlace DEF vars
<1>17. CASE DumpFails \/ WorkerFails
  <2>1. UNCHANGED <<queue, order, written>> /\ wpc' \in {"state", "queue", "stop"}
    BY <1>17 DEF DumpFails, WorkerFails, CloseZip, WorkerOK
  <2> QED
    BY <2>1, SamePlace
<1>18. ASSUME NEW u \in Users, Upload(u) PROVE Placed'
  BY <1>18, SamePlace DEF Upload
<1> QED
  BY <1>1, <1>2, <1>3, <1>4, <1>5, <1>6, <1>7, <1>8, <1>9, <1>10, <1>11, <1>12, <1>13,
     <1>14, <1>15, <1>16, <1>17, <1>18
  DEF Next, RequestSteps, WorkerSteps, DumpSteps

-----------------------------------------------------------------------------
(* An archive nothing cut is complete. *)

\* What was said of the files written, of the archive under the user's name, or of
\* the zip file that will become it, as long as neither is cut or left behind.
ZipOf(u) == IF ZipOpen /\ wuser = u THEN wzip ELSE archive[u][username[u]]

ArchiveBehind ==
    /\ \A u \in Users \ interrupted : Before(current[u]) \subseteq ZipOf(u)
    /\ wuser \notin interrupted =>
          /\ ZipOpen => wname = username[wuser]
          /\ wpc \in {"write", "update"} => Before(wid) \subseteq wzip
          /\ wpc = "update" => wid \in wzip

Uncut == ArchiveBehind /\ UncutIsComplete

LEMMA UncutInit == Init => Uncut
  BY DEF Init, Uncut, ArchiveBehind, UncutIsComplete, ZipOf, ZipOpen, Before, FileIds

\* Steps outside an open zip file that change no row and no archive.
LEMMA ClosedKeepsUncut ==
  ASSUME Uncut, ~ZipOpen, ~ZipOpen',
         UNCHANGED <<current, username, archive>>, interrupted \subseteq interrupted'
  PROVE  Uncut'
  BY DEF Uncut, ArchiveBehind, UncutIsComplete, ZipOf, ZipOpen, Before

LEMMA OpenKeepsUncut ==
  ASSUME Uncut,
         UNCHANGED <<current, username, archive, total, wpc, wuser, wid, wname, wzip, interrupted>>
  PROVE  Uncut'
  BY DEF Uncut, ArchiveBehind, UncutIsComplete, ZipOf, ZipOpen, Before

LEMMA RequestsKeepUncut ==
  ASSUME Uncut,
         UNCHANGED <<current, username, archive, total, wuser, wid, wname, wzip, interrupted>>,
         wpc' = wpc \/ (wpc = "none" /\ wpc' = "state")
  PROVE  Uncut'
<1>1. CASE wpc' = wpc
  BY <1>1, OpenKeepsUncut
<1>2. CASE wpc = "none" /\ wpc' = "state"
  BY <1>2, ClosedKeepsUncut DEF ZipOpen
<1> QED
  BY <1>1, <1>2

\* A user without a row has no file to lose, and the one the worker has an archive
\* of has a row.
LEMMA NoRowNoFile ==
  ASSUME Behind, Placed
  PROVE  /\ \A u \in Users : ~InState(u) => Before(current[u]) = {}
         /\ ZipOpen => InState(wuser)
  BY DEF Behind, RowsBehind, Placed, RowOK, ZipOpen

LEMMA UncutStep == Typed /\ Behind /\ Placed /\ Uncut /\ [Next]_vars => Uncut'
<1> SUFFICES ASSUME TablesOK, ArchivesOK, WorkerOK, HistoryOK, Behind, Placed, Uncut,
                    [Next]_vars
             PROVE  Uncut'
  BY DEF Typed
<1> USE DEF userVars, tables, workerVars, requestVars, historyVars
<1>1. ASSUME NEW q \in Requests, NEW u \in Users, CheckState(q, u) PROVE Uncut'
  BY <1>1, RequestsKeepUncut DEF CheckState
<1>2. ASSUME NEW q \in Requests, RequestSteps(q) PROVE Uncut'
  BY <1>2, RequestsKeepUncut DEF RequestSteps, CheckQueue, InsertQueue, StartWorker
<1>3. CASE FetchState \/ FetchQueue \/ Dequeue \/ WorkerStops
  BY <1>3, ClosedKeepsUncut DEF FetchState, FetchQueue, Dequeue, WorkerStops, ZipOpen
<1>4. CASE Resume
  <2>1. /\ UNCHANGED <<current, username, archive, total, interrupted, wuser>> /\ ~ZipOpen
        /\ wid' = current[wuser] /\ wzip' = archive[wuser][username[wuser]]
        /\ wname' = username[wuser]
        /\ wpc' = IF wid' = 0 THEN "dispatch" ELSE "write"
    BY <1>4 DEF Resume, Locals, HasZip, ZipFound, FilesFrom, ZipOpen
  <2>2. ArchiveBehind'
    BY <2>1 DEF Uncut, ArchiveBehind, ZipOf, Before, WorkerOK
  <2>3. UncutIsComplete'
    BY <2>1 DEF Behind, RowsBehind, UncutIsComplete, WorkerOK
  <2> QED
    BY <2>2, <2>3 DEF Uncut
<1>5. CASE InsertState
  <2>1. CASE InState(wuser)
    BY <1>5, <2>1, ClosedKeepsUncut DEF InsertState, ZipOpen
  <2>2. CASE ~InState(wuser)
    <3> DEFINE first == IF files[wuser] = 0 THEN 0 ELSE 1
    <3>1. /\ current' = [current EXCEPT ![wuser] = first] /\ wpc' = "open"
          /\ UNCHANGED <<username, archive, interrupted>> /\ wpc = "insert"
      BY <1>5, <2>2 DEF InsertState
    <3>2. Before(first) = {}
      BY DEF Before, FileIds
    <3> HIDE DEF first
    <3> QED
      BY <3>1, <3>2 DEF Uncut, ArchiveBehind, UncutIsComplete, ZipOf, ZipOpen, Before,
                        TablesOK, WorkerOK
  <2> QED
    BY <2>1, <2>2
<1>6. CASE OpenZip
  <2>1. /\ UNCHANGED <<current, username, total, interrupted, wuser, wid>> /\ wpc = "open"
        /\ archive' = [archive EXCEPT ![wuser][username[wuser]] = {}]
        /\ wname' = username[wuser]
        /\ wpc' = IF wid = 0 THEN "dispatch" ELSE "write"
    BY <1>6 DEF OpenZip, HasZip, FilesFrom
  <2>2. wid = current[wuser] /\ wid <= 1 /\ (wid = 0 => total[wuser] = 0)
    BY <2>1 DEF Behind, WorkerBehind, RowsBehind, WorkerOK
  <2>3. Before(wid) = {}
    BY <2>2 DEF Before, FileIds, WorkerOK
  <2>4. ArchiveBehind'
    BY <2>1, <2>2, <2>3 DEF Uncut, ArchiveBehind, ZipOf, ZipOpen, Before, ArchivesOK, WorkerOK, TablesOK
  <2>5. UncutIsComplete'
    BY <2>1, <2>2 DEF UncutIsComplete
  <2> QED
    BY <2>4, <2>5 DEF Uncut
<1>7. CASE WriteFile
  <2>1. /\ UNCHANGED <<current, username, archive, total, interrupted, wuser, wid, wname>>
        /\ wpc = "write" /\ wpc' = "update" /\ wzip' = wzip \cup {wid}
    BY <1>7 DEF WriteFile
  <2> QED
    BY <2>1 DEF Uncut, ArchiveBehind, UncutIsComplete, ZipOf, ZipOpen, Before
<1>8. CASE UpdateState
  <2>1. /\ UNCHANGED <<files, username, archive, total, interrupted, wuser, wname, wzip>>
        /\ wpc = "update"
        /\ current' = [current EXCEPT ![wuser] = wid]
        /\ \/ wid < files[wuser] /\ wpc' = "write" /\ wid' = wid + 1
           \/ ~(wid < files[wuser]) /\ wpc' = "dispatch"
    BY <1>8 DEF UpdateState
  <2>2. wuser \notin interrupted => Before(wid) \subseteq wzip /\ wid \in wzip
    BY <2>1 DEF Uncut, ArchiveBehind
  <2>3. wuser \notin interrupted => Before(wid + 1) \subseteq wzip
    BY <2>2 DEF Before, FileIds, WorkerOK
  <2>4. ArchiveBehind'
    BY <2>1, <2>2, <2>3 DEF Uncut, ArchiveBehind, ZipOf, ZipOpen, Before, TablesOK, WorkerOK
  <2>5. UncutIsComplete'
    <3>1. ~(wid < files[wuser]) => 1 .. total[wuser] \subseteq Before(wid + 1)
      BY DEF Behind, RowsBehind, Before, FileIds, TablesOK, WorkerOK
    <3> QED
      BY <2>1, <2>3, <3>1 DEF UncutIsComplete
  <2> QED
    BY <2>4, <2>5 DEF Uncut
<1>9. ASSUME ZipOpen, CloseZip, UNCHANGED username,
             current' = current \/ current' = [current EXCEPT ![wuser] = 0],
             \/ interrupted' = interrupted
             \/ interrupted' = interrupted \ {wuser} /\ current' = [current EXCEPT ![wuser] = 0]
      PROVE  Uncut'
  <2>1. archive' = [archive EXCEPT ![wuser][wname] = wzip] /\ wpc' \in {"state", "queue"}
    BY <1>9 DEF CloseZip, WorkerOK
  <2>2. Before(0) = {}
    BY DEF Before, FileIds
  <2>3. ASSUME NEW u \in Users \ interrupted'
        PROVE  Before(current'[u]) \subseteq archive'[u][username[u]]
    <3>1. CASE u # wuser
      BY <1>9, <2>1, <3>1 DEF Uncut, ArchiveBehind, ZipOf, TablesOK, ArchivesOK
    <3>2. CASE u = wuser /\ u \in interrupted
      BY <1>9, <2>2, <3>2 DEF TablesOK
    <3>3. CASE u = wuser /\ u \notin interrupted
      <4>1. Before(current[u]) \subseteq wzip /\ wname = username[u]
        BY <1>9, <3>3 DEF Uncut, ArchiveBehind, ZipOf
      <4>2. archive'[u][username[u]] = wzip
        BY <2>1, <3>3, <4>1 DEF ArchivesOK, TablesOK
      <4>3. current'[u] = current[u] \/ current'[u] = 0
        BY <1>9, <3>3 DEF TablesOK
      <4> QED
        BY <2>2, <4>1, <4>2, <4>3
    <3> QED
      BY <3>1, <3>2, <3>3
  <2> QED
    BY <1>9, <2>1, <2>3 DEF Uncut, ArchiveBehind, UncutIsComplete, ZipOf, ZipOpen, Before
<1>10. CASE Dispatch
  <2>1. CASE wpc' = "remove" /\ UNCHANGED <<archive, wuser, wid, wname, wzip>>
    BY <1>10, <2>1 DEF Dispatch, Uncut, ArchiveBehind, UncutIsComplete, ZipOf, ZipOpen, Before
  <2>2. CASE CloseZip
    <3>1. ZipOpen /\ current' = current /\ interrupted' = interrupted /\ UNCHANGED username
      BY <1>10 DEF Dispatch, ZipOpen
    <3> QED
      BY <2>2, <3>1, <1>9
  <2> QED
    BY <1>10, <2>1, <2>2 DEF Dispatch
<1>11. CASE RemoveState
  BY <1>11, <1>9 DEF RemoveState, ZipOpen
<1>12. ASSUME NEW u \in Users, Upload(u) PROVE Uncut'
  BY <1>12, RequestsKeepUncut DEF Upload
<1>13. ASSUME ZipCut, UNCHANGED <<current, username>>, wpc' \in {"state", "stop"},
              interrupted \subseteq interrupted', ZipOpen => wuser \in interrupted'
       PROVE  Uncut'
  <2>1. ASSUME NEW u \in Users \ interrupted'
        PROVE  Before(current[u]) \subseteq archive'[u][username[u]]
    BY <1>13, <2>1 DEF ZipCut, Uncut, ArchiveBehind, ZipOf, ArchivesOK
  <2> QED
    BY <1>13, <2>1 DEF Uncut, ArchiveBehind, UncutIsComplete, ZipOf, ZipOpen, Before
<1>14. CASE UNCHANGED vars
  BY <1>14, RequestsKeepUncut DEF vars
<1>15. ASSUME NEW u \in Users, NEW n \in Names, CleanArchive(u, n) \/ ChangeName(u, n)
       PROVE  Uncut'
  <2>1. /\ UNCHANGED <<current, total, wpc, wuser, wid, wname, wzip>>
        /\ \A w \in Users : w # u => archive'[w] = archive[w] /\ username'[w] = username[w]
        /\ interrupted \subseteq interrupted' /\ (~InState(u) \/ u \in interrupted')
    BY <1>15 DEF CleanArchive, ChangeName, ArchivesOK, TablesOK
  <2>2. ZipOpen' = ZipOpen
    BY <2>1 DEF ZipOpen
  <2>3. ASSUME NEW w \in Users \ interrupted' PROVE Before(current[w]) \subseteq ZipOf(w)'
    <3>1. CASE w # u
      BY <2>1, <2>2, <3>1 DEF Uncut, ArchiveBehind, ZipOf
    <3>2. CASE w = u
      BY <2>1, <3>2, NoRowNoFile
    <3> QED
      BY <3>1, <3>2
  <2>4. wuser \notin interrupted' /\ ZipOpen => wname = username'[wuser]
    BY <2>1, NoRowNoFile DEF Uncut, ArchiveBehind, WorkerOK
  <2>5. ArchiveBehind'
    <3>1. \A w \in Users \ interrupted' : Before(current'[w]) \subseteq ZipOf(w)'
      BY <2>1, <2>3
    <3> QED
      BY <2>1, <2>2, <2>4, <3>1 DEF Uncut, ArchiveBehind, Before
  <2>6. UncutIsComplete'
    BY <2>1 DEF Uncut, UncutIsComplete
  <2> QED
    BY <2>5, <2>6 DEF Uncut
<1>16. CASE DumpFails
  <2>1. CASE CloseZip /\ UNCHANGED interrupted
    BY <1>16, <2>1, <1>9 DEF DumpFails
  <2>2. CASE ZipCut /\ interrupted' = interrupted \cup {wuser} /\ wpc' = "stop"
    BY <1>16, <2>2, <1>13 DEF DumpFails
  <2> QED
    BY <1>16, <2>1, <2>2 DEF DumpFails
<1>17. CASE WorkerFails
  BY <1>17, ClosedKeepsUncut DEF WorkerFails, ZipOpen
<1>18. CASE Crash
  BY <1>18, <1>13 DEF Crash
<1> QED
  BY <1>1, <1>2, <1>3, <1>4, <1>5, <1>6, <1>7, <1>8, <1>10, <1>11, <1>12, <1>14, <1>15,
     <1>16, <1>17, <1>18
  DEF Next, WorkerSteps, DumpSteps

\* A dump whose archive was neither cut nor lost under a new name is mailed with every
\* file the user had in it, however many mails were refused and errors ended it and
\* however often it resumed.
THEOREM UncutComplete == Spec => []UncutIsComplete
<1>1. Uncut => UncutIsComplete
  BY DEF Uncut
<1> QED
  BY TypeInit, TypeStep, BehindInit, BehindStep, AccountedInit, AccountedStep, PlacedInit,
     PlacedStep, UncutInit, UncutStep, <1>1, PTL
  DEF Spec, Safety

-----------------------------------------------------------------------------
(* The refinement: the tables and the worker are a DumpService. *)

ServiceVars == <<Waiting, Range(order), total, written, Mailed, faults>>

\* A step the service does not see.
LEMMA Unseen ==
  ASSUME UNCHANGED <<queue, order, total, written, faults>>,
         (wpc' = wpc /\ wuser' = wuser) \/ {wpc, wpc'} \cap {"insert", "remove"} = {}
  PROVE  UNCHANGED ServiceVars
  BY DEF ServiceVars, Waiting, Mailed

LEMMA WaitingIsList ==
  ASSUME TablesOK, WorkerOK
  PROVE  /\ Waiting \in Seq(Users)
         /\ wpc = "insert" => /\ Waiting # <<>> /\ Head(Waiting) = wuser
                              /\ Tail(Waiting) = queue
  BY PutFirst DEF TablesOK, WorkerOK, Waiting

\* A request joins the end of the line, also while the worker holds its head.
LEMMA InsertAsks ==
  ASSUME TablesOK, WorkerOK, RequestsOK, NEW q \in Requests, InsertQueue(q)
  PROVE  Service!Next \/ UNCHANGED ServiceVars
<1> USE DEF workerVars, historyVars
<1> DEFINE u == ruser[q]
<1>1. u \in Users /\ queue \in Seq(Users) /\ <<wuser>> \in Seq(Users) /\ <<u>> \in Seq(Users)
  BY DEF RequestsOK, TablesOK, WorkerOK
<1> HIDE DEF u
<1>2. /\ queue' = queue \/ queue' = Append(queue, u)
      /\ UNCHANGED <<order, total, written, faults, wpc, wuser>>
  BY DEF InsertQueue, u
<1>3. CASE queue' = queue
  BY <1>2, <1>3, Unseen
<1>4. CASE queue' = Append(queue, u)
  <2>1. Append(queue, u) = queue \o <<u>>
    BY <1>1, AppendIsConcat
  <2>2. <<wuser>> \o Append(queue, u) = Append(<<wuser>> \o queue, u)
    <3>1. (<<wuser>> \o queue) \o <<u>> = <<wuser>> \o (queue \o <<u>>)
      BY <1>1, ConcatAssociative
    <3>2. Append(<<wuser>> \o queue, u) = (<<wuser>> \o queue) \o <<u>>
      BY <1>1, ConcatProperties, AppendIsConcat
    <3> QED
      BY <2>1, <3>1, <3>2
  <2>3. Waiting' = Append(Waiting, u) /\ UNCHANGED <<Mailed, Range(order)>>
    BY <1>2, <1>4, <2>2 DEF Waiting, Mailed
  <2>4. Service!Ask(u)
    BY <1>2, <2>3 DEF Service!Ask
  <2> QED
    BY <1>1, <2>4 DEF Service!Next
<1> QED
  BY <1>2, <1>3, <1>4

LEMMA StateBegins ==
  ASSUME TablesOK, WorkerOK, Accounted, InsertState
  PROVE  Service!Next
<1>1. /\ Waiting # <<>> /\ Head(Waiting) = wuser /\ Tail(Waiting) = queue
      /\ wpc = "insert" /\ wpc' \in {"stop", "open"} /\ UNCHANGED <<queue, written, faults>>
  BY WaitingIsList DEF InsertState, historyVars
<1>2. Service!Turn /\ Mailed' = Mailed
  BY <1>1 DEF Service!Turn, Waiting, Mailed
<1>3. CASE InState(wuser)
  <2>1. UNCHANGED <<order, total>>
    BY <1>3 DEF InsertState
  <2>2. Service!TurnAway
    BY <1>1, <1>2, <1>3, <2>1 DEF Service!TurnAway, InState
  <2> QED
    BY <2>2 DEF Service!Next
<1>4. CASE ~InState(wuser)
  <2>1. total' = [total EXCEPT ![wuser] = files[wuser]] /\ order' = Append(order, wuser)
    BY <1>4 DEF InsertState
  <2>2. Range(order') = Range(order) \cup {wuser}
    BY <1>4, <2>1, AppendInserts DEF Accounted, TablesOK, WorkerOK, InState
  <2>3. files[wuser] \in 0 .. MaxFiles
    BY DEF TablesOK, WorkerOK
  <2>4. Service!Begin(files[wuser])
    BY <1>1, <1>2, <1>4, <2>1, <2>2 DEF Service!Begin, InState
  <2> QED
    BY <2>3, <2>4 DEF Service!Next
<1> QED
  BY <1>3, <1>4

LEMMA WriteTakes ==
  ASSUME TablesOK, ArchivesOK, WorkerOK, Behind, RowOK, WriteFile
  PROVE  Service!Next
<1>1. /\ UNCHANGED <<queue, order, total, faults, wuser>> /\ wpc = "write" /\ wpc' = "update"
      /\ written' = [written EXCEPT ![wuser] = @ \cup {wid}]
  BY DEF WriteFile, tables
<1>2. wid \in FileIds /\ 1 .. wid - 1 \subseteq written[wuser]
  <2>1. wid \in 1 .. files[wuser] /\ files[wuser] \in 0 .. MaxFiles
        /\ Before(wid) \subseteq written[wuser]
    BY <1>1 DEF Behind, WorkerBehind, TablesOK, WorkerOK
  <2>2. wid \in FileIds /\ 1 .. wid - 1 \subseteq Before(wid)
    BY <2>1 DEF Before, FileIds
  <2> QED
    BY <2>1, <2>2
<1>3. wuser \in Range(order) /\ wuser \in Users /\ Mailed = {} /\ Mailed' = {} /\ Waiting' = Waiting
  BY <1>1 DEF RowOK, InState, WorkerOK, Mailed, Waiting
<1>4. Service!Take(wuser, wid)
  BY <1>1, <1>2, <1>3 DEF Service!Take
<1> QED
  BY <1>2, <1>3, <1>4 DEF Service!Next, Service!FileIds, FileIds

LEMMA DispatchSends ==
  ASSUME WorkerOK, Behind, RowOK, Dispatch
  PROVE  Service!Next \/ UNCHANGED ServiceVars
<1>1. UNCHANGED <<queue, order, total, written, faults>> /\ wpc = "dispatch"
  BY DEF Dispatch, tables
<1>2. CASE wpc' = "remove" /\ wuser' = wuser
  <2>1. wuser \in Range(order) /\ wuser \in Users /\ 1 .. total[wuser] \subseteq written[wuser]
    BY <1>1 DEF RowOK, InState, WorkerOK, Behind, NothingSkipped
  <2>2. Mailed = {} /\ Mailed' = {wuser} /\ Waiting' = Waiting
    BY <1>1, <1>2 DEF Mailed, Waiting
  <2>3. Service!Send(wuser)
    BY <1>1, <2>1, <2>2 DEF Service!Send
  <2> QED
    BY <2>1, <2>3 DEF Service!Next
<1>3. CASE CloseZip
  BY <1>1, <1>3, Unseen DEF CloseZip, WorkerOK
<1> QED
  BY <1>2, <1>3 DEF Dispatch

LEMMA RemoveFinishes ==
  ASSUME TablesOK, WorkerOK, Accounted, RemoveState
  PROVE  Service!Next
<1>1. /\ wpc = "remove" /\ wpc' \in {"state", "queue"} /\ UNCHANGED <<queue, faults>>
      /\ order' = Without(order, wuser)
      /\ total' = [total EXCEPT ![wuser] = 0] /\ written' = [written EXCEPT ![wuser] = {}]
  BY DEF RemoveState, CloseZip, WorkerOK
<1>2. Range(order') = Range(order) \ {wuser}
  BY <1>1, WithoutDeletes DEF Accounted, TablesOK
<1>3. Mailed = {wuser} /\ Mailed' = {} /\ Waiting' = Waiting /\ wuser \in Users
  BY <1>1 DEF Mailed, Waiting, WorkerOK
<1>4. Service!Finish(wuser)
  BY <1>1, <1>2, <1>3 DEF Service!Finish
<1> QED
  BY <1>3, <1>4 DEF Service!Next

LEMMA FaultsFail ==
  ASSUME TablesOK, WorkerOK, DumpFails \/ WorkerFails \/ Crash
  PROVE  Service!Next
<1>1. /\ faults' = faults + 1 /\ UNCHANGED <<queue, order, total, written>>
      /\ wpc' \in {"state", "queue", "stop"}
  BY DEF DumpFails, WorkerFails, Crash, CloseZip, tables, WorkerOK
<1>2. Mailed' = {} /\ Waiting' = queue
  BY <1>1 DEF Mailed, Waiting
<1>3. Waiting' = Waiting \/ Service!Turn
  <2>1. CASE wpc = "insert"
    BY <1>2, <2>1, WaitingIsList DEF Service!Turn
  <2>2. CASE wpc # "insert"
    BY <1>2, <2>2 DEF Waiting
  <2> QED
    BY <2>1, <2>2
<1>4. Service!Fail
  BY <1>1, <1>2, <1>3 DEF Service!Fail
<1> QED
  BY <1>4 DEF Service!Next

\* The data dumps implement the DumpService: users are dumped in the order they
\* asked, completely, and nothing but a crash, an error or a dump under way
\* costs a request, for any users, requests, files and faults.
THEOREM DumpsRefineTheService == Spec => DumpsAreServed
<1>1. Init => Service!Init
  <2>1. Range(<<>>) = {}
    BY EmptySeq DEF Range
  <2> QED
    BY <2>1 DEF Init, Service!Init, Waiting, Mailed
<1>2. Typed /\ Behind /\ Accounted /\ Placed /\ [Next]_vars => [Service!Next]_ServiceVars
  <2> SUFFICES ASSUME TablesOK, ArchivesOK, WorkerOK, RequestsOK, Behind, Accounted, Placed,
                      [Next]_vars
               PROVE  Service!Next \/ UNCHANGED ServiceVars
    BY DEF Typed
  <2> USE DEF userVars, tables, workerVars, requestVars, historyVars
  <2>1. ASSUME NEW q \in Requests, NEW u \in Users,
               CheckState(q, u) \/ CheckQueue(q) \/ StartWorker(q)
        PROVE  UNCHANGED ServiceVars
    BY <2>1, Unseen DEF CheckState, CheckQueue, StartWorker
  <2>2. CASE FetchState \/ Resume \/ FetchQueue \/ OpenZip \/ UpdateState \/ WorkerStops
    BY <2>2, Unseen DEF FetchState, Resume, FetchQueue, OpenZip, UpdateState, WorkerStops,
       FilesFrom
  <2>3. CASE Dequeue
    <3>1. /\ queue # <<>> /\ wuser = Head(queue) /\ Distinct(queue) /\ wpc = "dequeue"
          /\ queue' = Without(queue, wuser) /\ wpc' = "insert"
          /\ UNCHANGED <<order, total, written, faults, wuser>>
      BY <2>3 DEF Dequeue, Placed, QueueOK
    <3>2. <<wuser>> \o queue' = queue
      BY <3>1, WithoutFirst, TakenApart DEF TablesOK
    <3> QED
      BY <3>1, <3>2 DEF ServiceVars, Waiting, Mailed
  <2>4. ASSUME NEW u \in Users, Upload(u) PROVE UNCHANGED ServiceVars
    BY <2>4, Unseen DEF Upload
  <2>5. CASE UNCHANGED vars
    BY <2>5, Unseen DEF vars
  <2>6. ASSUME NEW u \in Users, NEW n \in Names, CleanArchive(u, n) \/ ChangeName(u, n)
        PROVE  UNCHANGED ServiceVars
    BY <2>6, Unseen DEF CleanArchive, ChangeName
  <2> QED
    BY <2>1, <2>2, <2>3, <2>4, <2>5, <2>6, InsertAsks, StateBegins, WriteTakes, DispatchSends,
       RemoveFinishes, FaultsFail
    DEF Next, RequestSteps, WorkerSteps, DumpSteps, Placed
<1> QED
  BY <1>1, <1>2, TypeInit, TypeStep, BehindInit, BehindStep, AccountedInit, AccountedStep,
     PlacedInit, PlacedStep, PTL
  DEF Spec, Safety, DumpsAreServed, Service!Spec, ServiceVars

\* The service never leaves a gap: the files a dump has got are the first ones,
\* a dump that was mailed has all there were when it began, and one that is not
\* under way has none.
THEOREM ServiceLeavesNoGaps == Service!Spec => []Service!NoGaps
<1> DEFINE SInv == /\ Service!NoGaps /\ DOMAIN written = Users /\ DOMAIN total = Users
                   /\ \A u \in Users : written[u] \subseteq Service!FileIds
                   /\ Mailed \subseteq Users
<1>1. Service!Init => SInv
  BY DEF Service!Init, Service!NoGaps
<1>2. SInv /\ [Service!Next]_ServiceVars => SInv'
  <2> SUFFICES ASSUME SInv, [Service!Next]_ServiceVars PROVE SInv'
    OBVIOUS
  <2> USE DEF Service!NoGaps
  <2>1. CASE UNCHANGED <<Range(order), total, written, Mailed>>
    BY <2>1
  <2>2. ASSUME NEW n \in 0 .. MaxFiles, Service!Begin(n) PROVE SInv'
    <3>1. /\ Range(order)' = Range(order) \cup {Head(Waiting)} /\ Head(Waiting) \notin Range(order)
          /\ total' = [total EXCEPT ![Head(Waiting)] = n] /\ UNCHANGED <<written, Mailed>>
      BY <2>2 DEF Service!Begin
    <3>2. \A u \in Mailed : total'[u] = total[u]
      BY <3>1
    <3> QED
      BY <3>1, <3>2
  <2>3. ASSUME NEW u \in Users, NEW f \in Service!FileIds, Service!Take(u, f) PROVE SInv'
    <3>1. /\ u \in Range(order) \ Mailed /\ 1 .. f - 1 \subseteq written[u]
          /\ written' = [written EXCEPT ![u] = @ \cup {f}]
          /\ UNCHANGED <<Range(order), total, Mailed>>
      BY <2>3 DEF Service!Take
    <3>2. 1 .. f \subseteq written[u] \cup {f}
      BY <3>1 DEF Service!FileIds
    <3> QED
      BY <3>1, <3>2
  <2>4. ASSUME NEW u \in Users, Service!Send(u) PROVE SInv'
    BY <2>4 DEF Service!Send
  <2>5. ASSUME NEW u \in Users, Service!Finish(u) PROVE SInv'
    BY <2>5 DEF Service!Finish
  <2>6. CASE Service!Fail
    BY <2>6 DEF Service!Fail
  <2>7. ASSUME NEW u \in Users, Service!Ask(u) PROVE SInv'
    BY <2>1, <2>7 DEF Service!Ask
  <2>8. CASE Service!TurnAway
    BY <2>1, <2>8 DEF Service!TurnAway
  <2> QED
    BY <2>1, <2>2, <2>3, <2>4, <2>5, <2>6, <2>7, <2>8 DEF Service!Next, ServiceVars
<1> QED
  BY <1>1, <1>2, PTL DEF Service!Spec, ServiceVars
=============================================================================
