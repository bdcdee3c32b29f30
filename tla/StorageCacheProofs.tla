------------------------- MODULE StorageCacheProofs -------------------------
(***************************************************************************)
(* What MCStorageCache checks on three keys, for any keys, any number of   *)
(* requests and any bounds: the types, that an entry which ought to expire *)
(* does or is about to, and that a stale entry has a cause.                *)
(***************************************************************************)
EXTENDS StorageCache, TLAPS

USE KeysAssumption

\* Only a writer of a key of InvalidateFirst stands between its DEL and its
\* INSERT: without this a row could change under an entry nobody will delete.
WriteAfterDel == \A w \in Writers : wpc[w] = "write" => wkey[w] \in InvalidateFirst

LEMMA AnyKeyIsKey == AnyKey \in Keys
  BY DEF AnyKey

-----------------------------------------------------------------------------
(* The types. *)

LEMMA TypeInit == Init => TypeOK
  BY AnyKeyIsKey DEF Init, TypeOK, Rows

LEMMA TypeStep == TypeOK /\ [Next]_vars => TypeOK'
<1> SUFFICES ASSUME TypeOK, [Next]_vars PROVE TypeOK'
  OBVIOUS
<1> USE AnyKeyIsKey DEF TypeOK, dbVars, redisVars, readerVars, writerVars, Rows
<1>1. ASSUME NEW r \in Readers, NEW k \in Keys, LookupMiss(r, k) PROVE TypeOK'
  BY <1>1 DEF LookupMiss
<1>2. ASSUME NEW r \in Readers, Query(r) PROVE TypeOK'
  BY <1>2 DEF Query
<1>3. ASSUME NEW r \in Readers, SetKey(r) PROVE TypeOK'
  <2>1. CASE NeedsTTL(rkey[r], rval[r])
    BY <1>3, <2>1 DEF SetKey
  <2>2. CASE ~NeedsTTL(rkey[r], rval[r])
    BY <1>3, <2>2 DEF SetKey, ReaderReturns
  <2> QED
    BY <2>1, <2>2
<1>4. ASSUME NEW r \in Readers, Expire(r) PROVE TypeOK'
  BY <1>4 DEF Expire, ReaderReturns
<1>5. ASSUME NEW r \in Readers, ReaderAborts(r) PROVE TypeOK'
  BY <1>5 DEF ReaderAborts, ReaderReturns
<1>6. ASSUME NEW w \in Writers, NEW k \in Keys, NEW v \in Rows,
             WriteThenInvalidate(w, k, v)
      PROVE  TypeOK'
  BY <1>6 DEF WriteThenInvalidate
<1>7. ASSUME NEW w \in Writers, Invalidate(w) PROVE TypeOK'
  BY <1>7 DEF Invalidate, Drop, WriterReturns
<1>8. ASSUME NEW w \in Writers, NEW k \in Keys, InvalidateThenWrite(w, k) PROVE TypeOK'
  BY <1>8 DEF InvalidateThenWrite, Drop
<1>9. ASSUME NEW w \in Writers, NEW v \in Rows, WriteRow(w, v) PROVE TypeOK'
  BY <1>9 DEF WriteRow, WriterReturns
<1>10. ASSUME NEW w \in Writers, WriterAborts(w) PROVE TypeOK'
  BY <1>10 DEF WriterAborts, WriterReturns
<1>11. ASSUME NEW k \in Keys, Evict(k) PROVE TypeOK'
  BY <1>11 DEF Evict, Drop
<1>12. ASSUME NEW k \in Keys, BanEnds(k) PROVE TypeOK'
  BY <1>12 DEF BanEnds
<1>13. ASSUME NEW k \in Keys, NEW v \in Rows, WriteLeavingKey(k, v) PROVE TypeOK'
  BY <1>13 DEF WriteLeavingKey
<1>14. CASE UNCHANGED vars
  BY <1>14 DEF vars
<1> QED
  BY <1>1, <1>2, <1>3, <1>4, <1>5, <1>6, <1>7, <1>8, <1>9, <1>10, <1>11, <1>12, <1>13,
     <1>14
  DEF Next, LookupSteps, WriterSteps

\* Every variable keeps to its type, for any keys, values and requests.
THEOREM TypeCorrect == Spec => []TypeOK
<1>1. QED
  BY TypeInit, TypeStep, PTL DEF Spec, Safety

-----------------------------------------------------------------------------
(* Entries without a time to live. *)

LEMMA OwnedStep == TypeOK /\ UnexpiringIsOwned /\ [Next]_vars => UnexpiringIsOwned'
<1> SUFFICES ASSUME TypeOK, UnexpiringIsOwned, [Next]_vars PROVE UnexpiringIsOwned'
  OBVIOUS
<1> USE DEF TypeOK, UnexpiringIsOwned, NeedsTTL, dbVars, redisVars, readerVars, writerVars
<1>1. ASSUME NEW r \in Readers, NEW k \in Keys, LookupMiss(r, k) PROVE UnexpiringIsOwned'
  BY <1>1 DEF LookupMiss
<1>2. ASSUME NEW r \in Readers, Query(r) PROVE UnexpiringIsOwned'
  BY <1>2 DEF Query
<1>3. ASSUME NEW r \in Readers, SetKey(r) PROVE UnexpiringIsOwned'
  <2> SUFFICES ASSUME NEW k \in Keys, cache'[k] # Miss, k \notin ttl', NeedsTTL(k, cache'[k])
               PROVE  \/ \E q \in Readers : pc'[q] = "expire" /\ rkey'[q] = k
                      \/ k \in orphaned'
    OBVIOUS
  <2>1. CASE k = rkey[r]
    BY <1>3, <2>1 DEF SetKey
  <2>2. CASE k # rkey[r]
    <3>1. cache'[k] = cache[k] /\ k \notin ttl /\ (k \in orphaned => k \in orphaned')
      BY <1>3, <2>2 DEF SetKey
    <3>2. ASSUME NEW q \in Readers, pc[q] = "expire", rkey[q] = k
          PROVE  pc'[q] = "expire" /\ rkey'[q] = k
      BY <1>3, <2>2, <3>2 DEF SetKey, ReaderReturns
    <3> QED
      BY <3>1, <3>2
  <2> QED
    BY <2>1, <2>2
<1>4. ASSUME NEW r \in Readers, Expire(r) PROVE UnexpiringIsOwned'
  BY <1>4 DEF Expire, ReaderReturns
<1>5. ASSUME NEW r \in Readers, ReaderAborts(r) PROVE UnexpiringIsOwned'
  BY <1>5 DEF ReaderAborts, ReaderReturns
<1>6. ASSUME NEW w \in Writers, NEW k \in Keys, NEW v \in Rows,
             WriteThenInvalidate(w, k, v)
      PROVE  UnexpiringIsOwned'
  BY <1>6 DEF WriteThenInvalidate
<1>7. ASSUME NEW w \in Writers, Invalidate(w) PROVE UnexpiringIsOwned'
  BY <1>7 DEF Invalidate, Drop
<1>8. ASSUME NEW w \in Writers, NEW k \in Keys, InvalidateThenWrite(w, k)
      PROVE  UnexpiringIsOwned'
  BY <1>8 DEF InvalidateThenWrite, Drop
<1>9. ASSUME NEW w \in Writers, NEW v \in Rows, WriteRow(w, v) PROVE UnexpiringIsOwned'
  BY <1>9 DEF WriteRow
<1>10. ASSUME NEW w \in Writers, WriterAborts(w) PROVE UnexpiringIsOwned'
  BY <1>10 DEF WriterAborts
<1>11. ASSUME NEW k \in Keys, Evict(k) PROVE UnexpiringIsOwned'
  BY <1>11 DEF Evict, Drop
<1>12. ASSUME NEW k \in Keys, BanEnds(k) PROVE UnexpiringIsOwned'
  BY <1>12 DEF BanEnds
<1>13. ASSUME NEW k \in Keys, NEW v \in Rows, WriteLeavingKey(k, v) PROVE UnexpiringIsOwned'
  BY <1>13 DEF WriteLeavingKey
<1>14. CASE UNCHANGED vars
  BY <1>14 DEF vars
<1> QED
  BY <1>1, <1>2, <1>3, <1>4, <1>5, <1>6, <1>7, <1>8, <1>9, <1>10, <1>11, <1>12, <1>13,
     <1>14
  DEF Next, LookupSteps, WriterSteps

\* In every behaviour an entry that ought to expire has a time to live, or its
\* EXPIRE is under way, or died with its request.
THEOREM UnexpiringOwned == Spec => []UnexpiringIsOwned
<1>1. Init => UnexpiringIsOwned
  BY DEF Init, UnexpiringIsOwned
<1> QED
  BY <1>1, OwnedStep, TypeCorrect, PTL DEF Spec, Safety

-----------------------------------------------------------------------------
(* Stale entries. *)

LEMMA AfterDelStep == TypeOK /\ WriteAfterDel /\ [Next]_vars => WriteAfterDel'
<1> SUFFICES ASSUME TypeOK, WriteAfterDel, [Next]_vars PROVE WriteAfterDel'
  OBVIOUS
<1> QED
  BY DEF TypeOK, WriteAfterDel, Next, vars, dbVars, redisVars, readerVars, writerVars,
         LookupSteps, WriterSteps, LookupMiss, Query, SetKey, Expire, ReaderAborts,
         WriteThenInvalidate, Invalidate, InvalidateThenWrite, WriteRow, WriterAborts,
         WriterReturns, Evict, BanEnds, WriteLeavingKey

LEMMA CauseStep ==
  TypeOK /\ WriteAfterDel /\ StaleHasACause /\ [Next]_vars => StaleHasACause'
<1> SUFFICES ASSUME TypeOK, WriteAfterDel, StaleHasACause, [Next]_vars
             PROVE  StaleHasACause'
  OBVIOUS
<1> USE DEF TypeOK, StaleHasACause, Stale, dbVars, redisVars, readerVars, writerVars
<1>1. ASSUME NEW r \in Readers, NEW k \in Keys, LookupMiss(r, k) PROVE StaleHasACause'
  BY <1>1 DEF LookupMiss
<1>2. ASSUME NEW r \in Readers, Query(r) PROVE StaleHasACause'
  BY <1>2 DEF Query
<1>3. ASSUME NEW r \in Readers, SetKey(r) PROVE StaleHasACause'
  BY <1>3 DEF SetKey
<1>4. ASSUME NEW r \in Readers, Expire(r) PROVE StaleHasACause'
  BY <1>4 DEF Expire
<1>5. ASSUME NEW r \in Readers, ReaderAborts(r) PROVE StaleHasACause'
  BY <1>5 DEF ReaderAborts
<1>6. ASSUME NEW w \in Writers, NEW k \in Keys, NEW v \in Rows,
             WriteThenInvalidate(w, k, v)
      PROVE  StaleHasACause'
  BY <1>6 DEF WriteThenInvalidate
<1>7. ASSUME NEW w \in Writers, Invalidate(w) PROVE StaleHasACause'
  BY <1>7 DEF Invalidate, Drop, WriterReturns
<1>8. ASSUME NEW w \in Writers, NEW k \in Keys, InvalidateThenWrite(w, k)
      PROVE  StaleHasACause'
  BY <1>8 DEF InvalidateThenWrite, Drop
<1>9. ASSUME NEW w \in Writers, NEW v \in Rows, WriteRow(w, v) PROVE StaleHasACause'
  BY <1>9 DEF WriteRow, WriterReturns, WriteAfterDel
<1>10. ASSUME NEW w \in Writers, WriterAborts(w) PROVE StaleHasACause'
  BY <1>10 DEF WriterAborts, WriterReturns
<1>11. ASSUME NEW k \in Keys, Evict(k) PROVE StaleHasACause'
  BY <1>11 DEF Evict, Drop
<1>12. ASSUME NEW k \in Keys, BanEnds(k) PROVE StaleHasACause'
  BY <1>12 DEF BanEnds
<1>13. ASSUME NEW k \in Keys, NEW v \in Rows, WriteLeavingKey(k, v) PROVE StaleHasACause'
  BY <1>13 DEF WriteLeavingKey
<1>14. CASE UNCHANGED vars
  BY <1>14 DEF vars
<1> QED
  BY <1>1, <1>2, <1>3, <1>4, <1>5, <1>6, <1>7, <1>8, <1>9, <1>10, <1>11, <1>12, <1>13,
     <1>14
  DEF Next, LookupSteps, WriterSteps

\* In every behaviour a row that is written first and invalidated after is
\* stale in the cache only for one of the named causes, the statements that
\* delete no key (profile.py:420, 474-483, admin/domain.py:226-249) among them.
THEOREM StaleCaused == Spec => []StaleHasACause
<1>1. Init => StaleHasACause /\ WriteAfterDel
  BY DEF Init, StaleHasACause, Stale, WriteAfterDel
<1> QED
  BY <1>1, AfterDelStep, CauseStep, TypeCorrect, PTL DEF Spec, Safety

-----------------------------------------------------------------------------
(* The cache at rest. *)

\* When no request is under way a lookup answers what Postgres holds, for every
\* key whose writers write first, but where a fill was overtaken by a write, a
\* writer died half way, a ban ran out, or a statement without a DEL changed the
\* row under a cached entry.
RestIsCoherent ==
    (\A r \in Readers : pc[r] = "idle") /\ (\A w \in Writers : wpc[w] = "idle")
        => \A k \in Keys \ (InvalidateFirst \cup excused) : Answer(k) = db[k]

\* Postgres and then Redis is an order that leaves the two in step, whatever
\* other writers and lookups of the key ran in between (storage.py:182-222):
\* BannedIsRefused fails only at a key that is excused.
THEOREM RestingCacheIsCoherent == Spec => []RestIsCoherent
<1>1. StaleHasACause => RestIsCoherent
  BY DEF StaleHasACause, Stale, RestIsCoherent, Answer
<1> QED
  BY <1>1, StaleCaused, PTL
=============================================================================
