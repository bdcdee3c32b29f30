---------------------------- MODULE StorageCache ----------------------------
(***************************************************************************)
(* The read-through cache of api/storage.py: Redis in front of Postgres.   *)
(* A lookup GETs a key; on a miss it queries Postgres, SETs what it found  *)
(* and, for most keys, EXPIREs the key.  Each of these is an await, so     *)
(* the lookups of other requests and the writers of the same rows run in   *)
(* between.  A writer changes the row and deletes the key, in two awaits   *)
(* as well; most do it in that order, uploads and shortens in the other,   *)
(* and some statements change rows whose keys nobody deletes.              *)
(***************************************************************************)
EXTENDS Naturals

CONSTANTS
    Keys,             \* the cached rows, one Redis key each
    Values,           \* what a row can hold
    None,             \* "no such row": cached as the string "false"
    Miss,             \* Redis does not have the key
    Readers,          \* requests that look keys up
    Writers,          \* requests that change rows
    BanKeys,          \* userban:... and ipban:..., the keys of get_ban and get_ipban
    InvalidateFirst,  \* the keys whose writers DEL before they write
    LeftKeys,         \* the keys of rows that some statements change without a DEL
    InitialRows,      \* what Postgres may hold when the behaviour begins
    MaxWrites,        \* bound: writes in a behaviour
    MaxAborts         \* bound: requests that die between two awaits

ASSUME KeysAssumption ==
    /\ Keys # {}
    /\ BanKeys \subseteq Keys
    /\ InvalidateFirst \subseteq Keys
    /\ LeftKeys \subseteq Keys
    /\ InitialRows \subseteq [Keys -> Values \cup {None}]
    /\ None \notin Values /\ Miss \notin Values /\ None # Miss
    /\ MaxWrites \in Nat /\ MaxAborts \in Nat

VARIABLES
    db,        \* the rows of Postgres
    cache,     \* the strings of Redis
    ttl,       \* the keys of Redis that have a time to live
    pc,        \* the await each lookup stands at
    rkey,      \* the key it looks up
    rval,      \* what its query returned
    wpc,       \* the await each writer stands at
    wkey,      \* the key it writes
    writes, aborts,   \* bounded counters
    orphaned,  \* history: keys whose EXPIRE died with its request
    excused    \* history: keys a stale entry is expected for (see below)

dbVars     == <<db, writes>>
redisVars  == <<cache, ttl, orphaned, excused>>
readerVars == <<pc, rkey, rval>>
writerVars == <<wpc, wkey>>
vars == <<dbVars, redisVars, readerVars, writerVars, aborts>>

Rows == Values \cup {None}

\* The locals of a request that has returned are gone: rkey and wkey are then
\* AnyKey, rval is None.
AnyKey == CHOOSE k \in Keys : TRUE

TypeOK ==
    /\ db \in [Keys -> Rows]
    /\ cache \in [Keys -> Rows \cup {Miss}]
    /\ ttl \subseteq Keys
    /\ pc \in [Readers -> {"idle", "query", "set", "expire"}]
    /\ rkey \in [Readers -> Keys]
    /\ rval \in [Readers -> Rows]
    /\ wpc \in [Writers -> {"idle", "write", "invalidate"}]
    /\ wkey \in [Writers -> Keys]
    /\ writes \in 0 .. MaxWrites
    /\ aborts \in 0 .. MaxAborts
    /\ orphaned \subseteq Keys
    /\ excused \subseteq Keys

Init ==
    /\ db \in InitialRows
    /\ cache = [k \in Keys |-> Miss]
    /\ ttl = {}
    /\ pc = [r \in Readers |-> "idle"]
    /\ rkey = [r \in Readers |-> AnyKey]
    /\ rval = [r \in Readers |-> None]
    /\ wpc = [w \in Writers |-> "idle"]
    /\ wkey = [w \in Writers |-> AnyKey]
    /\ writes = 0 /\ aborts = 0
    /\ orphaned = {} /\ excused = {}

-----------------------------------------------------------------------------
(* What differs from key to key. *)

\* _generic_1 and actx_userid expire whatever they set; a ban is expired with
\* its end_timestamp, the absence of one is not.
NeedsTTL(k, val) == k \in BanKeys => val # None

\* What a lookup that runs alone answers.
Answer(k) == IF cache[k] # Miss THEN cache[k] ELSE db[k]

\* Key k leaves Redis, by DEL or at the end of its time to live.
Drop(k) ==
    /\ cache' = [cache EXCEPT ![k] = Miss]
    /\ ttl' = ttl \ {k}
    /\ orphaned' = orphaned \ {k}
    /\ excused' = excused \ {k}

ReaderReturns(r) ==
    /\ pc' = [pc EXCEPT ![r] = "idle"]
    /\ rkey' = [rkey EXCEPT ![r] = AnyKey]
    /\ rval' = [rval EXCEPT ![r] = None]

WriterReturns(w) ==
    /\ wpc' = [wpc EXCEPT ![w] = "idle"]
    /\ wkey' = [wkey EXCEPT ![w] = AnyKey]

-----------------------------------------------------------------------------
(* A lookup.  A GET that hits returns and changes nothing. *)

LookupMiss(r, k) ==
    /\ pc[r] = "idle"
    /\ cache[k] = Miss
    /\ pc' = [pc EXCEPT ![r] = "query"]
    /\ rkey' = [rkey EXCEPT ![r] = k]
    /\ UNCHANGED <<rval, dbVars, redisVars, writerVars, aborts>>

\* Mutant: a query that finds no row is kept as if Redis had no key.
QueryUnconverted(r) ==
    /\ pc[r] = "query"
    /\ rval' = [rval EXCEPT ![r] = IF db[rkey[r]] = None THEN Miss ELSE db[rkey[r]]]
    /\ pc' = [pc EXCEPT ![r] = "set"]
    /\ UNCHANGED <<rkey, dbVars, redisVars, writerVars, aborts>>

Query(r) ==
    /\ pc[r] = "query"
    /\ rval' = [rval EXCEPT ![r] = db[rkey[r]]]
    /\ pc' = [pc EXCEPT ![r] = "set"]
    /\ UNCHANGED <<rkey, dbVars, redisVars, writerVars, aborts>>

\* Mutant: the fill forgets the EXPIRE that follows the SET.
SetWithoutExpire(r) ==
    LET k == rkey[r] IN
    /\ pc[r] = "set"
    /\ cache' = [cache EXCEPT ![k] = rval[r]]
    /\ ttl' = ttl \ {k}
    /\ orphaned' = orphaned \ {k}
    /\ excused' = IF rval[r] = db[k] THEN excused \ {k} ELSE excused \cup {k}
    /\ ReaderReturns(r)
    /\ UNCHANGED <<dbVars, writerVars, aborts>>

\* SET clears the time to live the key had.  The entry is excused when the row
\* changed between the query and the SET.
SetKey(r) ==
    LET k == rkey[r] IN
    /\ pc[r] = "set"
    /\ cache' = [cache EXCEPT ![k] = rval[r]]
    /\ ttl' = ttl \ {k}
    /\ orphaned' = orphaned \ {k}
    /\ excused' = IF rval[r] = db[k] THEN excused \ {k} ELSE excused \cup {k}
    /\ IF NeedsTTL(k, rval[r])
       THEN /\ pc' = [pc EXCEPT ![r] = "expire"]
            /\ rval' = [rval EXCEPT ![r] = None]
            /\ UNCHANGED rkey
       ELSE ReaderReturns(r)
    /\ UNCHANGED <<dbVars, writerVars, aborts>>

\* EXPIRE of a key another request deleted meanwhile does nothing.
Expire(r) ==
    LET k == rkey[r] IN
    /\ pc[r] = "expire"
    /\ ttl' = IF cache[k] = Miss THEN ttl ELSE ttl \cup {k}
    /\ orphaned' = orphaned \ {k}
    /\ ReaderReturns(r)
    /\ UNCHANGED <<cache, excused, dbVars, writerVars, aborts>>

-----------------------------------------------------------------------------
(* A writer: the row, then the key; or the key, then the row. *)

\* Mutant: the writer changes the row and never deletes the key.
WriteOnly(w, k, v) ==
    /\ wpc[w] = "idle" /\ k \notin InvalidateFirst
    /\ writes < MaxWrites
    /\ db' = [db EXCEPT ![k] = v]
    /\ writes' = writes + 1
    /\ UNCHANGED <<wpc, wkey, redisVars, readerVars, aborts>>

WriteThenInvalidate(w, k, v) ==
    /\ wpc[w] = "idle" /\ k \notin InvalidateFirst
    /\ writes < MaxWrites
    /\ db' = [db EXCEPT ![k] = v]
    /\ writes' = writes + 1
    /\ wkey' = [wkey EXCEPT ![w] = k]
    /\ wpc' = [wpc EXCEPT ![w] = "invalidate"]
    /\ UNCHANGED <<redisVars, readerVars, aborts>>

Invalidate(w) ==
    /\ wpc[w] = "invalidate"
    /\ Drop(wkey[w])
    /\ WriterReturns(w)
    /\ UNCHANGED <<dbVars, readerVars, aborts>>

InvalidateThenWrite(w, k) ==
    /\ wpc[w] = "idle" /\ k \in InvalidateFirst
    /\ Drop(k)
    /\ wkey' = [wkey EXCEPT ![w] = k]
    /\ wpc' = [wpc EXCEPT ![w] = "write"]
    /\ UNCHANGED <<dbVars, readerVars, aborts>>

WriteRow(w, v) ==
    /\ wpc[w] = "write"
    /\ writes < MaxWrites
    /\ db' = [db EXCEPT ![wkey[w]] = v]
    /\ writes' = writes + 1
    /\ WriterReturns(w)
    /\ UNCHANGED <<redisVars, readerVars, aborts>>

\* A statement that changes rows and is followed by no DEL of their keys: the
\* DELETE FROM users at the end of an account, the hiding of its files and
\* shortens, the moves of a removed domain's objects, and the rename of a
\* shorten, which deletes fspath: keys and not the redir: ones; also a deletion
\* whose file was moved to another domain after it read the domain for the key.
\* What the cache holds for the key is from then on excused.
WriteLeavingKey(k, v) ==
    /\ k \in LeftKeys
    /\ writes < MaxWrites
    /\ db' = [db EXCEPT ![k] = v]
    /\ writes' = writes + 1
    /\ excused' = IF cache[k] = Miss THEN excused ELSE excused \cup {k}
    /\ UNCHANGED <<cache, ttl, orphaned, readerVars, writerVars, aborts>>

-----------------------------------------------------------------------------
(* The passing of time, and requests that die. *)

\* Redis drops a key at the end of its time to live.
Evict(k) ==
    /\ k \in ttl
    /\ Drop(k)
    /\ UNCHANGED <<dbVars, readerVars, writerVars, aborts>>

\* end_timestamp > now() stops holding: no statement runs and no key is
\* deleted, so a cached reason is stale until its own EXPIRE.
BanEnds(k) ==
    /\ k \in BanKeys /\ db[k] # None
    /\ db' = [db EXCEPT ![k] = None]
    /\ excused' = excused \cup {k}
    /\ UNCHANGED <<writes, cache, ttl, orphaned, readerVars, writerVars, aborts>>

\* The client goes away, or Redis or Postgres fails the call: the rest of the
\* request does not run.
ReaderAborts(r) ==
    /\ pc[r] # "idle" /\ aborts < MaxAborts
    /\ aborts' = aborts + 1
    /\ ReaderReturns(r)
    /\ orphaned' = IF pc[r] = "expire" THEN orphaned \cup {rkey[r]} ELSE orphaned
    /\ UNCHANGED <<cache, ttl, excused, dbVars, writerVars>>

WriterAborts(w) ==
    /\ wpc[w] # "idle" /\ aborts < MaxAborts
    /\ aborts' = aborts + 1
    /\ WriterReturns(w)
    /\ excused' = IF wpc[w] = "invalidate" THEN excused \cup {wkey[w]} ELSE excused
    /\ UNCHANGED <<cache, ttl, orphaned, dbVars, readerVars>>

-----------------------------------------------------------------------------
LookupSteps(r) == Query(r) \/ SetKey(r) \/ Expire(r)
WriterSteps(w) == Invalidate(w) \/ \E v \in Rows : WriteRow(w, v)

Next ==
    \/ \E r \in Readers, k \in Keys : LookupMiss(r, k)
    \/ \E r \in Readers : LookupSteps(r) \/ ReaderAborts(r)
    \/ \E w \in Writers, k \in Keys, v \in Rows : WriteThenInvalidate(w, k, v)
    \/ \E w \in Writers, k \in Keys : InvalidateThenWrite(w, k)
    \/ \E w \in Writers : WriterSteps(w) \/ WriterAborts(w)
    \/ \E k \in Keys, v \in Rows : WriteLeavingKey(k, v)
    \/ \E k \in Keys : Evict(k) \/ BanEnds(k)

Safety == Init /\ [][Next]_vars

\* The event loop runs every request that is ready, and Redis keeps its
\* clock.  Nothing makes a request arrive.
Fairness ==
    /\ \A r \in Readers : WF_vars(LookupSteps(r))
    /\ \A w \in Writers : WF_vars(WriterSteps(w))
    /\ \A k \in Keys : WF_vars(Evict(k))

Spec == Safety /\ Fairness

-----------------------------------------------------------------------------
(* Properties. *)

Stale(k) == cache[k] # Miss /\ cache[k] # db[k]

\* An entry that ought to expire (every row of _generic_1 and actx_userid, a
\* ban's reason) and has no time to live is about to get one from the request
\* that SET it, or that request died between SET and EXPIRE.  It is what
\* bounds the staleness of every such key, however fills of one key
\* interleave with each other and with invalidations.
UnexpiringIsOwned ==
    \A k \in Keys :
        (cache[k] # Miss /\ k \notin ttl /\ NeedsTTL(k, cache[k])) =>
            \/ \E r \in Readers : pc[r] = "expire" /\ rkey[r] = k
            \/ k \in orphaned

\* A row that is written first and invalidated after (passwords, active,
\* changed user names, bans, deleted and renamed files) is stale in the cache
\* only while its writer is about to invalidate, or because a fill was overtaken
\* by the write, a writer died half way, a ban ran out, or one of the statements
\* that delete no key has changed it since.  No such statement writes a ban, nor
\* a password or active before the user's row itself goes.  Writers that
\* invalidate first promise less.
StaleHasACause ==
    \A k \in Keys \ InvalidateFirst :
        Stale(k) => \/ k \in excused
                    \/ \E w \in Writers : wpc[w] = "invalidate" /\ wkey[w] = k

\* Once nobody writes, every generic key comes to agree with its row, or to be
\* absent, whatever raced before, the rows changed without a DEL included; the
\* key of a request that died before its EXPIRE is the exception.
EventuallyCoherent ==
    <>[](\A k \in Keys \ BanKeys : k \notin orphaned => ~Stale(k))

\* check_bans "Raises FailedAuth when a user is banned" (banning.py:35): with
\* no request under way, a user with a ban row is told of the ban.  The code
\* breaks it: a lookup that queried before the INSERT caches "false", without
\* a time to live, after the ban's own invalidation.
BannedIsRefused ==
    (\A r \in Readers : pc[r] = "idle") /\ (\A w \in Writers : wpc[w] = "idle")
        => \A k \in BanKeys : db[k] # None => Answer(k) # None
=============================================================================
