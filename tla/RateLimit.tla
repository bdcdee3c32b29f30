----------------------------- MODULE RateLimit -----------------------------
(***************************************************************************)
(* Requests on their way through the rate limiter, and the bans it ends    *)
(* in.  A request is identified by its token or, without one that is       *)
(* accepted, by its address; a bucket of the rule it is for, kept in a     *)
(* cache that drops what was not used for a while, lets it pass, refuses   *)
(* it, or has its subject banned.  Each step is what runs between two      *)
(* awaits; one rule, and one address that everyone comes from.             *)
(***************************************************************************)
EXTENDS Integers, FiniteSets

CONSTANTS
    Handlers,    \* requests that are handled at the same time
    Users,
    Address,
    Requests,    \* the rule: so many requests
    Second,      \*   in so many seconds
    Threshold,   \* RL_THRESHOLD
    MaxTime,     \* bound: the clock
    MaxFailures  \* bound: bans that Postgres, Redis or the webhook fail

Subjects == Users \cup {Address}
None == "none"

ASSUME RateLimitAssumption ==
    /\ Requests \in Nat \ {0} /\ Second \in Nat \ {0}
    /\ Threshold \in Nat /\ MaxTime \in Nat /\ MaxFailures \in Nat
    /\ Address \notin Users
    /\ None \notin Subjects \cup Handlers

VARIABLES
    now,
    cache,     \* RatelimitManager._cache: a bucket of each of its subjects
    pc,        \* the await each request stands at
    who,       \*   and the subject it is limited as
    lock,      \* app.locks["bans"]: who holds the lock of a subject
    banned,    \* the subjects that have a row in bans, ip_bans that is in force
    failures,
    verdict,   \* history: what the last request of a subject was answered
    told,      \* history: the time its last refusal told it to wait for
    streak,    \* history: its requests since the last that found a token left,
    since,     \*   counted to Threshold + 1, and when they began
    passes,    \* history: its passes in the Second until now: the time, a number
    owed       \* history: subjects that were to be banned and are not yet

handlerVars == <<pc, who>>
banVars == <<lock, banned, failures, owed>>
historyVars == <<verdict, told, streak, since, passes>>
vars == <<now, cache, handlerVars, banVars, historyVars>>

Bucket == [window : Nat, tokens : 0 .. Requests, retries : 0 .. Threshold + 1, last : Nat]

TypeOK ==
    /\ now \in Nat
    /\ DOMAIN cache \subseteq Subjects
    /\ \A s \in DOMAIN cache : cache[s] \in Bucket
    /\ pc \in [Handlers -> {"idle", "limit", "insert", "webhook"}]
    /\ who \in [Handlers -> Subjects \cup {None}]
    /\ lock \in [Subjects -> Handlers \cup {None}]
    /\ banned \subseteq Subjects /\ owed \subseteq Subjects
    /\ failures \in 0 .. MaxFailures
    /\ verdict \in [Subjects -> {"none", "pass", "refused", "banned"}]
    /\ told \in [Subjects -> Nat] /\ since \in [Subjects -> Nat]
    /\ streak \in [Subjects -> 0 .. Threshold + 1]
    /\ passes \in [Subjects -> SUBSET (Nat \X Nat)]

Init ==
    /\ now = Second + 1
    /\ cache = [s \in {} |-> 0]
    /\ pc = [h \in Handlers |-> "idle"]
    /\ who = [h \in Handlers |-> None]
    /\ lock = [s \in Subjects |-> None]
    /\ banned = {} /\ owed = {} /\ failures = 0
    /\ verdict = [s \in Subjects |-> "none"]
    /\ told = [s \in Subjects |-> 0]
    /\ streak = [s \in Subjects |-> 0] /\ since = [s \in Subjects |-> 0]
    /\ passes = [s \in Subjects |-> {}]

-----------------------------------------------------------------------------
(* the bucket *)

\* The cooldown's copy: what a subject gets that the cache has not.
NewBucket == [window |-> 0, tokens |-> Requests, retries |-> 0, last |-> 0]

\* Mutant: a bucket is dead as soon as its window can be, whoever uses it.
DeadByWindow == {s \in DOMAIN cache : now >= cache[s].window + Second}

\* _verify_cache: those not used for a window.
DeadKeys == {s \in DOMAIN cache : now > cache[s].last + Second}

Bucketed(s) ==
    IF s \in DOMAIN cache \ DeadKeys THEN cache[s] ELSE NewBucket

\* get_tokens
Tokens(b) == IF now > b.window + Second THEN Requests ELSE b.tokens

\* The number of retries is only compared with Threshold: counted to one more.
Retried(n) == IF n > Threshold THEN n ELSE n + 1

\* Mutant: the window slides with every request, refused or not.
UpdatedSliding(b) ==
    LET tokens == Tokens(b)
    IN  [window |-> now, last |-> now,
         tokens |-> IF tokens = 0 THEN 0 ELSE tokens - 1,
         retries |-> IF tokens = 0 THEN Retried(b.retries) ELSE 0]

\* Mutant: a request that is let through does not clear the retries.
UpdatedKeepingRetries(b) ==
    LET tokens == Tokens(b)
    IN  [window |-> IF tokens \in {1, Requests} THEN now ELSE b.window,
         last |-> now,
         tokens |-> IF tokens = 0 THEN 0 ELSE tokens - 1,
         retries |-> IF tokens = 0 THEN Retried(b.retries) ELSE b.retries]

\* Mutant: the last token does not start the window anew.
UpdatedFromFirst(b) ==
    LET tokens == Tokens(b)
    IN  [window |-> IF tokens = Requests THEN now ELSE b.window,
         last |-> now,
         tokens |-> IF tokens = 0 THEN 0 ELSE tokens - 1,
         retries |-> IF tokens = 0 THEN Retried(b.retries) ELSE 0]

\* Mutant: a token is removed, left or not.
UpdatedUnguarded(b) ==
    LET tokens == Tokens(b)
    IN  [window |-> IF tokens \in {1, Requests} THEN now ELSE b.window,
         last |-> now,
         tokens |-> tokens - 1,
         retries |-> IF tokens = 0 THEN Retried(b.retries) ELSE 0]

\* update_rate_limit
Updated(b) ==
    LET tokens == Tokens(b)
    IN  [window |-> IF tokens \in {1, Requests} THEN now ELSE b.window,
         last |-> now,
         tokens |-> IF tokens = 0 THEN 0 ELSE tokens - 1,
         retries |-> IF tokens = 0 THEN Retried(b.retries) ELSE 0]

\* What it returns: None (here 0) or how long to wait, which may be no time.
RetryAfter(b) ==
    IF Tokens(b) > 0 THEN 0 ELSE b.window + Second - now

\* _check_bucket, of the bucket before it was updated
Verdict(b) ==
    CASE Updated(b).retries > Threshold -> "banned"
      [] Updated(b).retries <= Threshold /\ RetryAfter(b) # 0 -> "refused"
      [] Updated(b).retries <= Threshold /\ RetryAfter(b) = 0 -> "pass"

-----------------------------------------------------------------------------
(* ratelimit_handler *)

Goto(h, step) == pc' = [pc EXCEPT ![h] = step]

\* The response is out and the request gone.
End(h) ==
    /\ Goto(h, "idle")
    /\ who' = [who EXCEPT ![h] = None]

Identified(h, s) ==
    /\ pc[h] = "idle"
    /\ Goto(h, "limit")
    /\ who' = [who EXCEPT ![h] = s]
    /\ UNCHANGED <<now, cache, banVars, historyVars>>

\* token_check accepts the token of user u, and check_bans in it finds no ban.
\* It is answered by a cache that may be behind the tables for a while (module
\* StorageCache), so that one who is banned may pass.
AsUser(h) == \E u \in Users : Identified(h, u)

\* There is no token, or FailedAuth was raised and swallowed, also because the
\* user or the address is banned: the request goes on as one of its address,
\* if check_bans(None) finds no ban of that.  (If it does, nothing happens.)
AsAddress(h) == Identified(h, Address)

\* The next pass of s, told from those of the same time by its number.
NextPass(s) == <<now, Cardinality({p \in passes[s] : p[1] = now}) + 1>>

\* What is remembered of a request of s that found bucket b.
Remember(s, b) ==
    LET v == Verdict(b)
        left == Tokens(b) > 0
    IN  /\ verdict' = [verdict EXCEPT ![s] = v]
        /\ told' = [told EXCEPT ![s] = CASE v = "refused" -> now + RetryAfter(b)
                                         [] v = "pass" -> 0
                                         [] v = "banned" -> @]
        /\ streak' = [streak EXCEPT ![s] = IF left THEN 0 ELSE Retried(@)]
        /\ since' = [since EXCEPT ![s] = IF left THEN 0 ELSE IF streak[s] = 0 THEN now ELSE @]
        /\ passes' = [passes EXCEPT ![s] = IF left THEN @ \cup {NextPass(s)} ELSE @]

\* Mutant: the lock is waited for, not given up.
RaiseNotAsking(h, v) ==
    IF v = "banned"
    THEN /\ Goto(h, "insert") /\ lock' = [lock EXCEPT ![who[h]] = h]
         /\ UNCHANGED who
    ELSE End(h) /\ UNCHANGED lock

\* Mutant: one lock for all subjects.
RaiseOneLock(h, v) ==
    IF v = "banned" /\ \A s \in Subjects : lock[s] = None
    THEN /\ Goto(h, "insert") /\ lock' = [lock EXCEPT ![who[h]] = h]
         /\ UNCHANGED who
    ELSE End(h) /\ UNCHANGED lock

\* What the request goes on to.  Banned is handled by on_ban, which takes the
\* lock of the subject, or leaves if it is held, before anyone else runs.
Raise(h, v) ==
    IF v = "banned" /\ lock[who[h]] = None
    THEN /\ Goto(h, "insert") /\ lock' = [lock EXCEPT ![who[h]] = h]
         /\ UNCHANGED who
    ELSE End(h) /\ UNCHANGED lock

\* get_bucket and _check_bucket: no await between them.
Limit(h) ==
    LET s == who[h]
        b == Bucketed(s)
    IN  /\ pc[h] = "limit"
        /\ cache' = [x \in (DOMAIN cache \ DeadKeys) \cup {s} |->
                        IF x = s THEN Updated(b) ELSE cache[x]]
        /\ Remember(s, b)
        /\ Raise(h, Verdict(b))
        /\ owed' = IF Verdict(b) = "banned" THEN owed \cup ({s} \ banned) ELSE owed
        /\ UNCHANGED <<now, banned, failures>>

-----------------------------------------------------------------------------
(* ban_someone, under the lock *)

Unlock(h) == lock' = [lock EXCEPT ![who[h]] = None]

\* The INSERT; then the key is deleted and the webhook called, of which nothing
\* is kept here.
InsertBan(h) ==
    /\ pc[h] = "insert"
    /\ Goto(h, "webhook")
    /\ banned' = banned \cup {who[h]}
    /\ owed' = owed \ {who[h]}
    /\ UNCHANGED <<now, cache, who, lock, failures, historyVars>>

Webhook(h) ==
    /\ pc[h] = "webhook"
    /\ End(h) /\ Unlock(h)
    /\ UNCHANGED <<now, cache, banned, failures, owed, historyVars>>

\* Any of the three raises: the request ends with it, and so does the with.
BanFails(h) ==
    /\ pc[h] \in {"insert", "webhook"}
    /\ failures < MaxFailures /\ failures' = failures + 1
    /\ owed' = IF pc[h] = "insert" THEN owed \ {who[h]} ELSE owed
    /\ End(h) /\ Unlock(h)
    /\ UNCHANGED <<now, cache, banned, historyVars>>

\* The end_timestamp of the subject's rows is past.  A ban lasts for minutes
\* or hours, longer than the webhook of the one who is banning.
BanEnds(s) ==
    /\ s \in banned /\ lock[s] = None
    /\ banned' = banned \ {s}
    /\ UNCHANGED <<now, cache, handlerVars, lock, failures, owed, historyVars>>

Tick ==
    /\ now < MaxTime
    /\ now' = now + 1
    /\ passes' = [s \in Subjects |-> {p \in passes[s] : p[1] + Second >= now + 1}]
    /\ UNCHANGED <<cache, handlerVars, banVars, verdict, told, streak, since>>

HandlerStep(h) == Limit(h) \/ InsertBan(h) \/ Webhook(h) \/ BanFails(h)

Next ==
    \/ \E h \in Handlers : AsUser(h) \/ AsAddress(h) \/ HandlerStep(h)
    \/ \E s \in Subjects : BanEnds(s)
    \/ Tick

\* Every await of a request that is being handled returns.
Fairness == \A h \in Handlers : WF_vars(HandlerStep(h))

Spec == Init /\ [][Next]_vars /\ Fairness

-----------------------------------------------------------------------------
(* properties *)

\* The window that a bucket stands for, while it is not over.
WindowOf(b) == [open |-> TRUE, start |-> b.window, left |-> b.tokens, strikes |-> b.retries]

WindowNow ==
    [s \in Subjects |->
        IF s \in DOMAIN cache /\ now <= cache[s].window + Second
        THEN WindowOf(cache[s])
        ELSE [open |-> FALSE, start |-> 0, left |-> Requests, strikes |-> 0]]

Limiter == INSTANCE WindowLimit WITH window <- WindowNow

\* However the cache drops buckets, nobody can tell: the limiter answers every
\* request like one that keeps a window for everyone and forgets it only when
\* it is over (RatelimitManager._verify_cache, RatelimitBucket).
EvictionIsInvisible == Limiter!Spec

\* Two that ban at the same time do not ban the same subject: the lock is
\* asked for and taken with nothing between, whatever fails under it is given
\* back, and whoever finds it held leaves the ban to its holder (on_ban).
Banning(s) == {h \in Handlers : who[h] = s /\ pc[h] \in {"insert", "webhook"}}

OneBanAtATime ==
    \A s \in Subjects :
        Banning(s) = IF lock[s] = None THEN {} ELSE {lock[s]}

\* A ban is for a burst: who is banned has made more than Threshold requests
\* in a row that found no token left, all of them within one Second; waiting
\* now and then never adds up to a ban (update_rate_limit, _verify_cache).
BanIsForABurst ==
    [][\A s \in Subjects :
          lock[s] = None /\ lock'[s] # None =>
              streak'[s] > Threshold /\ now - since'[s] <= Second]_vars

\* In no Second, both ends included, do more requests find a token than the
\* last of one window and the whole of the next: those of the rule, and those
\* but two if they are more (update_rate_limit).
RateIsBounded ==
    \A s \in Subjects :
        Cardinality(passes[s]) <= IF Requests = 1 THEN 1 ELSE 2 * Requests - 2

\* The time a refusal tells is the truth: the next request of the subject that
\* comes later passes, and one that comes just then is not told to wait again
\* (it may be banned: the refusals still count, _check_bucket).
ToldIsTrue ==
    [][\A h \in Handlers :
          LET s == who[h]
          IN  pc[h] = "limit" /\ pc'[h] # "limit" /\ told[s] # 0 =>
                  /\ now > told[s] => verdict'[s] = "pass"
                  /\ now = told[s] => verdict'[s] # "refused"]_vars

\* Who reached the limit of refusals is banned, by this request or by the one
\* that holds the lock, unless its INSERT fails (on_ban, ban_someone).
BanLands == \A s \in Subjects : s \in owed ~> s \notin owed
=============================================================================
