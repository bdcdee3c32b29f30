-------------------------- MODULE RateLimitProofs --------------------------
(***************************************************************************)
(* Proofs about the rate limiter, for any number of requests, users and    *)
(* seconds and for as long as it runs.  The invariant has four parts       *)
(* besides the types: what a bucket in the cache can look like, how the    *)
(* histories follow it, how many passes it has let through, and who holds  *)
(* the locks.                                                              *)
(***************************************************************************)
EXTENDS RateLimit, FiniteSetTheorems, TLAPS

USE RateLimitAssumption

\* A bucket in the cache was used: it has given a token away, its window began
\* at a use, and refusals were counted only while it had none.
BucketsOK ==
    /\ now > Second
    /\ \A s \in DOMAIN cache :
          /\ cache[s].window <= cache[s].last
          /\ cache[s].last <= now
          /\ cache[s].tokens < Requests
          /\ cache[s].retries > 0 => cache[s].tokens = 0

\* The histories follow the bucket while there is one; when it was dropped,
\* what it told is past.
HistoryOK ==
    \A s \in Subjects :
        /\ s \in DOMAIN cache =>
              /\ streak[s] = cache[s].retries
              /\ streak[s] > 0 => cache[s].window <= since[s] /\ since[s] <= now
              /\ told[s] # 0 =>
                    cache[s].tokens = 0 /\ told[s] = cache[s].window + Second
        /\ s \notin DOMAIN cache /\ told[s] # 0 => now > told[s]

LockOK ==
    /\ \A h \in Handlers : pc[h] # "idle" => who[h] \in Subjects
    /\ \A h \in Handlers : pc[h] \in {"insert", "webhook"} => lock[who[h]] = h
    /\ \A s \in Subjects :
          lock[s] # None =>
              /\ lock[s] \in Handlers
              /\ pc[lock[s]] \in {"insert", "webhook"} /\ who[lock[s]] = s

\* A set of passes that is finite, and within the Second until now.
Recent(P) ==
    IsFiniteSet(P) /\ \A p \in P : p[1] <= now /\ now <= p[1] + Second

At(P, t) == {p \in P : p[1] = t}

After(P, t) == {p \in P : p[1] > t}

\* Those of one time are numbered from 1 on, so that the next is a new one.
Numbered(P) == \A p \in P : p[2] \in 1 .. Cardinality(At(P, p[1]))

\* What a window may still hold of the passes of the one before it: all but
\* the first, which began that one, and the last, which began this one.
Overlap == IF Requests = 1 THEN 0 ELSE Requests - 2

\* What bucket b says of the passes P of its subject.  A window begins at its
\* first pass, and anew at its last: a bucket that is used up has let nothing
\* through since, and one that is not only as much as it lacks.
Within(P, b) ==
    /\ \A p \in P : p[1] <= b.last
    /\ b.tokens = 0 => \A p \in P : p[1] <= b.window
    /\ b.tokens > 0 => Cardinality(After(P, b.window)) < Requests - b.tokens
    /\ Cardinality(P) <= Requests - b.tokens + Overlap

RateOK ==
    \A s \in Subjects :
        /\ Recent(passes[s]) /\ Numbered(passes[s])
        /\ s \in DOMAIN cache => Within(passes[s], cache[s])
        /\ s \notin DOMAIN cache => passes[s] = {}

Inv == TypeOK /\ BucketsOK /\ HistoryOK /\ RateOK /\ LockOK

-----------------------------------------------------------------------------
(* the bucket *)

\* A bucket without a token is in the cache and its window is not over.
LEMMA Exhausted ==
    ASSUME TypeOK, BucketsOK, NEW s \in Subjects, Tokens(Bucketed(s)) = 0
    PROVE  /\ s \in DOMAIN cache \ DeadKeys
           /\ Bucketed(s) = cache[s]
           /\ cache[s].tokens = 0
           /\ now <= cache[s].window + Second
<1>1. Tokens(NewBucket) = Requests
  BY DEF Tokens, NewBucket, BucketsOK, TypeOK
<1>2. s \in DOMAIN cache \ DeadKeys
  BY <1>1 DEF Bucketed
<1>3. Bucketed(s) = cache[s] /\ cache[s] \in Bucket
  BY <1>2 DEF Bucketed, TypeOK
<1> QED
  BY <1>2, <1>3 DEF Tokens, TypeOK, Bucket

\* A bucket with a token left: new, over, or not used up.
LEMMA NotExhausted ==
    ASSUME TypeOK, BucketsOK, NEW s \in Subjects, Tokens(Bucketed(s)) # 0
    PROVE  Tokens(Bucketed(s)) \in 1 .. Requests
<1>1. Bucketed(s) \in Bucket
  BY DEF Bucketed, NewBucket, TypeOK, Bucket
<1> QED
  BY <1>1 DEF Tokens, Bucket, TypeOK

LEMMA BucketedType ==
    ASSUME TypeOK, NEW s \in Subjects
    PROVE  Bucketed(s) \in Bucket
  BY DEF Bucketed, NewBucket, TypeOK, Bucket

\* What one update makes of any bucket.
LEMMA UpdatedFacts ==
    ASSUME TypeOK, NEW b \in Bucket, b.window <= now
    PROVE  /\ Updated(b) \in Bucket
           /\ Updated(b).window <= Updated(b).last
           /\ Updated(b).last = now
           /\ Updated(b).tokens < Requests
           /\ Updated(b).retries > 0 => Updated(b).tokens = 0
           /\ Tokens(b) = 0 => /\ Updated(b).retries = Retried(b.retries)
                               /\ Updated(b).tokens = 0
           /\ Tokens(b) # 0 => Updated(b).retries = 0
<1>1. Tokens(b) \in 0 .. Requests
  BY DEF Tokens, Bucket, TypeOK
<1>2. Retried(b.retries) \in 1 .. Threshold + 1
  BY DEF Retried, Bucket
<1> QED
  BY <1>1, <1>2 DEF Updated, Bucket, TypeOK

\* A bucket without a token keeps its window.
LEMMA WindowStays ==
    ASSUME TypeOK, NEW b \in Bucket, Tokens(b) = 0
    PROVE  Updated(b).window = b.window
  BY DEF Updated, Bucket

LEMMA BucketedPast ==
    ASSUME TypeOK, BucketsOK, NEW s \in Subjects
    PROVE  Bucketed(s) \in Bucket /\ Bucketed(s).window <= now
<1>1. CASE s \in DOMAIN cache \ DeadKeys
  BY <1>1 DEF Bucketed, TypeOK, BucketsOK, Bucket
<1>2. CASE s \notin DOMAIN cache \ DeadKeys
  BY <1>2 DEF Bucketed, NewBucket, TypeOK, Bucket
<1> QED
  BY <1>1, <1>2

\* What the bucket's verdict says of it.
LEMMA VerdictFacts ==
    ASSUME TypeOK, BucketsOK, NEW s \in Subjects, NEW b, b = Bucketed(s)
    PROVE  /\ Verdict(b) \in {"pass", "refused", "banned"}
           /\ Tokens(b) # 0 => Verdict(b) = "pass"
           /\ Verdict(b) = "refused" =>
                 /\ RetryAfter(b) \in Nat \ {0}
                 /\ now + RetryAfter(b) = b.window + Second
                 /\ Updated(b).window = b.window
           /\ Tokens(b) = 0 /\ now = b.window + Second => Verdict(b) # "refused"
<1>1. b \in Bucket /\ b.window <= now
  BY BucketedPast
<1>2. /\ Updated(b) \in Bucket
      /\ Tokens(b) = 0 => Updated(b).retries = Retried(b.retries)
      /\ Tokens(b) # 0 => Updated(b).retries = 0
  BY <1>1, UpdatedFacts
<1>3. Updated(b).retries \in 0 .. Threshold + 1
  BY <1>2 DEF Bucket
<1>4. CASE Tokens(b) = 0
  <2>1. now <= b.window + Second
    BY <1>4, Exhausted
  <2>2. b.window \in Nat /\ now \in Nat
    BY <1>1 DEF Bucket, TypeOK
  <2>3. RetryAfter(b) = b.window + Second - now /\ RetryAfter(b) \in Nat
    BY <1>4, <2>1, <2>2 DEF RetryAfter
  <2>4. Updated(b).window = b.window
    BY <1>1, <1>4, WindowStays
  <2> QED
    BY <1>3, <1>4, <2>2, <2>3, <2>4 DEF Verdict
<1>5. CASE Tokens(b) # 0
  <2>1. RetryAfter(b) = 0
    BY <1>5, NotExhausted DEF RetryAfter
  <2>2. Verdict(b) = "pass"
    BY <1>2, <1>5, <2>1 DEF Verdict
  <2> QED
    BY <1>5, <2>2
<1> QED
  BY <1>4, <1>5

-----------------------------------------------------------------------------
(* the passes *)

\* The next pass has a number that no other of its time has.
LEMMA NextIsNew ==
    ASSUME NEW P \in SUBSET (Nat \X Nat), IsFiniteSet(P), Numbered(P),
           NEW t \in Nat, NEW x, x = <<t, Cardinality(At(P, t)) + 1>>
    PROVE  /\ x \in Nat \X Nat /\ x \notin P
           /\ IsFiniteSet(P \cup {x}) /\ Numbered(P \cup {x})
           /\ Cardinality(P \cup {x}) = Cardinality(P) + 1
<1> DEFINE n == Cardinality(At(P, t))
<1>1. IsFiniteSet(At(P, t)) /\ n \in Nat
  BY FS_Subset, FS_CardinalityType DEF At
<1>2. x = <<t, n + 1>> /\ x[1] = t /\ x[2] = n + 1
  BY <1>1
<1>3. x \notin P
  BY <1>1, <1>2 DEF Numbered
<1>4. /\ IsFiniteSet(P \cup {x})
      /\ Cardinality(P \cup {x}) = Cardinality(P) + 1
  BY <1>3, FS_AddElement
<1>5. /\ At(P \cup {x}, t) = At(P, t) \cup {x}
      /\ \A u : u # t => At(P \cup {x}, u) = At(P, u)
  BY <1>2 DEF At
<1>6. Cardinality(At(P \cup {x}, t)) = n + 1
  <2>1. x \notin At(P, t)
    BY <1>3 DEF At
  <2>2. Cardinality(At(P, t) \cup {x}) = n + 1
    BY <1>1, <2>1, FS_AddElement
  <2> QED
    BY <1>5, <2>2
<1>7. Numbered(P \cup {x})
  <2> SUFFICES ASSUME NEW p \in P \cup {x}
               PROVE  p[2] \in 1 .. Cardinality(At(P \cup {x}, p[1]))
    BY DEF Numbered
  <2> HIDE DEF n
  <2>1. CASE p = x
    BY <1>1, <1>2, <1>6, <2>1
  <2>2. CASE p \in P
    <3>1. p[2] \in 1 .. Cardinality(At(P, p[1]))
      BY <2>2 DEF Numbered
    <3>2. CASE p[1] = t
      BY <1>1, <1>6, <3>1, <3>2 DEF n
    <3>3. CASE p[1] # t
      BY <1>5, <3>1, <3>3
    <3> QED
      BY <3>2, <3>3
  <2> QED
    BY <2>1, <2>2
<1> QED
  BY <1>1, <1>2, <1>3, <1>4, <1>7

\* A bucket with a token left lets the pass x through at its time.
LEMMA PassWithin ==
    ASSUME TypeOK, BucketsOK, NEW b \in Bucket, Tokens(b) # 0, Tokens(b) \in 1 .. Requests,
           NEW P \in SUBSET (Nat \X Nat), Recent(P),
           \/ P = {} /\ Tokens(b) = Requests
           \/ Within(P, b) /\ b.tokens < Requests,
           NEW x \in Nat \X Nat, x[1] = now, x \notin P,
           NEW PX, PX = P \cup {x}
    PROVE  Within(PX, Updated(b))
<1>1. /\ Requests \in Nat \ {0} /\ Second \in Nat /\ now \in Nat
      /\ b.tokens \in 0 .. Requests /\ b.window \in Nat
  BY DEF TypeOK, Bucket
<1>2. Updated(b) = [window |-> IF Tokens(b) \in {1, Requests} THEN now ELSE b.window,
                    last |-> now, tokens |-> Tokens(b) - 1, retries |-> 0]
  BY DEF Updated
<1>3. \A p \in P : p[1] \in Nat /\ p[1] <= now /\ now <= p[1] + Second
  BY DEF Recent
<1>4. /\ IsFiniteSet(P) /\ Cardinality(P) \in Nat
      /\ Cardinality(PX) = Cardinality(P) + 1
  BY FS_AddElement, FS_CardinalityType DEF Recent
<1>5. \A p \in PX : p[1] \in Nat /\ p[1] <= now
  BY <1>1, <1>3
<1>6. After(PX, now) = {}
  BY <1>1, <1>5 DEF After
<1>7. CASE Tokens(b) = Requests
  <2>1. Cardinality(P) <= Overlap
    <3>1. CASE P = {}
      BY <1>1, <3>1, FS_EmptySet DEF Overlap
    <3>2. CASE Within(P, b) /\ b.tokens < Requests
      <4>1. now > b.window + Second
        BY <1>1, <1>7, <3>2 DEF Tokens
      <4>2. \A p \in P : p[1] > b.window
        BY <1>1, <1>3, <4>1
      <4>3. CASE b.tokens = 0
        <5>1. P = {}
          BY <1>1, <1>3, <3>2, <4>2, <4>3 DEF Within
        <5> QED
          BY <1>1, <5>1, FS_EmptySet DEF Overlap
      <4>4. CASE b.tokens > 0
        <5>1. After(P, b.window) = P
          BY <4>2 DEF After
        <5>2. Cardinality(P) < Requests - b.tokens
          BY <3>2, <4>4, <5>1 DEF Within
        <5> QED
          BY <1>1, <1>4, <4>4, <5>2 DEF Overlap
      <4> QED
        BY <1>1, <4>3, <4>4
    <3> QED
      BY <3>1, <3>2
  <2>2. Updated(b).window = now /\ Updated(b).last = now /\ Updated(b).tokens = Requests - 1
    BY <1>2, <1>7
  <2>3. Cardinality(After(PX, now)) = 0
    BY <1>6, FS_EmptySet
  <2>4. Overlap \in Nat
    BY <1>1 DEF Overlap
  <2>5. Cardinality(PX) <= Requests - (Requests - 1) + Overlap
    BY <1>1, <1>4, <2>1, <2>4
  <2> QED
    BY <1>1, <1>5, <2>2, <2>3, <2>5 DEF Within
<1>8. CASE Tokens(b) # Requests
  <2>1. Within(P, b) /\ Tokens(b) = b.tokens /\ b.tokens \in 1 .. Requests - 1
    BY <1>1, <1>8 DEF Tokens
  <2>2. Overlap = Requests - 2 /\ Cardinality(P) <= Requests - b.tokens + Overlap
    BY <1>1, <2>1 DEF Overlap, Within
  <2>3. Cardinality(PX) <= Requests - (b.tokens - 1) + Overlap
    BY <1>1, <1>4, <2>1, <2>2
  <2>4. CASE b.tokens = 1
    <3>1. Updated(b).window = now /\ Updated(b).last = now /\ Updated(b).tokens = 0
      BY <1>2, <2>1, <2>4
    <3> QED
      BY <1>1, <1>5, <2>3, <2>4, <3>1 DEF Within
  <2>5. CASE b.tokens # 1
    <3>1. /\ Updated(b).window = b.window /\ Updated(b).last = now
          /\ Updated(b).tokens = b.tokens - 1 /\ b.tokens - 1 > 0
      BY <1>1, <1>2, <1>8, <2>1, <2>5
    <3>2. /\ IsFiniteSet(After(P, b.window)) /\ Cardinality(After(P, b.window)) \in Nat
          /\ Cardinality(After(P, b.window)) < Requests - b.tokens
      BY <1>1, <1>4, <2>1, FS_Subset, FS_CardinalityType DEF Within, After
    <3>3. After(PX, b.window) \in SUBSET (After(P, b.window) \cup {x})
      BY DEF After
    <3>4. /\ IsFiniteSet(After(P, b.window) \cup {x})
          /\ Cardinality(After(P, b.window) \cup {x}) = Cardinality(After(P, b.window)) + 1
      <4>1. x \notin After(P, b.window)
        BY DEF After
      <4> QED
        BY <3>2, <4>1, FS_AddElement
    <3>5. Cardinality(After(PX, b.window)) <= Cardinality(After(P, b.window)) + 1
          /\ Cardinality(After(PX, b.window)) \in Nat
      <4> DEFINE W == After(P, b.window) \cup {x}
      <4>1. After(PX, b.window) \in SUBSET W /\ IsFiniteSet(W)
        BY <3>3, <3>4
      <4> HIDE DEF W
      <4>2. /\ Cardinality(After(PX, b.window)) <= Cardinality(W)
            /\ IsFiniteSet(After(PX, b.window))
        BY <4>1, FS_Subset
      <4>3. Cardinality(After(PX, b.window)) \in Nat
        BY <4>2, FS_CardinalityType
      <4> QED
        BY <3>4, <4>2, <4>3 DEF W
    <3>6. Cardinality(After(PX, b.window)) < Requests - (b.tokens - 1)
      BY <1>1, <2>1, <3>2, <3>5
    <3> QED
      BY <1>1, <1>5, <2>3, <3>1, <3>6 DEF Within
  <2> QED
    BY <2>4, <2>5
<1> QED
  BY <1>7, <1>8

-----------------------------------------------------------------------------
(* the invariant *)

LEMMA Initially == Init => Inv
<1> SUFFICES ASSUME Init PROVE Inv
  OBVIOUS
<1>1. TypeOK
  BY DEF Init, TypeOK
<1>2. BucketsOK /\ HistoryOK /\ LockOK
  BY DEF Init, BucketsOK, HistoryOK, LockOK
<1>3. RateOK
  BY FS_EmptySet DEF Init, RateOK, Recent, Numbered
<1> QED
  BY <1>1, <1>2, <1>3 DEF Inv

\* What Limit does to the cache and the histories, one subject at a time.
LEMMA LimitTables ==
    ASSUME TypeOK, BucketsOK, LockOK, NEW h \in Handlers, Limit(h)
    PROVE  LET s == who[h]
               b == Bucketed(s)
           IN  /\ s \in Subjects /\ now' = now
               /\ DOMAIN cache' = (DOMAIN cache \ DeadKeys) \cup {s}
               /\ cache'[s] = Updated(b)
               /\ \A x \in DOMAIN cache \ DeadKeys : x # s => cache'[x] = cache[x]
               /\ verdict'[s] = Verdict(b)
               /\ told'[s] = CASE Verdict(b) = "refused" -> now + RetryAfter(b)
                               [] Verdict(b) = "pass" -> 0
                               [] Verdict(b) = "banned" -> told[s]
               /\ streak'[s] = IF Tokens(b) > 0 THEN 0 ELSE Retried(streak[s])
               /\ since'[s] = IF Tokens(b) > 0 THEN 0
                              ELSE IF streak[s] = 0 THEN now ELSE since[s]
               /\ \A x \in Subjects : x # s =>
                     /\ verdict'[x] = verdict[x] /\ told'[x] = told[x]
                     /\ streak'[x] = streak[x] /\ since'[x] = since[x]
<1>1. who[h] \in Subjects /\ now' = now
  BY DEF Limit, LockOK
<1>2. cache' = [x \in (DOMAIN cache \ DeadKeys) \cup {who[h]} |->
                   IF x = who[h] THEN Updated(Bucketed(who[h])) ELSE cache[x]]
  BY DEF Limit
<1>3. Remember(who[h], Bucketed(who[h]))
  BY DEF Limit
<1>4. /\ verdict \in [Subjects -> {"none", "pass", "refused", "banned"}]
      /\ told \in [Subjects -> Nat] /\ since \in [Subjects -> Nat]
      /\ streak \in [Subjects -> 0 .. Threshold + 1]
  BY DEF TypeOK
<1> QED
  BY <1>1, <1>2, <1>3, <1>4 DEF Remember

\* What Limit does to the passes.
LEMMA LimitPasses ==
    ASSUME Inv, NEW h \in Handlers, Limit(h)
    PROVE  LET s == who[h]
           IN  /\ \A x \in Subjects : x # s => passes'[x] = passes[x]
               /\ Tokens(Bucketed(s)) = 0 => passes'[s] = passes[s]
               /\ Tokens(Bucketed(s)) # 0 => passes'[s] = passes[s] \cup {NextPass(s)}
               /\ passes' \in [Subjects -> SUBSET (Nat \X Nat)]
               /\ NextPass(s) \in Nat \X Nat /\ NextPass(s)[1] = now
               /\ NextPass(s) \notin passes[s]
               /\ Numbered(passes[s] \cup {NextPass(s)})
<1>1. /\ who[h] \in Subjects /\ passes \in [Subjects -> SUBSET (Nat \X Nat)]
      /\ now \in Nat /\ Remember(who[h], Bucketed(who[h]))
  BY DEF Inv, TypeOK, LockOK, Limit
<1>2. IsFiniteSet(passes[who[h]]) /\ Numbered(passes[who[h]])
  BY <1>1 DEF Inv, RateOK, Recent
<1>3. /\ NextPass(who[h]) \in Nat \X Nat /\ NextPass(who[h]) \notin passes[who[h]]
      /\ Numbered(passes[who[h]] \cup {NextPass(who[h])})
  BY <1>1, <1>2, NextIsNew DEF NextPass, At
<1>4. NextPass(who[h])[1] = now
  BY DEF NextPass
<1>5. Tokens(Bucketed(who[h])) # 0 => Tokens(Bucketed(who[h])) > 0
  BY <1>1, NotExhausted DEF Inv
<1>6. passes' = [passes EXCEPT ![who[h]] = IF Tokens(Bucketed(who[h])) > 0
                                           THEN passes[who[h]] \cup {NextPass(who[h])}
                                           ELSE passes[who[h]]]
  BY <1>1 DEF Remember
<1>7. Tokens(Bucketed(who[h])) # 0 => passes'[who[h]] = passes[who[h]] \cup {NextPass(who[h])}
  BY <1>1, <1>5, <1>6
<1>8. Tokens(Bucketed(who[h])) = 0 => passes'[who[h]] = passes[who[h]]
  BY <1>1, <1>6
<1>9. /\ \A x \in Subjects : x # who[h] => passes'[x] = passes[x]
      /\ passes' \in [Subjects -> SUBSET (Nat \X Nat)]
  BY <1>1, <1>3, <1>6
<1> QED
  BY <1>3, <1>4, <1>7, <1>8, <1>9

LEMMA LimitTypes ==
    ASSUME Inv, NEW h \in Handlers, Limit(h)
    PROVE  TypeOK'
<1> DEFINE s == who[h]
           b == Bucketed(s)
<1>1. TypeOK /\ BucketsOK /\ LockOK
  BY DEF Inv
<1>2. s \in Subjects /\ b \in Bucket /\ b.window <= now
  BY <1>1, BucketedPast DEF LockOK, Limit
<1>3. Updated(b) \in Bucket
  BY <1>1, <1>2, UpdatedFacts
<1>4. DOMAIN cache' \subseteq Subjects /\ \A x \in DOMAIN cache' : cache'[x] \in Bucket
  <2>1. cache' = [x \in (DOMAIN cache \ DeadKeys) \cup {s} |->
                     IF x = s THEN Updated(b) ELSE cache[x]]
    BY DEF Limit
  <2> QED
    BY <1>1, <1>2, <1>3, <2>1 DEF TypeOK
<1>5. /\ Verdict(b) \in {"pass", "refused", "banned"}
      /\ Verdict(b) = "refused" => now + RetryAfter(b) \in Nat
  BY <1>1, <1>2, VerdictFacts DEF TypeOK
<1>6. Retried(streak[s]) \in 0 .. Threshold + 1 /\ now \in Nat
  BY <1>1, <1>2 DEF TypeOK, Retried
<1>7. Remember(s, b) /\ Raise(h, Verdict(b)) /\ now' = now /\ banned' = banned
      /\ failures' = failures
      /\ owed' = IF Verdict(b) = "banned" THEN owed \cup ({s} \ banned) ELSE owed
  BY DEF Limit
<1>8. /\ verdict' \in [Subjects -> {"none", "pass", "refused", "banned"}]
      /\ streak' \in [Subjects -> 0 .. Threshold + 1] /\ since' \in [Subjects -> Nat]
  BY <1>1, <1>2, <1>5, <1>6, <1>7 DEF TypeOK, Remember
<1>9. told' \in [Subjects -> Nat]
  BY <1>1, <1>2, <1>5, <1>7 DEF TypeOK, Remember
<1>10. passes' \in [Subjects -> SUBSET (Nat \X Nat)]
  BY LimitPasses
<1>11. /\ pc' \in [Handlers -> {"idle", "limit", "insert", "webhook"}]
       /\ who' \in [Handlers -> Subjects \cup {None}]
       /\ lock' \in [Subjects -> Handlers \cup {None}]
  <2>1. /\ pc \in [Handlers -> {"idle", "limit", "insert", "webhook"}]
        /\ who \in [Handlers -> Subjects \cup {None}]
        /\ lock \in [Subjects -> Handlers \cup {None}]
    BY <1>1 DEF TypeOK
  <2>2. CASE Verdict(b) = "banned" /\ lock[s] = None
    <3>1. /\ pc' = [pc EXCEPT ![h] = "insert"] /\ who' = who
          /\ lock' = [lock EXCEPT ![s] = h]
      BY <1>7, <2>2 DEF Raise, Goto
    <3> QED
      BY <1>2, <2>1, <3>1
  <2>3. CASE ~(Verdict(b) = "banned" /\ lock[s] = None)
    <3>1. /\ pc' = [pc EXCEPT ![h] = "idle"] /\ who' = [who EXCEPT ![h] = None]
          /\ lock' = lock
      BY <1>7, <2>3 DEF Raise, End, Goto
    <3> QED
      BY <2>1, <3>1
  <2> QED
    BY <2>2, <2>3
<1> QED
  BY <1>1, <1>2, <1>4, <1>6, <1>7, <1>8, <1>9, <1>10, <1>11 DEF TypeOK

LEMMA LimitBuckets ==
    ASSUME Inv, NEW h \in Handlers, Limit(h)
    PROVE  BucketsOK'
<1> DEFINE s == who[h]
           b == Bucketed(s)
<1>1. TypeOK /\ BucketsOK /\ LockOK
  BY DEF Inv
<1>2. s \in Subjects /\ b \in Bucket /\ b.window <= now
  BY <1>1, BucketedPast DEF LockOK, Limit
<1>3. /\ now' = now /\ DOMAIN cache' = (DOMAIN cache \ DeadKeys) \cup {s}
      /\ cache'[s] = Updated(b)
      /\ \A x \in DOMAIN cache \ DeadKeys : x # s => cache'[x] = cache[x]
  BY <1>1, LimitTables
<1>4. /\ Updated(b).window <= Updated(b).last /\ Updated(b).last = now
      /\ Updated(b).tokens < Requests
      /\ Updated(b).retries > 0 => Updated(b).tokens = 0
      /\ now <= now
  BY <1>1, <1>2, UpdatedFacts DEF TypeOK
<1> HIDE DEF s, b
<1> QED
  BY <1>1, <1>3, <1>4 DEF BucketsOK

LEMMA LimitHistory ==
    ASSUME Inv, NEW h \in Handlers, Limit(h)
    PROVE  HistoryOK'
<1> DEFINE s == who[h]
           b == Bucketed(s)
<1>1. TypeOK /\ BucketsOK /\ LockOK /\ HistoryOK
  BY DEF Inv
<1>2. s \in Subjects /\ b \in Bucket /\ b.window <= now
  BY <1>1, BucketedPast DEF LockOK, Limit
<1>3. /\ now' = now /\ DOMAIN cache' = (DOMAIN cache \ DeadKeys) \cup {s}
      /\ cache'[s] = Updated(b)
      /\ \A x \in DOMAIN cache \ DeadKeys : x # s => cache'[x] = cache[x]
      /\ \A x \in Subjects : x # s =>
            told'[x] = told[x] /\ streak'[x] = streak[x] /\ since'[x] = since[x]
  BY <1>1, LimitTables
<1>4. ASSUME NEW x \in Subjects, x # s
      PROVE  /\ x \in DOMAIN cache' =>
                   /\ streak'[x] = cache'[x].retries
                   /\ streak'[x] > 0 => cache'[x].window <= since'[x] /\ since'[x] <= now'
                   /\ told'[x] # 0 =>
                         cache'[x].tokens = 0 /\ told'[x] = cache'[x].window + Second
             /\ x \notin DOMAIN cache' /\ told'[x] # 0 => now' > told'[x]
  <2>1. CASE x \in DOMAIN cache \ DeadKeys
    <3> HIDE DEF s, b
    <3> QED
      BY <1>1, <1>3, <1>4, <2>1 DEF HistoryOK
  <2>2. CASE x \in DeadKeys
    <3>1. x \in DOMAIN cache /\ now > cache[x].last + Second
          /\ cache[x].window <= cache[x].last /\ cache[x] \in Bucket
      BY <1>1, <2>2 DEF DeadKeys, BucketsOK, TypeOK
    <3>2. told[x] # 0 => told[x] = cache[x].window + Second
      BY <1>1, <3>1 DEF HistoryOK
    <3>3. told[x] # 0 => now > told[x]
      BY <1>1, <3>1, <3>2 DEF Bucket, TypeOK
    <3>4. x \notin DOMAIN cache'
      BY <1>3, <1>4, <2>2
    <3> QED
      BY <1>3, <1>4, <3>3, <3>4
  <2>3. CASE x \notin DOMAIN cache
    <3> HIDE DEF s, b
    <3> QED
      BY <1>1, <1>3, <1>4, <2>3 DEF HistoryOK
  <2> QED
    BY <2>1, <2>2, <2>3
<1>5. /\ s \in DOMAIN cache' =>
            /\ streak'[s] = cache'[s].retries
            /\ streak'[s] > 0 => cache'[s].window <= since'[s] /\ since'[s] <= now'
            /\ told'[s] # 0 =>
                  cache'[s].tokens = 0 /\ told'[s] = cache'[s].window + Second
      /\ s \notin DOMAIN cache' /\ told'[s] # 0 => now' > told'[s]
  <2>1. /\ told'[s] = CASE Verdict(b) = "refused" -> now + RetryAfter(b)
                        [] Verdict(b) = "pass" -> 0
                        [] Verdict(b) = "banned" -> told[s]
        /\ streak'[s] = IF Tokens(b) > 0 THEN 0 ELSE Retried(streak[s])
        /\ since'[s] = IF Tokens(b) > 0 THEN 0
                       ELSE IF streak[s] = 0 THEN now ELSE since[s]
    BY <1>1, LimitTables
  <2>2. /\ Verdict(b) \in {"pass", "refused", "banned"}
        /\ Tokens(b) # 0 => Verdict(b) = "pass"
        /\ Verdict(b) = "refused" =>
              now + RetryAfter(b) = b.window + Second /\ Updated(b).window = b.window
    BY <1>1, <1>2, VerdictFacts
  <2>3. /\ Tokens(b) = 0 => /\ Updated(b).retries = Retried(b.retries)
                            /\ Updated(b).tokens = 0
        /\ Tokens(b) # 0 => Updated(b).retries = 0
    BY <1>1, <1>2, UpdatedFacts
  <2>4. CASE Tokens(b) = 0
    <3>1. s \in DOMAIN cache /\ b = cache[s] /\ cache[s].tokens = 0
      BY <1>1, <1>2, <2>4, Exhausted
    <3>2. Updated(b).window = b.window
      BY <1>1, <1>2, <2>4, WindowStays
    <3>3. /\ streak[s] = b.retries
          /\ streak[s] > 0 => b.window <= since[s] /\ since[s] <= now
          /\ told[s] # 0 => told[s] = b.window + Second
      BY <1>1, <1>2, <3>1 DEF HistoryOK
    <3>4. streak[s] \in Nat /\ now \in Nat
      BY <1>1, <1>2 DEF TypeOK
    <3> HIDE DEF s, b
    <3> QED
      BY <1>2, <1>3, <2>1, <2>2, <2>3, <2>4, <3>2, <3>3, <3>4
  <2>5. CASE Tokens(b) # 0
    <3>1. Tokens(b) \in 1 .. Requests
      BY <1>1, <1>2, <2>5, NotExhausted
    <3> HIDE DEF s, b
    <3> QED
      BY <1>3, <2>1, <2>2, <2>3, <2>5, <3>1
  <2> QED
    BY <2>4, <2>5
<1> HIDE DEF s, b
<1> QED
  BY <1>4, <1>5 DEF HistoryOK

\* Every pass is counted by the bucket that let it through, or is past when
\* the bucket is dropped.
LEMMA LimitRate ==
    ASSUME Inv, NEW h \in Handlers, Limit(h)
    PROVE  RateOK'
<1> DEFINE s == who[h]
           b == Bucketed(s)
           P == passes[s]
<1>1. TypeOK /\ BucketsOK /\ LockOK /\ RateOK
  BY DEF Inv
<1>2. s \in Subjects /\ b \in Bucket /\ b.window <= now /\ now \in Nat
  BY <1>1, BucketedPast DEF LockOK, Limit, TypeOK
<1>3. /\ now' = now /\ DOMAIN cache' = (DOMAIN cache \ DeadKeys) \cup {s}
      /\ cache'[s] = Updated(b)
      /\ \A x \in DOMAIN cache \ DeadKeys : x # s => cache'[x] = cache[x]
  BY <1>1, LimitTables
<1>4. ASSUME NEW x \in DeadKeys PROVE passes[x] = {}
  <2>1. x \in DOMAIN cache /\ x \in Subjects /\ now > cache[x].last + Second
        /\ cache[x].last \in Nat
    BY <1>1, <1>4 DEF DeadKeys, TypeOK, Bucket
  <2>2. \A p \in passes[x] : p[1] <= cache[x].last /\ now <= p[1] + Second
    BY <1>1, <2>1 DEF RateOK, Within, Recent
  <2>3. \A p \in passes[x] : p[1] \in Nat
    BY <1>1, <2>1 DEF TypeOK
  <2> QED
    BY <1>2, <2>1, <2>2, <2>3
<1>5. ASSUME NEW x \in Subjects, x # s
      PROVE  /\ Recent(passes[x])' /\ Numbered(passes[x])'
             /\ x \in DOMAIN cache' => Within(passes[x], cache[x])'
             /\ x \notin DOMAIN cache' => passes'[x] = {}
  <2>1. passes'[x] = passes[x]
    BY <1>5, LimitPasses
  <2>2. Recent(passes[x])' /\ Numbered(passes[x])'
    BY <1>1, <1>3, <2>1 DEF RateOK, Recent, Numbered
  <2>3. x \in DOMAIN cache' => x \in DOMAIN cache /\ cache'[x] = cache[x]
    BY <1>3, <1>5
  <2>4. x \in DOMAIN cache' => Within(passes[x], cache[x])'
    BY <1>1, <2>1, <2>3 DEF RateOK, Within
  <2>5. x \notin DOMAIN cache' => x \in DeadKeys \/ x \notin DOMAIN cache
    BY <1>3
  <2>6. x \notin DOMAIN cache' => passes'[x] = {}
    BY <1>1, <1>4, <2>1, <2>5 DEF RateOK
  <2> QED
    BY <2>2, <2>4, <2>6
<1>6. /\ P \in SUBSET (Nat \X Nat) /\ Recent(P) /\ Numbered(P)
  BY <1>1, <1>2 DEF TypeOK, RateOK
<1>7. \/ P = {} /\ Tokens(b) = Requests
      \/ s \in DOMAIN cache /\ b = cache[s] /\ Within(P, b) /\ b.tokens < Requests
  <2>1. CASE s \in DOMAIN cache \ DeadKeys
    BY <1>1, <1>2, <2>1 DEF Bucketed, RateOK, BucketsOK
  <2>2. CASE s \notin DOMAIN cache \ DeadKeys
    <3>1. P = {}
      BY <1>1, <1>2, <1>4, <2>2 DEF RateOK
    <3>2. Tokens(b) = Requests
      BY <1>1, <1>2, <2>2 DEF Bucketed, NewBucket, Tokens, BucketsOK
    <3> QED
      BY <3>1, <3>2
  <2> QED
    BY <2>1, <2>2
<1>8. Recent(passes'[s]) /\ Numbered(passes'[s]) /\ Within(passes'[s], Updated(b))
  <2>1. CASE Tokens(b) = 0
    <3>1. passes'[s] = P
      BY <2>1, LimitPasses
    <3>2. s \in DOMAIN cache /\ b = cache[s] /\ b.tokens = 0
      BY <1>1, <1>2, <2>1, Exhausted
    <3>3. Within(P, b)
      BY <1>7, <2>1, <3>2
    <3>4. Updated(b).window = b.window /\ Updated(b).tokens = 0 /\ Updated(b).last = now
      BY <1>1, <1>2, <2>1, UpdatedFacts, WindowStays
    <3>5. \A p \in P : p[1] <= now
      BY <1>6 DEF Recent
    <3>6. Within(P, Updated(b))
      BY <3>2, <3>3, <3>4, <3>5 DEF Within
    <3> QED
      BY <1>6, <3>1, <3>6
  <2>2. CASE Tokens(b) # 0
    <3> DEFINE x == NextPass(s)
    <3>1. passes'[s] = P \cup {x} /\ Numbered(P \cup {x})
          /\ x \in Nat \X Nat /\ x[1] = now /\ x \notin P
      BY <2>2, LimitPasses
    <3>2. Tokens(b) \in 1 .. Requests
      BY <1>1, <1>2, <2>2, NotExhausted
    <3>3. Within(P \cup {x}, Updated(b))
      <4> HIDE DEF x, P, b
      <4> QED
        BY <1>1, <1>2, <1>6, <1>7, <2>2, <3>1, <3>2, PassWithin
    <3>4. Recent(P \cup {x})
      <4>1. IsFiniteSet(P \cup {x})
        BY <1>6, FS_AddElement DEF Recent
      <4>2. now <= now /\ now <= now + Second
        BY <1>2
      <4> QED
        BY <1>6, <3>1, <4>1, <4>2 DEF Recent
    <3> QED
      BY <3>1, <3>3, <3>4
  <2> QED
    BY <2>1, <2>2
<1>9. ASSUME NEW x \in Subjects
      PROVE  /\ Recent(passes[x])' /\ Numbered(passes[x])'
             /\ x \in DOMAIN cache' => Within(passes[x], cache[x])'
             /\ x \notin DOMAIN cache' => passes'[x] = {}
  <2>1. CASE x = s
    <3>1. Recent(passes[x])' /\ Numbered(passes[x])'
      BY <1>3, <1>8, <2>1 DEF Recent, Numbered
    <3>2. x \in DOMAIN cache' /\ Within(passes[x], cache[x])'
      BY <1>3, <1>8, <2>1 DEF Within
    <3> QED
      BY <3>1, <3>2
  <2> QED
    BY <1>5, <2>1
<1> QED
  BY <1>9 DEF RateOK

LEMMA LimitLocks ==
    ASSUME Inv, NEW h \in Handlers, Limit(h)
    PROVE  LockOK'
<1>1. TypeOK /\ LockOK
  BY DEF Inv
<1>2. /\ pc \in [Handlers -> {"idle", "limit", "insert", "webhook"}]
      /\ who \in [Handlers -> Subjects \cup {None}]
      /\ lock \in [Subjects -> Handlers \cup {None}]
  BY <1>1 DEF TypeOK
<1>3. pc[h] = "limit" /\ who[h] \in Subjects
  BY <1>1 DEF Limit, LockOK
<1>4. CASE pc' = [pc EXCEPT ![h] = "insert"] /\ who' = who
           /\ lock[who[h]] = None /\ lock' = [lock EXCEPT ![who[h]] = h]
  BY <1>1, <1>2, <1>3, <1>4 DEF LockOK
<1>5. CASE /\ pc' = [pc EXCEPT ![h] = "idle"] /\ who' = [who EXCEPT ![h] = None]
           /\ lock' = lock
  BY <1>1, <1>2, <1>3, <1>5 DEF LockOK
<1>6. Raise(h, Verdict(Bucketed(who[h])))
  BY DEF Limit
<1> QED
  BY <1>4, <1>5, <1>6 DEF Raise, End, Goto

\* The steps that leave the clock, the cache and the histories alone.
LEMMA TablesStay ==
    ASSUME Inv, UNCHANGED <<now, cache, historyVars>>
    PROVE  BucketsOK' /\ HistoryOK' /\ RateOK'
<1>1. BucketsOK' /\ HistoryOK'
  BY DEF Inv, BucketsOK, HistoryOK, historyVars
<1>2. RateOK'
  BY DEF Inv, RateOK, Recent, Numbered, Within, historyVars
<1> QED
  BY <1>1, <1>2

\* The clock forgets passes; the bucket still covers those that are left.
LEMMA TickRate ==
    ASSUME Inv, Tick
    PROVE  RateOK'
<1>1. /\ now' = now + 1 /\ cache' = cache /\ now \in Nat
      /\ passes' = [s \in Subjects |-> {p \in passes[s] : p[1] + Second >= now + 1}]
  BY DEF Inv, TypeOK, Tick
<1> SUFFICES ASSUME NEW s \in Subjects
             PROVE  /\ Recent(passes[s])' /\ Numbered(passes[s])'
                    /\ s \in DOMAIN cache => Within(passes'[s], cache[s])
                    /\ s \notin DOMAIN cache => passes'[s] = {}
  BY <1>1 DEF RateOK, Within
<1> DEFINE P == passes[s]
           Q == passes'[s]
<1>2. /\ Q = {p \in P : p[1] + Second >= now + 1} /\ P \in SUBSET (Nat \X Nat)
      /\ Recent(P) /\ Numbered(P)
  BY <1>1 DEF Inv, TypeOK, RateOK
<1>3. \A R \in SUBSET P : IsFiniteSet(R) /\ Cardinality(R) \in Nat
  BY <1>2, FS_Subset, FS_CardinalityType DEF Recent
<1>4. Recent(P)'
  <2>1. IsFiniteSet(Q)
    BY <1>2, <1>3
  <2>2. ASSUME NEW p \in Q PROVE p[1] <= now + 1 /\ now + 1 <= p[1] + Second
    <3>1. p[1] \in Nat /\ p[1] <= now /\ p[1] + Second >= now + 1
      BY <1>2, <2>2 DEF Recent
    <3> QED
      BY <1>1, <3>1
  <2> QED
    BY <1>1, <2>1, <2>2 DEF Recent
<1>5. ASSUME NEW p \in Q PROVE At(Q, p[1]) = At(P, p[1])
  BY <1>2 DEF At
<1>6. Numbered(P)'
  <2>1. \A p \in Q : p[2] \in 1 .. Cardinality(At(Q, p[1]))
    BY <1>2, <1>5 DEF Numbered
  <2> QED
    BY <2>1 DEF Numbered
<1>7. CASE s \in DOMAIN cache
  <2> DEFINE b == cache[s]
  <2>1. Within(P, b) /\ b \in Bucket
    BY <1>7 DEF Inv, RateOK, TypeOK
  <2>2. \A R \in SUBSET P, T \in SUBSET P : R \subseteq T => Cardinality(R) <= Cardinality(T)
    BY <1>3, FS_Subset
  <2>3. /\ Q \in SUBSET P
        /\ After(Q, b.window) \in SUBSET P /\ After(P, b.window) \in SUBSET P
        /\ After(Q, b.window) \subseteq After(P, b.window)
    BY <1>2 DEF After
  <2>4. Cardinality(Q) <= Cardinality(P)
        /\ Cardinality(After(Q, b.window)) <= Cardinality(After(P, b.window))
    BY <2>2, <2>3
  <2>5. b.tokens \in 0 .. Requests /\ Overlap \in Int /\ Requests \in Nat
    BY <2>1 DEF Bucket, Overlap
  <2>6. /\ Cardinality(Q) \in Nat /\ Cardinality(P) \in Nat
        /\ Cardinality(After(Q, b.window)) \in Nat
        /\ Cardinality(After(P, b.window)) \in Nat
    BY <1>3, <2>3
  <2>7. Cardinality(Q) <= Requests - b.tokens + Overlap
    BY <2>1, <2>4, <2>5, <2>6 DEF Within
  <2>8. b.tokens > 0 => Cardinality(After(Q, b.window)) < Requests - b.tokens
    BY <2>1, <2>4, <2>5, <2>6 DEF Within
  <2>9. /\ \A p \in Q : p[1] <= b.last
        /\ b.tokens = 0 => \A p \in Q : p[1] <= b.window
    BY <2>1, <2>3 DEF Within
  <2>10. Within(Q, b)
    BY <2>7, <2>8, <2>9 DEF Within
  <2> QED
    BY <1>4, <1>6, <1>7, <2>10
<1>8. CASE s \notin DOMAIN cache
  <2>1. Q = {}
    BY <1>2, <1>8 DEF Inv, RateOK
  <2> QED
    BY <1>4, <1>6, <1>8, <2>1
<1> QED
  BY <1>7, <1>8

LEMMA StepPreserves ==
    ASSUME Inv, [Next]_vars
    PROVE  Inv'
<1> USE DEF Inv
<1>1. ASSUME NEW h \in Handlers, Limit(h) PROVE Inv'
  BY <1>1, LimitTypes, LimitBuckets, LimitHistory, LimitRate, LimitLocks
<1>2. ASSUME NEW h \in Handlers, NEW s \in Subjects, Identified(h, s) PROVE Inv'
  <2>1. /\ pc' = [pc EXCEPT ![h] = "limit"] /\ who' = [who EXCEPT ![h] = s]
        /\ pc[h] = "idle" /\ UNCHANGED <<now, cache, banVars, historyVars>>
    BY <1>2 DEF Identified, Goto
  <2>2. TypeOK'
    BY <2>1 DEF TypeOK, banVars, historyVars
  <2>3. LockOK'
    BY <2>1 DEF LockOK, TypeOK, banVars
  <2> QED
    BY <2>1, <2>2, <2>3, TablesStay
<1>3. ASSUME NEW h \in Handlers, InsertBan(h) PROVE Inv'
  <2>1. /\ pc[h] = "insert" /\ pc' = [pc EXCEPT ![h] = "webhook"]
        /\ banned' = banned \cup {who[h]} /\ owed' = owed \ {who[h]}
        /\ UNCHANGED <<now, cache, who, lock, failures, historyVars>>
    BY <1>3 DEF InsertBan, Goto
  <2>2. TypeOK'
    BY <2>1 DEF TypeOK, LockOK, historyVars
  <2>3. LockOK'
    BY <2>1 DEF LockOK, TypeOK
  <2> QED
    BY <2>1, <2>2, <2>3, TablesStay
<1>4. ASSUME NEW h \in Handlers, Webhook(h) \/ BanFails(h) PROVE Inv'
  <2>1. /\ pc[h] \in {"insert", "webhook"}
        /\ pc' = [pc EXCEPT ![h] = "idle"] /\ who' = [who EXCEPT ![h] = None]
        /\ lock' = [lock EXCEPT ![who[h]] = None]
        /\ UNCHANGED <<now, cache, banned, historyVars>>
    BY <1>4 DEF Webhook, BanFails, Goto, End, Unlock
  <2>2. owed' \subseteq Subjects /\ failures' \in 0 .. MaxFailures
    BY <1>4 DEF Webhook, BanFails, TypeOK
  <2>3. TypeOK'
    BY <2>1, <2>2 DEF TypeOK, historyVars
  <2>4. LockOK'
    BY <2>1 DEF LockOK, TypeOK
  <2> QED
    BY <2>1, <2>3, <2>4, TablesStay
<1>5. ASSUME NEW s \in Subjects, BanEnds(s) PROVE Inv'
  <2>1. banned' = banned \ {s}
        /\ UNCHANGED <<now, cache, handlerVars, lock, failures, owed, historyVars>>
    BY <1>5 DEF BanEnds
  <2>2. TypeOK' /\ LockOK'
    BY <2>1 DEF TypeOK, LockOK, handlerVars, historyVars
  <2> QED
    BY <2>1, <2>2, TablesStay
<1>6. ASSUME Tick PROVE Inv'
  <2>1. /\ now' = now + 1
        /\ UNCHANGED <<cache, handlerVars, banVars, verdict, told, streak, since>>
    BY <1>6 DEF Tick
  <2>2. passes' \in [Subjects -> SUBSET (Nat \X Nat)]
    BY <1>6 DEF Tick, TypeOK
  <2>3. TypeOK' /\ LockOK'
    BY <2>1, <2>2 DEF TypeOK, LockOK, handlerVars, banVars
  <2>4. now \in Nat /\ \A s \in DOMAIN cache : cache[s].last \in Nat
    BY DEF TypeOK, Bucket
  <2>5. BucketsOK'
    BY <2>1, <2>4 DEF BucketsOK
  <2>6. told \in [Subjects -> Nat] /\ since \in [Subjects -> Nat]
    BY DEF TypeOK
  <2>7. HistoryOK'
    BY <2>1, <2>4, <2>6 DEF HistoryOK
  <2> QED
    BY <1>6, <2>3, <2>5, <2>7, TickRate
<1>7. CASE UNCHANGED vars
  <2>1. TypeOK' /\ LockOK' /\ UNCHANGED <<now, cache, historyVars>>
    BY <1>7 DEF vars, handlerVars, banVars, historyVars, TypeOK, LockOK
  <2> QED
    BY <2>1, TablesStay
<1> QED
  BY <1>1, <1>2, <1>3, <1>4, <1>5, <1>6, <1>7
     DEF Next, HandlerStep, AsUser, AsAddress, Subjects

LEMMA Invariance == Spec => []Inv
  BY Initially, StepPreserves, PTL DEF Spec

-----------------------------------------------------------------------------
(* theorems *)

\* The variables keep their types: buckets have between none and all of their
\* tokens (RatelimitBucket), locks are held by requests.
THEOREM TypesHold == Spec => []TypeOK
<1>1. Inv => TypeOK
  BY DEF Inv
<1> QED
  BY <1>1, Invariance, PTL

\* A subject is banned by one request at a time, the holder of its lock
\* (on_ban).
THEOREM BansAreSerial == Spec => []OneBanAtATime
<1>1. Inv => OneBanAtATime
  <2> SUFFICES ASSUME Inv, NEW s \in Subjects
               PROVE  Banning(s) = IF lock[s] = None THEN {} ELSE {lock[s]}
    BY DEF OneBanAtATime
  <2>1. LockOK /\ None \notin Handlers
    BY DEF Inv
  <2> QED
    BY <2>1 DEF LockOK, Banning
<1> QED
  BY <1>1, Invariance, PTL

\* In no Second do more requests find a token than the last of one window and
\* the whole of the next (update_rate_limit, _verify_cache).
THEOREM RateStaysBounded == Spec => []RateIsBounded
<1>1. Inv => RateIsBounded
  <2> SUFFICES ASSUME Inv, NEW s \in Subjects
               PROVE  Cardinality(passes[s]) <=
                          IF Requests = 1 THEN 1 ELSE 2 * Requests - 2
    BY DEF RateIsBounded
  <2>1. CASE s \in DOMAIN cache
    <3>1. cache[s].tokens \in 0 .. Requests /\ IsFiniteSet(passes[s])
          /\ Cardinality(passes[s]) <= Requests - cache[s].tokens + Overlap
      BY <2>1 DEF Inv, TypeOK, Bucket, RateOK, Recent, Within
    <3>2. Cardinality(passes[s]) \in Nat
      BY <3>1, FS_CardinalityType
    <3>3. Overlap = IF Requests = 1 THEN 0 ELSE Requests - 2
      BY DEF Overlap
    <3> QED
      BY <3>1, <3>2, <3>3
  <2>2. CASE s \notin DOMAIN cache
    <3>1. Cardinality(passes[s]) = 0
      BY <2>2, FS_EmptySet DEF Inv, RateOK
    <3> QED
      BY <3>1
  <2> QED
    BY <2>1, <2>2
<1> QED
  BY <1>1, Invariance, PTL

\* The step that is a request's at the bucket.
LEMMA LeavesLimit ==
    ASSUME Inv, [Next]_vars, NEW h \in Handlers, pc[h] = "limit", pc'[h] # "limit"
    PROVE  Limit(h)
<1>1. pc \in [Handlers -> {"idle", "limit", "insert", "webhook"}]
  BY DEF Inv, TypeOK
<1>2. ASSUME NEW g \in Handlers, g # h, pc' = [pc EXCEPT ![g] = pc'[g]] PROVE FALSE
  BY <1>1, <1>2
<1>3. CASE \E g \in Handlers : Limit(g)
  <2>1. PICK g \in Handlers : Limit(g)
    BY <1>3
  <2>2. pc' = [pc EXCEPT ![g] = pc'[g]]
    BY <1>1, <2>1 DEF Limit, Raise, End, Goto
  <2> QED
    BY <1>2, <2>1, <2>2
<1>4. CASE \E g \in Handlers : AsUser(g) \/ AsAddress(g) \/ InsertBan(g) \/ Webhook(g) \/ BanFails(g)
  <2>1. PICK g \in Handlers : AsUser(g) \/ AsAddress(g) \/ InsertBan(g) \/ Webhook(g) \/ BanFails(g)
    BY <1>4
  <2>2. pc' = [pc EXCEPT ![g] = pc'[g]] /\ pc[g] # "limit"
    BY <1>1, <2>1 DEF AsUser, AsAddress, Identified, InsertBan, Webhook, BanFails, End, Goto
  <2> QED
    BY <1>2, <2>1, <2>2
<1>5. CASE (\E s \in Subjects : BanEnds(s)) \/ Tick \/ UNCHANGED vars
  BY <1>5 DEF BanEnds, Tick, vars, handlerVars
<1> QED
  BY <1>3, <1>4, <1>5 DEF Next, HandlerStep

\* The time a refusal tells is the truth (update_rate_limit, _check_bucket).
THEOREM ToldTimesHold == Spec => ToldIsTrue
<1>1. ASSUME Inv, [Next]_vars, NEW h \in Handlers, pc[h] = "limit", pc'[h] # "limit",
             told[who[h]] # 0
      PROVE  /\ now > told[who[h]] => verdict'[who[h]] = "pass"
             /\ now = told[who[h]] => verdict'[who[h]] # "refused"
  <2> DEFINE s == who[h]
             b == Bucketed(s)
  <2>1. TypeOK /\ BucketsOK /\ HistoryOK /\ LockOK /\ Limit(h)
    BY <1>1, LeavesLimit DEF Inv
  <2>2. s \in Subjects /\ verdict'[s] = Verdict(b)
    BY <2>1, LimitTables
  <2>3. /\ Tokens(b) # 0 => Verdict(b) = "pass"
        /\ Tokens(b) = 0 /\ now = b.window + Second => Verdict(b) # "refused"
    BY <2>1, <2>2, VerdictFacts
  <2>4. CASE Tokens(b) = 0
    <3>1. s \in DOMAIN cache /\ b = cache[s] /\ now <= cache[s].window + Second
      BY <2>1, <2>2, <2>4, Exhausted
    <3>2. told[s] = b.window + Second
      BY <1>1, <2>1, <2>2, <3>1 DEF HistoryOK
    <3>3. now \in Nat /\ told[s] \in Nat /\ now <= told[s]
      BY <2>1, <2>2, <3>1, <3>2 DEF TypeOK
    <3> HIDE DEF s, b
    <3>4. ~(now > told[s])
      BY <3>3
    <3> QED
      BY <2>2, <2>3, <2>4, <3>2, <3>4 DEF s
  <2>5. CASE Tokens(b) # 0
    BY <2>2, <2>3, <2>5
  <2> QED
    BY <2>4, <2>5
<1>2. Inv /\ [Next]_vars =>
          [\A h \in Handlers :
              LET s == who[h]
              IN  pc[h] = "limit" /\ pc'[h] # "limit" /\ told[s] # 0 =>
                      /\ now > told[s] => verdict'[s] = "pass"
                      /\ now = told[s] => verdict'[s] # "refused"]_vars
  BY <1>1
<1> QED
  BY <1>2, Invariance, PTL DEF Spec, ToldIsTrue

\* A ban is for more than Threshold requests too many within one Second
\* (update_rate_limit, _verify_cache).
THEOREM BansAreForBursts == Spec => BanIsForABurst
<1>1. ASSUME Inv, [Next]_vars, NEW s \in Subjects, lock[s] = None, lock'[s] # None
      PROVE  streak'[s] > Threshold /\ now - since'[s] <= Second
  <2> DEFINE b == Bucketed(s)
  <2>1. TypeOK /\ BucketsOK /\ HistoryOK /\ LockOK
    BY <1>1 DEF Inv
  <2>2. lock \in [Subjects -> Handlers \cup {None}]
    BY <2>1 DEF TypeOK
  <2>3. PICK h \in Handlers : Limit(h)
    <3>1. ASSUME NEW h \in Handlers,
                 AsUser(h) \/ AsAddress(h) \/ InsertBan(h) \/ Webhook(h) \/ BanFails(h)
          PROVE  FALSE
      BY <1>1, <2>2, <3>1
         DEF AsUser, AsAddress, Identified, InsertBan, Webhook, BanFails, Unlock, banVars
    <3>2. ASSUME (\E x \in Subjects : BanEnds(x)) \/ Tick \/ UNCHANGED vars PROVE FALSE
      BY <1>1, <3>2 DEF BanEnds, Tick, vars, banVars
    <3> QED
      BY <1>1, <3>1, <3>2 DEF Next, HandlerStep
  <2>4. who[h] = s /\ Verdict(b) = "banned"
    BY <1>1, <2>2, <2>3 DEF Limit, Raise
  <2>5. /\ streak'[s] = IF Tokens(b) > 0 THEN 0 ELSE Retried(streak[s])
        /\ since'[s] = IF Tokens(b) > 0 THEN 0
                       ELSE IF streak[s] = 0 THEN now ELSE since[s]
    BY <2>1, <2>3, <2>4, LimitTables
  <2>6. Tokens(b) = 0
    BY <2>1, <2>4, VerdictFacts
  <2>7. s \in DOMAIN cache /\ b = cache[s] /\ now <= cache[s].window + Second
    BY <2>1, <2>6, Exhausted
  <2>8. b \in Bucket /\ b.window <= now
    BY <2>1, BucketedPast
  <2>9. Updated(b).retries = Retried(b.retries) /\ Updated(b).retries > Threshold
    <3>1. Updated(b).retries = Retried(b.retries) /\ Updated(b) \in Bucket
      BY <2>1, <2>6, <2>8, UpdatedFacts
    <3>2. Updated(b).retries \in 0 .. Threshold + 1
      BY <3>1 DEF Bucket
    <3> QED
      BY <2>4, <3>1, <3>2 DEF Verdict
  <2>10. /\ streak[s] = b.retries
         /\ streak[s] > 0 => b.window <= since[s] /\ since[s] <= now
    BY <2>1, <2>7 DEF HistoryOK
  <2>11. streak[s] \in Nat /\ since[s] \in Nat /\ now \in Nat /\ b.window \in Nat
    BY <2>1, <2>8 DEF TypeOK, Bucket
  <2> HIDE DEF b
  <2> QED
    BY <2>5, <2>6, <2>7, <2>9, <2>10, <2>11
<1>2. Inv /\ [Next]_vars =>
          [\A s \in Subjects :
              lock[s] = None /\ lock'[s] # None =>
                  streak'[s] > Threshold /\ now - since'[s] <= Second]_vars
  BY <1>1
<1> QED
  BY <1>2, Invariance, PTL DEF Spec, BanIsForABurst

-----------------------------------------------------------------------------
(* the refinement *)

\* The window of a subject, and the bucket its next request finds.
LEMMA WindowAndBucket ==
    ASSUME TypeOK, BucketsOK, NEW s \in Subjects, NEW b, b = Bucketed(s),
           NEW w, w = WindowNow[s]
    PROVE  \/ /\ w = [open |-> FALSE, start |-> 0, left |-> Requests, strikes |-> 0]
              /\ Tokens(b) = Requests
           \/ /\ w = WindowOf(b) /\ Tokens(b) = b.tokens
              /\ b.tokens \in 0 .. Requests - 1 /\ now <= b.window + Second
<1>1. b \in Bucket /\ b.window <= now /\ now \in Nat
  BY BucketedPast DEF TypeOK
<1>2. CASE s \in DOMAIN cache /\ now <= cache[s].window + Second
  <2>1. /\ cache[s].window <= cache[s].last /\ cache[s] \in Bucket
        /\ cache[s].tokens < Requests
    BY <1>2 DEF BucketsOK, TypeOK
  <2>2. s \notin DeadKeys
    BY <1>1, <1>2, <2>1 DEF DeadKeys, Bucket
  <2>3. b = cache[s]
    BY <1>2, <2>2 DEF Bucketed
  <2>4. w = WindowOf(b)
    BY <1>2, <2>3 DEF WindowNow
  <2> QED
    BY <1>1, <1>2, <2>1, <2>3, <2>4 DEF Tokens, Bucket
<1>3. CASE ~(s \in DOMAIN cache /\ now <= cache[s].window + Second)
  <2>1. w = [open |-> FALSE, start |-> 0, left |-> Requests, strikes |-> 0]
    BY <1>3 DEF WindowNow
  <2>2. CASE b = NewBucket
    <3>1. b.window = 0 /\ now > Second
      BY <2>2 DEF NewBucket, BucketsOK
    <3>2. Tokens(b) = Requests
      BY <1>1, <3>1 DEF Tokens
    <3> QED
      BY <2>1, <3>2
  <2>3. CASE b # NewBucket
    <3>1. s \in DOMAIN cache /\ b = cache[s] /\ cache[s].window \in Nat
      BY <2>3 DEF Bucketed, TypeOK, Bucket
    <3> QED
      BY <1>1, <1>3, <2>1, <3>1 DEF Tokens
  <2> QED
    BY <2>1, <2>2, <2>3
<1> QED
  BY <1>2, <1>3

LEMMA DeadIsOver ==
    ASSUME TypeOK, BucketsOK, NEW x \in DeadKeys
    PROVE  ~(now <= cache[x].window + Second)
<1>1. x \in DOMAIN cache /\ now > cache[x].last + Second
  BY DEF DeadKeys
<1>2. cache[x].window <= cache[x].last /\ cache[x] \in Bucket /\ now \in Nat
  BY <1>1 DEF BucketsOK, TypeOK
<1> QED
  BY <1>1, <1>2 DEF Bucket

LEMMA LimitIsAsk ==
    ASSUME Inv, NEW h \in Handlers, Limit(h)
    PROVE  Limiter!Ask(who[h])
<1> DEFINE s == who[h]
           b == Bucketed(s)
           w == WindowNow[s]
<1>1. TypeOK /\ BucketsOK /\ LockOK
  BY DEF Inv
<1>2. /\ s \in Subjects /\ now' = now
      /\ DOMAIN cache' = (DOMAIN cache \ DeadKeys) \cup {s}
      /\ cache'[s] = Updated(b)
      /\ \A x \in DOMAIN cache \ DeadKeys : x # s => cache'[x] = cache[x]
  BY <1>1, LimitTables
<1>3. b \in Bucket /\ b.window <= now /\ now \in Nat
  BY <1>1, <1>2, BucketedPast DEF TypeOK
<1>4. ASSUME NEW x \in Subjects, x # s PROVE WindowNow'[x] = WindowNow[x]
  <2>1. x \in DeadKeys => ~(now <= cache[x].window + Second)
    BY <1>1, DeadIsOver
  <2>2. x \in DOMAIN cache' => x \in DOMAIN cache /\ cache'[x] = cache[x]
    BY <1>2, <1>4
  <2>3. x \in DOMAIN cache /\ x \notin DOMAIN cache' => x \in DeadKeys
    BY <1>2
  <2> HIDE DEF s, b, w
  <2> QED
    BY <1>2, <2>1, <2>2, <2>3 DEF WindowNow
<1>5. WindowNow'[s] = IF now <= Updated(b).window + Second
                      THEN WindowOf(Updated(b))
                      ELSE [open |-> FALSE, start |-> 0, left |-> Requests, strikes |-> 0]
  BY <1>2 DEF WindowNow
<1>6. /\ Verdict(b) = Limiter!Answer(w)
      /\ WindowNow'[s] = IF w.left > 0 THEN Limiter!Served(w)
                         ELSE Limiter!Struck(w)
  <2>1. \/ /\ w = [open |-> FALSE, start |-> 0, left |-> Requests, strikes |-> 0]
           /\ Tokens(b) = Requests
        \/ /\ w = WindowOf(b) /\ Tokens(b) = b.tokens
           /\ b.tokens \in 0 .. Requests - 1 /\ now <= b.window + Second
    BY <1>1, <1>2, WindowAndBucket
  <2>2. Tokens(b) # 0 => Verdict(b) = "pass"
    BY <1>1, <1>2, VerdictFacts
  <2> HIDE DEF s, b, w
  <2>3. CASE /\ w = [open |-> FALSE, start |-> 0, left |-> Requests, strikes |-> 0]
             /\ Tokens(b) = Requests
    <3>1. Updated(b) = [window |-> now, last |-> now, tokens |-> Requests - 1, retries |-> 0]
      BY <2>3 DEF Updated
    <3>2. WindowNow'[s] = WindowOf(Updated(b))
      BY <1>3, <1>5, <3>1
    <3>3. Limiter!Served(w) = WindowOf(Updated(b))
      BY <2>3, <3>1 DEF Limiter!Served, WindowOf
    <3>4. Limiter!Answer(w) = "pass"
      BY <2>3 DEF Limiter!Answer
    <3> QED
      BY <2>2, <2>3, <3>2, <3>3, <3>4
  <2>4. CASE w = WindowOf(b) /\ Tokens(b) = b.tokens /\ b.tokens \in 1 .. Requests - 1
             /\ now <= b.window + Second
    <3>1. Updated(b) = [window |-> IF b.tokens = 1 THEN now ELSE b.window, last |-> now,
                        tokens |-> b.tokens - 1, retries |-> 0]
      BY <2>4 DEF Updated
    <3>2. WindowNow'[s] = WindowOf(Updated(b))
      BY <1>3, <1>5, <2>4, <3>1
    <3>3. w.open = TRUE /\ w.left = b.tokens /\ w.start = b.window
      BY <2>4 DEF WindowOf
    <3>4. Limiter!Served(w) = WindowOf(Updated(b))
      BY <2>4, <3>1, <3>3 DEF Limiter!Served, WindowOf
    <3>5. Limiter!Answer(w) = "pass" /\ w.left > 0
      BY <2>4, <3>3 DEF Limiter!Answer
    <3> QED
      BY <2>2, <2>4, <3>2, <3>4, <3>5
  <2>5. CASE w = WindowOf(b) /\ Tokens(b) = 0 /\ b.tokens = 0 /\ now <= b.window + Second
    <3>1. /\ w = [open |-> TRUE, start |-> b.window, left |-> 0, strikes |-> b.retries]
          /\ b.retries \in 0 .. Threshold + 1 /\ b.window \in Nat
      BY <1>3, <2>5 DEF WindowOf, Bucket
    <3>2. Updated(b) = [window |-> b.window, last |-> now, tokens |-> 0,
                        retries |-> Retried(b.retries)]
      BY <2>5 DEF Updated
    <3>3. WindowNow'[s] = [open |-> TRUE, start |-> b.window, left |-> 0,
                           strikes |-> Retried(b.retries)]
      BY <1>5, <2>5, <3>2 DEF WindowOf
    <3>4. Retried(b.retries) = Limiter!Strike(w.strikes)
      BY <3>1 DEF Retried, Limiter!Strike
    <3>5. WindowNow'[s] = Limiter!Struck(w)
      <4>1. Limiter!Struck(w) = [open |-> TRUE, start |-> b.window, left |-> 0,
                                 strikes |-> Limiter!Strike(w.strikes)]
        BY <3>1 DEF Limiter!Struck
      <4> QED
        BY <3>3, <3>4, <4>1
    <3>6. RetryAfter(b) = b.window + Second - now
      BY <2>5 DEF RetryAfter
    <3>7. Updated(b).retries = Retried(b.retries)
      BY <3>2
    <3>8. Verdict(b) = Limiter!Answer(w)
      BY <1>3, <3>1, <3>6, <3>7 DEF Verdict, Limiter!Answer, Retried
    <3> QED
      BY <3>1, <3>5, <3>8
  <2> QED
    BY <2>1, <2>3, <2>4, <2>5
<1>7. verdict' = [verdict EXCEPT ![s] = Verdict(b)]
  BY DEF Limit, Remember
<1>8. WindowNow' = [WindowNow EXCEPT ![s] =
                       IF @.left > 0 THEN Limiter!Served(@) ELSE Limiter!Struck(@)]
  <2>1. DOMAIN WindowNow = Subjects /\ DOMAIN WindowNow' = Subjects
        /\ WindowNow' = [x \in Subjects |-> WindowNow'[x]]
        /\ WindowNow = [x \in Subjects |-> WindowNow[x]]
    BY DEF WindowNow
  <2>2. WindowNow'[s] = IF WindowNow[s].left > 0 THEN Limiter!Served(WindowNow[s])
                        ELSE Limiter!Struck(WindowNow[s])
    BY <1>6
  <2> HIDE DEF s, b, w
  <2> QED
    BY <1>2, <1>4, <2>1, <2>2
<1> QED
  BY <1>2, <1>6, <1>7, <1>8 DEF Limiter!Ask

\* The limiter with its cache implements the one that keeps a window for every
\* subject: a request at its bucket is one that asks, the clock closes windows,
\* and nothing else, the cache dropping buckets included, can be seen.
THEOREM LimiterRefines == Spec => EvictionIsInvisible
<1>1. Init => Limiter!Init
  <2>1. Init => WindowNow = [s \in Subjects |-> Limiter!Closed]
    BY DEF Init, WindowNow, Limiter!Closed
  <2> QED
    BY <2>1 DEF Init, Limiter!Init
<1>2. ASSUME Inv, [Next]_vars
      PROVE  [Limiter!Next]_<<now, WindowNow, verdict>>
  <2>1. ASSUME NEW h \in Handlers, Limit(h) PROVE Limiter!Next
    <3>1. Limiter!Ask(who[h]) /\ who[h] \in Subjects
      BY <1>2, <2>1, LimitIsAsk DEF Inv, LockOK, Limit
    <3> QED
      BY <3>1 DEF Limiter!Next
  <2>2. ASSUME Tick PROVE Limiter!Next
    <3>1. now < MaxTime /\ now' = now + 1 /\ cache' = cache /\ verdict' = verdict
      BY <2>2 DEF Tick
    <3>2. now \in Nat /\ \A s \in DOMAIN cache : cache[s].window \in Nat
      BY <1>2 DEF Inv, TypeOK, Bucket
    <3>3. ASSUME NEW s \in Subjects
          PROVE  WindowNow'[s] = IF Limiter!Over(WindowNow[s], now + 1)
                                 THEN Limiter!Closed ELSE WindowNow[s]
      <4>1. CASE s \in DOMAIN cache /\ now <= cache[s].window + Second
        <5>1. WindowNow[s] = WindowOf(cache[s])
          BY <4>1 DEF WindowNow
        <5>2. Limiter!Over(WindowNow[s], now + 1) <=> ~(now + 1 <= cache[s].window + Second)
          BY <3>2, <4>1, <5>1 DEF Limiter!Over, WindowOf
        <5>3. WindowNow'[s] = IF now + 1 <= cache[s].window + Second
                              THEN WindowOf(cache[s]) ELSE Limiter!Closed
          BY <3>1, <4>1 DEF WindowNow, WindowOf, Limiter!Closed
        <5> QED
          BY <5>1, <5>2, <5>3
      <4>2. CASE ~(s \in DOMAIN cache /\ now <= cache[s].window + Second)
        <5>1. WindowNow[s] = Limiter!Closed
          BY <4>2 DEF WindowNow, Limiter!Closed
        <5>2. ~(s \in DOMAIN cache /\ now + 1 <= cache[s].window + Second)
          BY <3>2, <4>2
        <5>3. WindowNow'[s] = Limiter!Closed
          BY <3>1, <5>2 DEF WindowNow, Limiter!Closed
        <5> QED
          BY <5>1, <5>3
      <4> QED
        BY <4>1, <4>2
    <3>4. WindowNow' = [s \in Subjects |-> WindowNow'[s]]
      BY DEF WindowNow
    <3>5. WindowNow' = [s \in Subjects |-> IF Limiter!Over(WindowNow[s], now + 1)
                                           THEN Limiter!Closed ELSE WindowNow[s]]
      BY <3>3, <3>4
    <3> QED
      BY <3>1, <3>5 DEF Limiter!Next, Limiter!Tick
  <2>3. ASSUME UNCHANGED <<now, cache, verdict>>
        PROVE  UNCHANGED <<now, WindowNow, verdict>>
    BY <2>3 DEF WindowNow
  <2>4. ASSUME NEW h \in Handlers,
               AsUser(h) \/ AsAddress(h) \/ InsertBan(h) \/ Webhook(h) \/ BanFails(h)
        PROVE  UNCHANGED <<now, cache, verdict>>
    BY <2>4 DEF AsUser, AsAddress, Identified, InsertBan, Webhook, BanFails, historyVars
  <2>5. ASSUME (\E s \in Subjects : BanEnds(s)) \/ UNCHANGED vars
        PROVE  UNCHANGED <<now, cache, verdict>>
    BY <2>5 DEF BanEnds, vars, historyVars
  <2> QED
    BY <1>2, <2>1, <2>2, <2>3, <2>4, <2>5 DEF Next, HandlerStep
<1> QED
  BY <1>1, <1>2, Invariance, PTL DEF Spec, EvictionIsInvisible, Limiter!Spec
=============================================================================
