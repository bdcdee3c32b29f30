--------------------------- MODULE DomainsProofs ---------------------------
(***************************************************************************)
(* For any domains, names, users, objects, quota and number of requests:   *)
(* the types, that a removal overlooks nothing but what comes after it,    *)
(* that a host is not resolved to a domain that is gone but for the named  *)
(* reasons, that shortens are limited, and that the owner given with a new *)
(* domain is its owner.                                                    *)
(***************************************************************************)
EXTENDS Domains, FiniteSetTheorems, TLAPS

USE DomainsAssumption

-----------------------------------------------------------------------------
(* The types, and what a handler knows at each step. *)

Sound(l) ==
    /\ l.at \in Sweep \cup {"select", "owner", "invalidate", "fill"} => l.name \in Names
    /\ l.at \in Sweep \cup {"set_domain", "insert", "fill"} => l.id \in Ids
    /\ l.at \in {"set_domain", "domain", "insert"} => l.user \in Users
    /\ l.at \in {"domain", "insert"} => l.object \in Objects
    /\ l.at = "fill_false" => l.host \in DOMAIN HostNames

SoundLocals == {l \in Locals : Sound(l)}

TypeInv == TypeOK /\ req \in [Requests -> SoundLocals]

LEMMA IdleIsSound ==
  /\ Idle \in SoundLocals
  /\ Idle.at = "idle" /\ Idle.id = None /\ Idle.new = None /\ Idle.name = None
  /\ Idle.user = None /\ Idle.object = None /\ Idle.host = None
  BY DEF Idle, SoundLocals, Sound, Locals, Steps, Sweep

\* What EXCEPT makes of a record of locals.
LEMMA PutStep ==
  ASSUME NEW l \in Locals, NEW step \in Steps
  PROVE  /\ [l EXCEPT !.at = step] \in Locals
         /\ [l EXCEPT !.at = step].at = step
         /\ [l EXCEPT !.at = step].id = l.id
         /\ [l EXCEPT !.at = step].new = l.new
         /\ [l EXCEPT !.at = step].name = l.name
         /\ [l EXCEPT !.at = step].user = l.user
         /\ [l EXCEPT !.at = step].object = l.object
         /\ [l EXCEPT !.at = step].host = l.host
  BY DEF Locals

LEMMA RequestMoves ==
  ASSUME req \in [Requests -> SoundLocals], NEW q \in Requests,
         NEW l \in SoundLocals, req' = [req EXCEPT ![q] = l]
  PROVE  /\ req' \in [Requests -> SoundLocals] /\ req' \in [Requests -> Locals]
         /\ req'[q] = l
         /\ \A o \in Requests : o # q => req'[o] = req[o]
  BY DEF SoundLocals

\* The removal goes on to its next statement.
LEMMA GotoSound ==
  ASSUME TypeInv, NEW q \in Requests, NEW step \in Sweep \cup {"invalidate"},
         req[q].at \in Sweep \cup {"owner"}, req[q].at = "owner" => step = "invalidate",
         Goto(q, step)
  PROVE  /\ req' \in [Requests -> SoundLocals] /\ req' \in [Requests -> Locals]
         /\ UNCHANGED <<asked, aborts>>
         /\ req'[q].at = step /\ req'[q].id = req[q].id /\ req'[q].name = req[q].name
         /\ \A o \in Requests : o # q => req'[o] = req[o]
<1>1. req[q] \in Locals /\ Sound(req[q]) /\ step \in Steps
  BY DEF TypeInv, SoundLocals, Steps
<1> DEFINE l == [req[q] EXCEPT !.at = step]
<1>2. l \in Locals /\ l.at = step /\ l.id = req[q].id /\ l.name = req[q].name
  BY <1>1, PutStep
<1>3. Sound(l)
  BY <1>1, <1>2 DEF Sound, Sweep
<1>4. l \in SoundLocals /\ req' = [req EXCEPT ![q] = l] /\ UNCHANGED <<asked, aborts>>
  BY <1>2, <1>3 DEF SoundLocals, Goto, Become
<1> HIDE DEF l
<1> QED
  BY <1>2, <1>4, RequestMoves DEF TypeInv

LEMMA ReturnSound ==
  ASSUME TypeInv, NEW q \in Requests, Return(q)
  PROVE  /\ req' \in [Requests -> SoundLocals] /\ req' \in [Requests -> Locals]
         /\ UNCHANGED <<asked, aborts>>
         /\ req'[q] = Idle
         /\ \A o \in Requests : o # q => req'[o] = req[o]
<1>1. req' = [req EXCEPT ![q] = Idle] /\ UNCHANGED <<asked, aborts>>
  BY DEF Return, Become
<1> QED
  BY <1>1, IdleIsSound, RequestMoves DEF TypeInv

LEMMA AskSound ==
  ASSUME TypeInv, NEW q \in Requests, NEW l \in SoundLocals, Ask(q, l)
  PROVE  /\ req' \in [Requests -> SoundLocals] /\ req' \in [Requests -> Locals]
         /\ UNCHANGED aborts /\ asked' \in 0 .. MaxAsked
         /\ req'[q] = l /\ req[q].at = "idle"
         /\ \A o \in Requests : o # q => req'[o] = req[o]
<1>1. req' = [req EXCEPT ![q] = l] /\ UNCHANGED aborts /\ asked' = asked + 1 /\ asked < MaxAsked
      /\ req[q].at = "idle"
  BY DEF Ask, At
<1>2. asked' \in 0 .. MaxAsked
  BY <1>1 DEF TypeInv, TypeOK
<1> QED
  BY <1>1, <1>2, RequestMoves DEF TypeInv

-----------------------------------------------------------------------------
(* What each handler's step does to the requests. *)

Others(q) == \A o \in Requests : o # q => req'[o] = req[o]
RequestsTyped ==
    /\ req \in [Requests -> SoundLocals] /\ req \in [Requests -> Locals]
    /\ asked \in 0 .. MaxAsked /\ aborts \in 0 .. MaxAborts

LEMMA AddDomainAsks ==
  ASSUME TypeInv, NEW q \in Requests, NEW d \in Ids, NEW n \in Names,
         NEW u \in Users \cup {None, Stranger}, AddDomain(q, d, n, u)
  PROVE  /\ RequestsTyped' /\ Others(q) /\ req[q].at = "idle"
         /\ req'[q].at = "select" /\ req'[q].new = d /\ req'[q].name = n
<1> DEFINE l == [Idle EXCEPT !.at = "select", !.new = d, !.name = n, !.user = u]
<1>1. l \in Locals /\ l.at = "select" /\ l.new = d /\ l.name = n
  BY DEF Idle, Locals, Steps
<1>2. l \in SoundLocals
  BY <1>1 DEF SoundLocals, Sound, Sweep
<1>3. Ask(q, l)
  BY DEF AddDomain
<1> HIDE DEF l
<1> QED
  BY <1>1, <1>2, <1>3, AskSound DEF Others, RequestsTyped, TypeInv, TypeOK

LEMMA SelectIdMoves ==
  ASSUME TypeInv, NEW q \in Requests, SelectId(q)
  PROVE  /\ RequestsTyped' /\ Others(q) /\ req[q].at = "select"
         /\ req'[q].at \in {"owner", "invalidate"}
         /\ req'[q].id \in NamedAs(req[q].name) \cup {None}
         /\ req'[q].new = req[q].new /\ req'[q].name = req[q].name
<1> DEFINE step == IF req[q].user = None THEN "invalidate" ELSE "owner"
<1>1. PICK d \in NamedAs(req[q].name) \cup {None} :
           Become(q, [req[q] EXCEPT !.id = d, !.at = step])
  BY DEF SelectId
<1>2. d \in Ids \cup {None} /\ step \in {"owner", "invalidate"} /\ step \in Steps
  BY DEF NamedAs, Steps
<1>3. req[q] \in Locals /\ Sound(req[q]) /\ req[q].at = "select"
  BY DEF TypeInv, SoundLocals, SelectId, At
<1> DEFINE l == [req[q] EXCEPT !.id = d, !.at = step]
<1> HIDE DEF step
<1>4. l \in Locals /\ l.at = step /\ l.id = d /\ l.new = req[q].new /\ l.name = req[q].name
  BY <1>2, <1>3 DEF Locals
<1>5. req' = [req EXCEPT ![q] = l] /\ UNCHANGED <<asked, aborts>>
  BY <1>1 DEF Become
<1> HIDE DEF l
<1>6. l \in SoundLocals
  BY <1>2, <1>3, <1>4 DEF SoundLocals, Sound, Sweep
<1> QED
  BY <1>2, <1>3, <1>4, <1>5, <1>6, RequestMoves DEF Others, RequestsTyped, TypeInv, TypeOK

LEMMA AskRemovalAsks ==
  ASSUME TypeInv, NEW q \in Requests, NEW d \in Ids, AskRemoval(q, d)
  PROVE  /\ RequestsTyped' /\ Others(q) /\ req[q].at = "idle"
         /\ req'[q].at = "files" /\ req'[q].id = d /\ req'[q].name = name[d]
<1> DEFINE l == [Idle EXCEPT !.at = "files", !.id = d, !.name = name[d]]
<1>0. name[d] \in Names
  BY DEF AskRemoval, InTable
<1>1. l \in Locals /\ l.at = "files" /\ l.id = d /\ l.name = name[d]
  BY <1>0 DEF Idle, Locals, Steps, Sweep
<1>2. l \in SoundLocals
  BY <1>0, <1>1 DEF SoundLocals, Sound
<1>3. Ask(q, l)
  BY DEF AskRemoval
<1> HIDE DEF l
<1> QED
  BY <1>1, <1>2, <1>3, AskSound DEF Others, RequestsTyped, TypeInv, TypeOK

LEMMA AskDomainAsks ==
  ASSUME TypeInv, NEW q \in Requests, NEW u \in Users, NEW d \in Ids, AskDomain(q, u, d)
  PROVE  /\ RequestsTyped' /\ Others(q) /\ req[q].at = "idle"
         /\ req'[q].at = "set_domain"
<1> DEFINE l == [Idle EXCEPT !.at = "set_domain", !.id = d, !.user = u]
<1>1. l \in Locals /\ l.at = "set_domain" /\ l.id = d /\ l.user = u
  BY DEF Idle, Locals, Steps
<1>2. l \in SoundLocals
  BY <1>1 DEF SoundLocals, Sound, Sweep
<1>3. Ask(q, l)
  BY DEF AskDomain
<1> HIDE DEF l
<1> QED
  BY <1>1, <1>2, <1>3, AskSound DEF Others, RequestsTyped, TypeInv, TypeOK

LEMMA AskObjectAsks ==
  ASSUME TypeInv, NEW q \in Requests, NEW u \in Users, NEW o \in Objects, AskObject(q, u, o)
  PROVE  /\ RequestsTyped' /\ Others(q) /\ req[q].at = "idle"
         /\ req'[q].at = "domain" /\ req'[q].user = u /\ req'[q].object = o
<1> DEFINE l == [Idle EXCEPT !.at = "domain", !.user = u, !.object = o]
<1>1. l \in Locals /\ l.at = "domain" /\ l.user = u /\ l.object = o
  BY DEF Idle, Locals, Steps
<1>2. l \in SoundLocals
  BY <1>1 DEF SoundLocals, Sound, Sweep
<1>3. Ask(q, l)
  BY DEF AskObject
<1> HIDE DEF l
<1> QED
  BY <1>1, <1>2, <1>3, AskSound DEF Others, RequestsTyped, TypeInv, TypeOK

LEMMA AskHostAsks ==
  ASSUME TypeInv, NEW q \in Requests, NEW host \in DOMAIN HostNames, AskHost(q, host)
  PROVE  /\ RequestsTyped' /\ Others(q) /\ req[q].at = "idle"
         /\ req'[q].at \in {"fill", "fill_false"}
<1>1. HostNames[host] \subseteq Names
  OBVIOUS
<1>2. ASSUME NEW d \in Ids, name[d] \in HostNames[host],
             Ask(q, [Idle EXCEPT !.at = "fill", !.id = d, !.name = name[d]])
      PROVE  RequestsTyped' /\ Others(q) /\ req[q].at = "idle" /\ req'[q].at = "fill"
  <2> DEFINE l == [Idle EXCEPT !.at = "fill", !.id = d, !.name = name[d]]
  <2>0. name[d] \in Names
    BY <1>1, <1>2
  <2>1. l \in Locals /\ l.at = "fill" /\ l.id = d /\ l.name = name[d]
    BY <2>0 DEF Idle, Locals, Steps
  <2>2. l \in SoundLocals
    BY <2>0, <2>1 DEF SoundLocals, Sound, Sweep
  <2>3. Ask(q, l)
    BY <1>2
  <2> HIDE DEF l
  <2> QED
    BY <2>1, <2>2, <2>3, AskSound DEF Others, RequestsTyped, TypeInv, TypeOK
<1>3. ASSUME Ask(q, [Idle EXCEPT !.at = "fill_false", !.host = host])
      PROVE  RequestsTyped' /\ Others(q) /\ req[q].at = "idle" /\ req'[q].at = "fill_false"
  <2> DEFINE l == [Idle EXCEPT !.at = "fill_false", !.host = host]
  <2>1. l \in Locals /\ l.at = "fill_false" /\ l.host = host
    BY DEF Idle, Locals, Steps
  <2>2. l \in SoundLocals
    BY <2>1 DEF SoundLocals, Sound, Sweep
  <2>3. Ask(q, l)
    BY <1>3
  <2> HIDE DEF l
  <2> QED
    BY <2>1, <2>2, <2>3, AskSound DEF Others, RequestsTyped, TypeInv, TypeOK
<1>4. (\E d \in Ids : name[d] \in HostNames[host]
                      /\ Ask(q, [Idle EXCEPT !.at = "fill", !.id = d, !.name = name[d]]))
      \/ Ask(q, [Idle EXCEPT !.at = "fill_false", !.host = host])
  BY DEF AskHost
<1> QED
  BY <1>2, <1>3, <1>4

LEMMA ReadDomainMoves ==
  ASSUME TypeInv, NEW q \in Requests, ReadDomain(q)
  PROVE  /\ RequestsTyped' /\ Others(q) /\ req[q].at = "domain"
         /\ req'[q].at = "insert"
         /\ req'[q].user = req[q].user /\ req'[q].object = req[q].object
<1>1. req[q] \in Locals /\ Sound(req[q]) /\ req[q].at = "domain" /\ req[q].user \in Users
      /\ "insert" \in Steps
  BY DEF TypeInv, SoundLocals, Sound, ReadDomain, At, Steps
<1>2. PICK d \in Ids : Become(q, [req[q] EXCEPT !.id = d, !.at = "insert"])
  <2>1. home[req[q].user] \in Ids /\ shome[req[q].user] \in Ids \cup {None}
    BY <1>1 DEF TypeInv, TypeOK
  <2> QED
    BY <2>1 DEF ReadDomain
<1> DEFINE l == [req[q] EXCEPT !.id = d, !.at = "insert"]
<1>3. l \in Locals /\ l.at = "insert" /\ l.id = d /\ l.user = req[q].user
      /\ l.object = req[q].object
  BY <1>1 DEF Locals
<1>4. req' = [req EXCEPT ![q] = l] /\ UNCHANGED <<asked, aborts>>
  BY <1>2 DEF Become
<1> HIDE DEF l
<1>5. l \in SoundLocals
  BY <1>1, <1>3 DEF SoundLocals, Sound, Sweep
<1> QED
  BY <1>1, <1>3, <1>4, <1>5, RequestMoves DEF Others, RequestsTyped, TypeInv, TypeOK

\* The removal goes on to its next statement, or an owner to the invalidation.
LEMMA Going ==
  ASSUME TypeInv, NEW q \in Requests, NEW step \in Sweep \cup {"invalidate"},
         req[q].at \in Sweep \cup {"owner"}, req[q].at = "owner" => step = "invalidate",
         Goto(q, step)
  PROVE  /\ RequestsTyped' /\ Others(q)
         /\ req'[q].at = step /\ req'[q].id = req[q].id /\ req'[q].name = req[q].name
  BY GotoSound DEF Others, RequestsTyped, TypeInv, TypeOK

LEMMA Returning ==
  ASSUME TypeInv, NEW q \in Requests, Return(q)
  PROVE  RequestsTyped' /\ Others(q) /\ req'[q] = Idle /\ req'[q].at = "idle"
  BY ReturnSound, IdleIsSound DEF Others, RequestsTyped, TypeInv, TypeOK

LEMMA Ordering ==
  ASSUME TypeInv, Order
  PROVE  RequestsTyped' /\ UNCHANGED req
  BY DEF Order, RequestsTyped, TypeInv, TypeOK

LEMMA Aborting ==
  ASSUME TypeInv, NEW q \in Requests, Abort(q)
  PROVE  RequestsTyped' /\ Others(q) /\ req'[q] = Idle /\ req'[q].at = "idle"
<1>1. req' = [req EXCEPT ![q] = Idle] /\ UNCHANGED asked /\ aborts' = aborts + 1
      /\ aborts < MaxAborts
  BY DEF Abort
<1>2. aborts' \in 0 .. MaxAborts
  BY <1>1 DEF TypeInv, TypeOK
<1> QED
  BY <1>1, <1>2, IdleIsSound, RequestMoves DEF Others, RequestsTyped, TypeInv, TypeOK

-----------------------------------------------------------------------------
(* Every step keeps the types. *)

RowsTyped ==
    /\ name \in [Ids -> Names \cup {None, "removed"}]
    /\ owner \in [Ids -> Users \cup {None}]
    /\ home \in [Users -> Ids] /\ shome \in [Users -> Ids \cup {None}]
    /\ place \in [Objects -> Ids \cup {None}] /\ maker \in [Objects -> Users \cup {None}]
    /\ cache \in [Names -> Ids \cup {None}]
    /\ newcomers \subseteq Ids /\ twins \subseteq Names /\ lost \subseteq Names

LEMMA TypeParts == TypeInv <=> RowsTyped /\ RequestsTyped
  BY DEF TypeInv, TypeOK, RowsTyped, RequestsTyped, SoundLocals

LEMMA TypePartsPrimed == RowsTyped' /\ RequestsTyped' => TypeInv'
  BY DEF TypeInv, TypeOK, RowsTyped, RequestsTyped

LEMMA TypeInit == Init => TypeInv
  BY IdleIsSound DEF Init, TypeInv, TypeOK, SoundLocals

LEMMA ArriveTyped ==
  ASSUME TypeInv, NEW d \in Ids, NEW past, Arrive(d, past)
  PROVE  newcomers' \subseteq Ids
  BY DEF Arrive, TypeInv, TypeOK

LEMMA SoundAt ==
  ASSUME TypeInv, NEW q \in Requests
  PROVE  req[q] \in Locals /\ Sound(req[q])
  BY DEF TypeInv, SoundLocals

LEMMA TypeStep == TypeInv /\ [Next]_vars => TypeInv'
<1> SUFFICES ASSUME TypeInv, [Next]_vars PROVE TypeInv'
  OBVIOUS
<1> SUFFICES RowsTyped' /\ RequestsTyped'
  BY TypePartsPrimed
<1>0. RowsTyped /\ RequestsTyped
  BY TypeParts
<1> USE DEF tables, history
<1>1. ASSUME NEW d \in Ids, NEW u \in Users, AddOwner(d, u) PROVE RowsTyped' /\ RequestsTyped'
  BY <1>0, <1>1, ArriveTyped, Ordering DEF AddOwner, RowsTyped
<1>2. ASSUME NEW d \in Ids, NEW u \in Users, PatchOwner(d, u) PROVE RowsTyped' /\ RequestsTyped'
  BY <1>0, <1>2, Ordering DEF PatchOwner, RowsTyped
<1>3. ASSUME NEW d \in Ids \cup {None}, NEW u \in Users, SetShortenDomain(u, d)
      PROVE  RowsTyped' /\ RequestsTyped'
  <2>1. newcomers' \subseteq Ids
    BY <1>3, SoundAt DEF SetShortenDomain, Arrive, RemovingAt, PastShortenUsers, PastOwners,
       TypeInv, TypeOK, Sound, Sweep
  <2> QED
    BY <1>0, <1>3, <2>1, Ordering DEF SetShortenDomain, RowsTyped
<1>4. ASSUME NEW d \in Ids, NEW o \in Objects, ModifyObject(o, d)
      PROVE  RowsTyped' /\ RequestsTyped'
  BY <1>0, <1>4, ArriveTyped, Ordering DEF ModifyObject, RowsTyped
<1>5. ASSUME NEW q \in Requests, NEW d \in Ids, NEW n \in Names,
             NEW u \in Users \cup {None, Stranger}, AddDomain(q, d, n, u)
      PROVE  RowsTyped' /\ RequestsTyped'
  <2>1. RequestsTyped'
    BY <1>5, AddDomainAsks
  <2>2. /\ name' = [name EXCEPT ![d] = n] /\ twins' \in {twins, twins \cup {n}}
        /\ UNCHANGED <<owner, home, shome, place, maker, cache, newcomers, lost>>
    BY <1>5 DEF AddDomain
  <2> QED
    BY <1>0, <2>1, <2>2 DEF RowsTyped
<1>6. ASSUME NEW q \in Requests, NEW d \in Ids, AskRemoval(q, d)
      PROVE  RowsTyped' /\ RequestsTyped'
  BY <1>0, <1>6, AskRemovalAsks DEF AskRemoval, RowsTyped
<1>7. ASSUME NEW q \in Requests, NEW d \in Ids, NEW u \in Users, AskDomain(q, u, d)
      PROVE  RowsTyped' /\ RequestsTyped'
  BY <1>0, <1>7, AskDomainAsks DEF AskDomain, RowsTyped
<1>8. ASSUME NEW q \in Requests, NEW o \in Objects, NEW u \in Users, AskObject(q, u, o)
      PROVE  RowsTyped' /\ RequestsTyped'
  BY <1>0, <1>8, AskObjectAsks DEF AskObject, RowsTyped
<1>9. ASSUME NEW q \in Requests, NEW host \in DOMAIN HostNames, AskHost(q, host)
      PROVE  RowsTyped' /\ RequestsTyped'
  BY <1>0, <1>9, AskHostAsks DEF AskHost, RowsTyped
<1>10. ASSUME NEW q \in Requests, SelectId(q) PROVE RowsTyped' /\ RequestsTyped'
  BY <1>0, <1>10, SelectIdMoves DEF SelectId, RowsTyped
<1>11. ASSUME NEW q \in Requests, InsertOwner(q) PROVE RowsTyped' /\ RequestsTyped'
  <2>1. CASE CanOwn(req[q].id, req[q].user)
    BY <1>0, <1>11, <2>1, ArriveTyped, Going DEF InsertOwner, RowsTyped, CanOwn, InTable, At
  <2>2. CASE ~ CanOwn(req[q].id, req[q].user)
    BY <1>0, <1>11, <2>2, Returning DEF InsertOwner, RowsTyped
  <2> QED
    BY <2>1, <2>2
<1>12. ASSUME NEW q \in Requests, Invalidate(q) PROVE RowsTyped' /\ RequestsTyped'
  BY <1>0, <1>12, Returning DEF Invalidate, Forget, RowsTyped
<1>13. ASSUME NEW q \in Requests, NEW step \in Sweep, NEW next \in Sweep, NEW rows,
              MoveObjects(q, step, rows, next)
       PROVE  RowsTyped' /\ RequestsTyped'
  <2>1. CASE Refuses(place, rows, req[q].id)
    BY <1>0, <1>13, <2>1, Returning DEF MoveObjects, RowsTyped
  <2>2. CASE ~ Refuses(place, rows, req[q].id)
    <3>0. req[q].at = step /\ step # "owner" /\ Goto(q, next)
      BY <1>13, <2>2 DEF MoveObjects, At, Sweep
    <3>1. RequestsTyped'
      BY <3>0, Going
    <3>2. place' \in [Objects -> Ids \cup {None}]
      BY <1>0, <1>13, <2>2 DEF MoveObjects, RowsTyped, Moved
    <3> QED
      BY <1>0, <1>13, <3>1, <3>2 DEF MoveObjects, RowsTyped
  <2> QED
    BY <2>1, <2>2
<1>14. ASSUME NEW q \in Requests, MoveFiles(q) \/ MoveShortens(q)
       PROVE  RowsTyped' /\ RequestsTyped'
  BY <1>13, <1>14 DEF MoveFiles, MoveShortens, Sweep
<1>15. ASSUME NEW q \in Requests, MoveUsers(q) PROVE RowsTyped' /\ RequestsTyped'
  BY <1>0, <1>15, Going, Returning DEF MoveUsers, RowsTyped, Moved, At, Sweep
<1>16. ASSUME NEW q \in Requests, MoveShortenUsers(q) PROVE RowsTyped' /\ RequestsTyped'
  BY <1>0, <1>16, Going, Returning DEF MoveShortenUsers, RowsTyped, Moved, At, Sweep
<1>17. ASSUME NEW q \in Requests, DeleteOwner(q) PROVE RowsTyped' /\ RequestsTyped'
  BY <1>0, <1>17, Going DEF DeleteOwner, RowsTyped, At, Sweep
<1>18. ASSUME NEW q \in Requests, DeleteDomain(q) PROVE RowsTyped' /\ RequestsTyped'
  BY <1>0, <1>18, Going, Returning DEF DeleteDomain, RowsTyped, At, Sweep
<1>19. ASSUME NEW q \in Requests, SetDomain(q) PROVE RowsTyped' /\ RequestsTyped'
  BY <1>0, <1>19, ArriveTyped, Returning DEF SetDomain, RowsTyped, InTable
<1>20. ASSUME NEW q \in Requests, ReadDomain(q) PROVE RowsTyped' /\ RequestsTyped'
  BY <1>0, <1>20, ReadDomainMoves DEF ReadDomain, RowsTyped
<1>21. ASSUME NEW q \in Requests, InsertObject(q) PROVE RowsTyped' /\ RequestsTyped'
  <2>1. req[q].user \in Users /\ req[q].id \in Ids
    BY <1>21, SoundAt DEF InsertObject, At, Sound
  <2> QED
    BY <1>0, <1>21, <2>1, ArriveTyped, Returning DEF InsertObject, RowsTyped
<1>22. ASSUME NEW q \in Requests, Fill(q) PROVE RowsTyped' /\ RequestsTyped'
  <2>1. req[q].name \in Names /\ req[q].id \in Ids
    BY <1>22, SoundAt DEF Fill, At, Sound
  <2> QED
    BY <1>0, <1>22, <2>1, Returning DEF Fill, RowsTyped
<1>23. ASSUME NEW q \in Requests, FillFalse(q) PROVE RowsTyped' /\ RequestsTyped'
  BY <1>0, <1>23, Returning DEF FillFalse, Forget, RowsTyped
<1>24. ASSUME NEW q \in Requests, Abort(q) PROVE RowsTyped' /\ RequestsTyped'
  <2>1. At(q, "invalidate") => req[q].name \in Names
    BY SoundAt DEF At, Sound
  <2> QED
    BY <1>0, <1>24, <2>1, Aborting DEF Abort, RowsTyped
<1>25. CASE UNCHANGED vars
  BY <1>0, <1>25 DEF vars, RowsTyped, RequestsTyped
<1> QED
  BY <1>1, <1>2, <1>3, <1>4, <1>5, <1>6, <1>7, <1>8, <1>9, <1>10, <1>11, <1>12, <1>14, <1>15,
     <1>16, <1>17, <1>18, <1>19, <1>20, <1>21, <1>22, <1>23, <1>24, <1>25
     DEF Next, Single, Asking, Running, AskUpload, AskShorten, Objects

\* The tables, the cached ids and the handlers' locals are of their types.
THEOREM TypesHold == Spec => []TypeOK
<1>1. Spec => []TypeInv
  BY TypeInit, TypeStep, PTL DEF Spec
<1>2. TypeInv => TypeOK
  BY DEF TypeInv
<1> QED
  BY <1>1, <1>2, PTL

-----------------------------------------------------------------------------
(* What a removal has moved away does not come back unnoticed. *)

Swept(d, at) ==
    /\ at \in PastFiles => NoneIn(place, Files, d)
    /\ at \in PastShortens => NoneIn(place, Shortens, d)
    /\ at \in PastUsers => NoneIn(home, Users, d)
    /\ at \in PastShortenUsers => NoneIn(shome, Users, d)
    /\ at \in PastOwners => owner[d] = None

\* The same, of the removal q.
SweptBy(q) ==
    req[q].at \in Sweep /\ req[q].id \notin newcomers \cup {Base}
      => Swept(req[q].id, req[q].at)

LEMMA SweptParts == SweptStaysEmpty <=> \A q \in Requests : SweptBy(q)
  BY DEF SweptStaysEmpty, SweptBy, Swept

\* A row that comes to the domain of a removal that is past its table is known to it.
LEMMA SweptKept ==
  ASSUME TypeInv, NEW q \in Requests, SweptBy(q), newcomers \subseteq newcomers',
         req'[q].at \in Sweep => req'[q].at = req[q].at /\ req'[q].id = req[q].id,
         \A f \in Files : place'[f] \in {place[f], Base}
           \/ (req[q].id = place'[f] /\ req[q].at \in PastFiles => req[q].id \in newcomers'),
         \A s \in Shortens : place'[s] \in {place[s], Base}
           \/ (req[q].id = place'[s] /\ req[q].at \in PastShortens => req[q].id \in newcomers'),
         \A u \in Users : home'[u] \in {home[u], Base}
           \/ (req[q].id = home'[u] /\ req[q].at \in PastUsers => req[q].id \in newcomers'),
         \A u \in Users : shome'[u] \in {shome[u], Base}
           \/ (req[q].id = shome'[u] /\ req[q].at \in PastShortenUsers
                 => req[q].id \in newcomers'),
         owner[req[q].id] = None /\ req[q].id \in Ids => owner'[req[q].id] = None
           \/ (req[q].at \in PastOwners => req[q].id \in newcomers')
  PROVE  SweptBy(q)'
<1> SUFFICES ASSUME req'[q].at \in Sweep, req'[q].id \notin newcomers', req'[q].id # Base
             PROVE  Swept(req[q].id, req[q].at)'
  BY DEF SweptBy
<1>1. req[q].at \in Sweep /\ req[q].id \in Ids /\ req[q].id \notin newcomers'
      /\ req[q].id # Base /\ req[q].id # None /\ Swept(req[q].id, req[q].at)
  BY SoundAt DEF SweptBy, Sound
<1> QED
  BY <1>1 DEF Swept, NoneIn

LEMMA SweptRowsKept ==
  ASSUME TypeInv, NEW q \in Requests, SweptBy(q),
         req'[q].at \in Sweep => req'[q].at = req[q].at /\ req'[q].id = req[q].id,
         UNCHANGED <<place, home, shome, owner, newcomers>>
  PROVE  SweptBy(q)'
  BY SweptKept

\* A row that comes to d is noted for every removal that is past its table.
LEMMA ArriveNotes ==
  ASSUME NEW d \in Ids, NEW past, Arrive(d, past)
  PROVE  /\ newcomers \subseteq newcomers'
         /\ \A q \in Requests : req[q].id = d /\ req[q].at \in past => d \in newcomers'
  BY DEF Arrive, RemovingAt

LEMMA SweptStep == TypeInv /\ SweptStaysEmpty /\ [Next]_vars => SweptStaysEmpty'
<1> SUFFICES ASSUME TypeInv, SweptStaysEmpty, [Next]_vars, NEW r \in Requests
             PROVE  SweptBy(r)'
  BY DEF SweptStaysEmpty, SweptBy, Swept
<1>0. SweptBy(r) /\ RowsTyped
  BY SweptParts, TypeParts
<1> USE DEF tables, history
<1>1. ASSUME NEW d \in Ids, NEW u \in Users, AddOwner(d, u) PROVE SweptBy(r)'
  <2>1. /\ owner' = [owner EXCEPT ![d] = u] /\ Arrive(d, PastOwners)
        /\ UNCHANGED <<req, place, home, shome>>
    BY <1>1, Ordering DEF AddOwner
  <2> QED
    BY <1>0, <2>1, ArriveNotes, SweptKept DEF RowsTyped
<1>2. ASSUME NEW d \in Ids, NEW u \in Users, PatchOwner(d, u) PROVE SweptBy(r)'
  <2>1. /\ owner' = [owner EXCEPT ![d] = u] /\ owner[d] # None
        /\ UNCHANGED <<req, place, home, shome, newcomers>>
    BY <1>2, Ordering DEF PatchOwner
  <2> QED
    BY <1>0, <2>1, SweptKept DEF RowsTyped
<1>3. ASSUME NEW d \in Ids \cup {None}, NEW u \in Users, SetShortenDomain(u, d)
      PROVE  SweptBy(r)'
  <2>1. /\ shome' = [shome EXCEPT ![u] = d] /\ Arrive(d, PastShortenUsers)
        /\ UNCHANGED <<req, place, home, owner>>
    BY <1>3, Ordering DEF SetShortenDomain
  <2>2. CASE d \in Ids
    BY <1>0, <2>1, <2>2, ArriveNotes, SweptKept DEF RowsTyped
  <2>3. CASE d = None
    <3>1. newcomers \subseteq newcomers'
      BY <2>1 DEF Arrive
    <3> QED
      <4>1. req[r].at \in PastShortenUsers => req[r].id # None
        BY SoundAt DEF Sound, Sweep, PastShortenUsers, PastOwners
      <4> QED
        BY <1>0, <2>1, <2>3, <3>1, <4>1, SweptKept DEF RowsTyped
  <2> QED
    BY <2>2, <2>3
<1>4. ASSUME NEW d \in Ids, NEW o \in Objects, ModifyObject(o, d) PROVE SweptBy(r)'
  <2>1. /\ place' = [place EXCEPT ![o] = d] /\ Arrive(d, PastObject(o))
        /\ UNCHANGED <<req, home, shome, owner>>
    BY <1>4, Ordering DEF ModifyObject
  <2> QED
    BY <1>0, <2>1, ArriveNotes, SweptKept DEF RowsTyped, PastObject, Objects
<1>5. ASSUME NEW q \in Requests, NEW d \in Ids, NEW n \in Names,
             NEW u \in Users \cup {None, Stranger}, AddDomain(q, d, n, u)
      PROVE  SweptBy(r)'
  <2>1. UNCHANGED <<place, home, shome, owner, newcomers>>
    BY <1>5 DEF AddDomain
  <2> QED
    BY <1>0, <1>5, <2>1, AddDomainAsks, SweptRowsKept DEF Others, Sweep
<1>6. ASSUME NEW q \in Requests, NEW d \in Ids, AskRemoval(q, d) PROVE SweptBy(r)'
  <2>1. UNCHANGED <<place, home, shome, owner>>
        /\ newcomers' = IF RemovingAt(d, Sweep) THEN newcomers ELSE newcomers \ {d}
    BY <1>6 DEF AskRemoval
  <2>2. CASE r = q
    <3>1. req'[r].at = "files"
      BY <1>6, <2>2, AskRemovalAsks
    <3> QED
      BY <3>1 DEF SweptBy, Swept, PastFiles, PastShortens, PastUsers, PastShortenUsers, PastOwners
  <2>3. CASE r # q
    <3>1. req'[r] = req[r]
      BY <1>6, <2>3, AskRemovalAsks DEF Others
    <3>2. req[r].at \in Sweep /\ req[r].id \in newcomers => req[r].id \in newcomers'
      BY <2>1 DEF RemovingAt
    <3> QED
      BY <1>0, <2>1, <3>1, <3>2 DEF SweptBy, Swept, NoneIn
  <2> QED
    BY <2>2, <2>3
<1>7. ASSUME NEW q \in Requests, NEW d \in Ids, NEW u \in Users, AskDomain(q, u, d)
      PROVE  SweptBy(r)'
  <2>1. UNCHANGED <<place, home, shome, owner, newcomers>>
    BY <1>7 DEF AskDomain
  <2> QED
    BY <1>0, <1>7, <2>1, AskDomainAsks, SweptRowsKept DEF Others, Sweep
<1>8. ASSUME NEW q \in Requests, NEW o \in Objects, NEW u \in Users, AskObject(q, u, o)
      PROVE  SweptBy(r)'
  <2>1. UNCHANGED <<place, home, shome, owner, newcomers>>
    BY <1>8 DEF AskObject
  <2> QED
    BY <1>0, <1>8, <2>1, AskObjectAsks, SweptRowsKept DEF Others, Sweep
<1>9. ASSUME NEW q \in Requests, NEW host \in DOMAIN HostNames, AskHost(q, host)
      PROVE  SweptBy(r)'
  <2>1. UNCHANGED <<place, home, shome, owner, newcomers>>
    BY <1>9 DEF AskHost
  <2> QED
    BY <1>0, <1>9, <2>1, AskHostAsks, SweptRowsKept DEF Others, Sweep
<1>10. ASSUME NEW q \in Requests, SelectId(q) PROVE SweptBy(r)'
  <2>1. UNCHANGED <<place, home, shome, owner, newcomers>>
    BY <1>10 DEF SelectId
  <2> QED
    BY <1>0, <1>10, <2>1, SelectIdMoves, SweptRowsKept DEF Others, Sweep
<1>11. ASSUME NEW q \in Requests, InsertOwner(q) PROVE SweptBy(r)'
  <2>1. req[q].at = "owner" /\ UNCHANGED <<place, home, shome>>
    BY <1>11 DEF InsertOwner, At
  <2>2. CASE CanOwn(req[q].id, req[q].user)
    <3> DEFINE d == req[q].id
    <3>1. /\ d \in Ids /\ owner' = [owner EXCEPT ![d] = req[q].user] /\ Arrive(d, PastOwners)
          /\ Goto(q, "invalidate")
      BY <1>11, <2>2 DEF InsertOwner, CanOwn, InTable
    <3>2. Others(q) /\ req'[q].at = "invalidate"
      BY <2>1, <3>1, Going
    <3> HIDE DEF d
    <3> QED
      BY <1>0, <2>1, <3>1, <3>2, ArriveNotes, SweptKept DEF RowsTyped, Others, Sweep
  <2>3. CASE ~ CanOwn(req[q].id, req[q].user)
    <3>1. Return(q) /\ UNCHANGED <<owner, newcomers>>
      BY <1>11, <2>3 DEF InsertOwner
    <3> QED
      BY <1>0, <2>1, <3>1, Returning, SweptRowsKept DEF Others, Sweep
  <2> QED
    BY <2>2, <2>3
<1>12. ASSUME NEW q \in Requests, Invalidate(q) \/ Fill(q) \/ FillFalse(q) PROVE SweptBy(r)'
  <2>1. Return(q) /\ UNCHANGED <<place, home, shome, owner, newcomers>>
    BY <1>12 DEF Invalidate, Fill, FillFalse
  <2> QED
    BY <1>0, <2>1, Returning, SweptRowsKept DEF Others, Sweep
<1>13. ASSUME NEW q \in Requests, MoveFiles(q) \/ MoveShortens(q) PROVE SweptBy(r)'
  <2>1. ASSUME NEW step \in {"files", "shortens"}, NEW rows,
               step = "files" => rows = Files, step = "shortens" => rows = Shortens,
               NEW next, next = (IF step = "files" THEN "shortens" ELSE "users"),
               MoveObjects(q, step, rows, next)
        PROVE  SweptBy(r)'
    <3> DEFINE d == req[q].id
    <3>1. /\ req[q].at = step /\ d \in Ids /\ step \in Sweep /\ next \in Sweep
          /\ UNCHANGED <<home, shome, owner, newcomers>>
      BY <2>1, SoundAt DEF MoveObjects, At, Sound, Sweep
    <3>2. CASE Refuses(place, rows, d)
      <4>1. Return(q) /\ UNCHANGED place
        BY <2>1, <3>2 DEF MoveObjects
      <4> QED
        BY <1>0, <3>1, <4>1, Returning, SweptRowsKept DEF Others, Sweep
    <3>3. CASE ~ Refuses(place, rows, d)
      <4>1. Goto(q, next) /\ place' = Moved(place, rows, d) /\ rows \subseteq Objects
        BY <2>1, <3>3 DEF MoveObjects, Objects
      <4>2. Others(q) /\ req'[q].at = next /\ req'[q].id = d
        BY <3>1, <4>1, Going DEF Sweep
      <4>3. /\ \A o \in Objects : place'[o] \in {place[o], Base}
            /\ d # Base => NoneIn(place', rows, d)
        BY <1>0, <4>1 DEF Moved, RowsTyped, NoneIn
      <4>4. CASE r # q
        <5>1. req'[r] = req[r]
          BY <4>2, <4>4 DEF Others
        <5> HIDE DEF d
        <5> QED
          BY <1>0, <3>1, <4>3, <5>1, SweptKept DEF Objects
      <4>5. CASE r = q
        <5> SUFFICES ASSUME d \notin newcomers \cup {Base} PROVE Swept(d, next)'
          BY <3>1, <4>2, <4>5 DEF SweptBy, Swept
        <5>1. Swept(d, step)
          BY <1>0, <3>1, <4>5 DEF SweptBy
        <5>2. step = "shortens" => NoneIn(place, Files, d)
          BY <5>1 DEF Swept, PastFiles
        <5>3. step = "shortens" => NoneIn(place', Files, d)
          BY <4>3, <5>2 DEF NoneIn, Objects
        <5> QED
          BY <2>1, <4>2, <4>3, <5>3 DEF Swept, PastFiles, PastShortens, PastUsers, PastShortenUsers,
             PastOwners
      <4> QED
        BY <4>4, <4>5
    <3> QED
      BY <3>2, <3>3
  <2>2. CASE MoveFiles(q)
    BY <2>1, <2>2 DEF MoveFiles
  <2>3. CASE MoveShortens(q)
    BY <2>1, <2>3 DEF MoveShortens
  <2> QED
    BY <1>13, <2>2, <2>3
<1>14. ASSUME NEW q \in Requests, MoveUsers(q) PROVE SweptBy(r)'
  <2> DEFINE d == req[q].id
  <2>1. /\ req[q].at = "users" /\ d \in Ids
        /\ UNCHANGED <<place, shome, owner, newcomers>>
    BY <1>14, SoundAt DEF MoveUsers, At, Sound, Sweep
  <2>2. CASE Refuses(home, Users, d)
    <3>1. Return(q) /\ UNCHANGED home
      BY <1>14, <2>2 DEF MoveUsers
    <3> QED
      BY <1>0, <2>1, <3>1, Returning, SweptRowsKept DEF Others, Sweep
  <2>3. CASE ~ Refuses(home, Users, d)
    <3>1. Goto(q, "shorten_users") /\ home' = Moved(home, Users, d)
      BY <1>14, <2>3 DEF MoveUsers
    <3>2. Others(q) /\ req'[q].at = "shorten_users" /\ req'[q].id = d
      BY <2>1, <3>1, Going DEF Sweep
    <3>3. /\ \A u \in Users : home'[u] \in {home[u], Base}
          /\ d # Base => NoneIn(home', Users, d)
      BY <1>0, <3>1 DEF Moved, RowsTyped, NoneIn
    <3>4. CASE r # q
      <4>1. req'[r] = req[r]
        BY <3>2, <3>4 DEF Others
      <4> HIDE DEF d
      <4> QED
        BY <1>0, <2>1, <3>3, <4>1, SweptKept
    <3>5. CASE r = q
      <4> SUFFICES ASSUME d \notin newcomers \cup {Base} PROVE Swept(d, "shorten_users")'
        BY <2>1, <3>2, <3>5 DEF SweptBy, Swept
      <4>1. NoneIn(place, Files, d) /\ NoneIn(place, Shortens, d)
        BY <1>0, <2>1, <3>5 DEF SweptBy, Swept, Sweep, PastFiles, PastShortens, PastUsers
      <4>2. NoneIn(place', Files, d) /\ NoneIn(place', Shortens, d)
        BY <2>1, <4>1 DEF NoneIn
      <4> QED
        BY <3>2, <3>3, <4>2 DEF Swept, PastShortenUsers, PastOwners
    <3> QED
      BY <3>4, <3>5
  <2> QED
    BY <2>2, <2>3
<1>15. ASSUME NEW q \in Requests, MoveShortenUsers(q) PROVE SweptBy(r)'
  <2> DEFINE d == req[q].id
  <2>1. /\ req[q].at = "shorten_users" /\ d \in Ids
        /\ UNCHANGED <<place, home, owner, newcomers>>
    BY <1>15, SoundAt DEF MoveShortenUsers, At, Sound, Sweep
  <2>2. CASE Refuses(shome, Users, d)
    <3>1. Return(q) /\ UNCHANGED shome
      BY <1>15, <2>2 DEF MoveShortenUsers
    <3> QED
      BY <1>0, <2>1, <3>1, Returning, SweptRowsKept DEF Others, Sweep
  <2>3. CASE ~ Refuses(shome, Users, d)
    <3>1. Goto(q, "owners") /\ shome' = Moved(shome, Users, d)
      BY <1>15, <2>3 DEF MoveShortenUsers
    <3>2. Others(q) /\ req'[q].at = "owners" /\ req'[q].id = d
      BY <2>1, <3>1, Going DEF Sweep
    <3>3. /\ \A u \in Users : shome'[u] \in {shome[u], Base}
          /\ d # Base => NoneIn(shome', Users, d)
      BY <1>0, <3>1 DEF Moved, RowsTyped, NoneIn
    <3>4. CASE r # q
      <4>1. req'[r] = req[r]
        BY <3>2, <3>4 DEF Others
      <4> HIDE DEF d
      <4> QED
        BY <1>0, <2>1, <3>3, <4>1, SweptKept
    <3>5. CASE r = q
      <4> SUFFICES ASSUME d \notin newcomers \cup {Base} PROVE Swept(d, "owners")'
        BY <2>1, <3>2, <3>5 DEF SweptBy, Swept
      <4>1. NoneIn(place, Files, d) /\ NoneIn(place, Shortens, d) /\ NoneIn(home, Users, d)
        BY <1>0, <2>1, <3>5 DEF SweptBy, Swept, Sweep, PastFiles, PastShortens, PastUsers
      <4>2. NoneIn(place', Files, d) /\ NoneIn(place', Shortens, d) /\ NoneIn(home', Users, d)
        BY <2>1, <4>1 DEF NoneIn
      <4> QED
        BY <3>2, <3>3, <4>2 DEF Swept, PastOwners
    <3> QED
      BY <3>4, <3>5
  <2> QED
    BY <2>2, <2>3
<1>16. ASSUME NEW q \in Requests, DeleteOwner(q) PROVE SweptBy(r)'
  <2> DEFINE d == req[q].id
  <2>1. /\ req[q].at = "owners" /\ d \in Ids /\ Goto(q, "delete")
        /\ owner' = [owner EXCEPT ![d] = None]
        /\ UNCHANGED <<place, home, shome, newcomers>>
    BY <1>16, SoundAt DEF DeleteOwner, At, Sound, Sweep
  <2>2. Others(q) /\ req'[q].at = "delete" /\ req'[q].id = d
    BY <2>1, Going DEF Sweep
  <2>3. (\A i \in Ids : owner[i] = None => owner'[i] = None) /\ owner'[d] = None
    BY <1>0, <2>1 DEF RowsTyped
  <2>4. CASE r # q
    <3>1. req'[r] = req[r]
      BY <2>2, <2>4 DEF Others
    <3> HIDE DEF d
    <3> QED
      BY <1>0, <2>1, <2>3, <3>1, SweptKept
  <2>5. CASE r = q
    <3> SUFFICES ASSUME d \notin newcomers \cup {Base} PROVE Swept(d, "delete")'
      BY <2>1, <2>2, <2>5 DEF SweptBy, Swept
    <3>1. /\ NoneIn(place, Files, d) /\ NoneIn(place, Shortens, d)
          /\ NoneIn(home, Users, d) /\ NoneIn(shome, Users, d)
      BY <1>0, <2>1, <2>5
         DEF SweptBy, Swept, Sweep, PastFiles, PastShortens, PastUsers, PastShortenUsers
    <3> QED
      BY <2>1, <2>2, <2>3, <3>1 DEF Swept, NoneIn
  <2> QED
    BY <2>4, <2>5
<1>17. ASSUME NEW q \in Requests, DeleteDomain(q) PROVE SweptBy(r)'
  <2>1. /\ UNCHANGED <<place, home, shome, owner, newcomers>> /\ req[q].at = "delete"
        /\ Return(q) \/ Goto(q, "invalidate")
    BY <1>17 DEF DeleteDomain, At
  <2>2. Others(q) /\ req'[q].at \in {"idle", "invalidate"}
    BY <2>1, Returning, Going DEF Sweep
  <2> QED
    BY <1>0, <2>1, <2>2, SweptRowsKept DEF Others, Sweep
<1>18. ASSUME NEW q \in Requests, SetDomain(q) PROVE SweptBy(r)'
  <2> DEFINE d == req[q].id
  <2>1. Return(q) /\ UNCHANGED <<place, shome, owner>>
    BY <1>18 DEF SetDomain
  <2>2. Others(q) /\ req'[q].at = "idle"
    BY <2>1, Returning
  <2>3. CASE InTable(d)
    <3>1. d \in Ids /\ home' = [home EXCEPT ![req[q].user] = d] /\ Arrive(d, PastUsers)
      BY <1>18, <2>3 DEF SetDomain, InTable
    <3> HIDE DEF d
    <3> QED
      BY <1>0, <2>1, <2>2, <3>1, ArriveNotes, SweptKept DEF RowsTyped, Others, Sweep
  <2>4. CASE ~ InTable(d)
    <3>1. UNCHANGED <<home, newcomers>>
      BY <1>18, <2>4 DEF SetDomain
    <3> QED
      BY <1>0, <2>1, <2>2, <3>1, SweptRowsKept DEF Others, Sweep
  <2> QED
    BY <2>3, <2>4
<1>19. ASSUME NEW q \in Requests, ReadDomain(q) PROVE SweptBy(r)'
  <2>1. UNCHANGED <<place, home, shome, owner, newcomers>>
    BY <1>19 DEF ReadDomain
  <2> QED
    BY <1>0, <1>19, <2>1, ReadDomainMoves, SweptRowsKept DEF Others, Sweep
<1>20. ASSUME NEW q \in Requests, InsertObject(q) PROVE SweptBy(r)'
  <2> DEFINE d == req[q].id
             o == req[q].object
  <2>1. Return(q) /\ UNCHANGED <<home, shome, owner>>
    BY <1>20 DEF InsertObject
  <2>2. Others(q) /\ req'[q].at = "idle"
    BY <2>1, Returning
  <2>3. CASE InTable(d) /\ place[o] = None
    <3>1. d \in Ids /\ place' = [place EXCEPT ![o] = d] /\ Arrive(d, PastObject(o))
      BY <1>20, <2>3 DEF InsertObject, InTable
    <3> HIDE DEF d, o
    <3> QED
      BY <1>0, <2>1, <2>2, <3>1, ArriveNotes, SweptKept
         DEF RowsTyped, Others, Sweep, PastObject, Objects
  <2>4. CASE ~ (InTable(d) /\ place[o] = None)
    <3>1. UNCHANGED <<place, newcomers>>
      BY <1>20, <2>4 DEF InsertObject
    <3> QED
      BY <1>0, <2>1, <2>2, <3>1, SweptRowsKept DEF Others, Sweep
  <2> QED
    BY <2>3, <2>4
<1>21. ASSUME NEW q \in Requests, Abort(q) PROVE SweptBy(r)'
  <2>1. UNCHANGED <<place, home, shome, owner, newcomers>>
    BY <1>21 DEF Abort
  <2> QED
    BY <1>0, <1>21, <2>1, Aborting, SweptRowsKept DEF Others, Sweep
<1>22. CASE UNCHANGED vars
  <2>1. UNCHANGED <<req, place, home, shome, owner, newcomers>>
    BY <1>22 DEF vars
  <2> QED
    BY <1>0, <2>1, SweptRowsKept
<1> QED
  BY <1>1, <1>2, <1>3, <1>4, <1>5, <1>6, <1>7, <1>8, <1>9, <1>10, <1>11, <1>12, <1>13, <1>14,
     <1>15, <1>16, <1>17, <1>18, <1>19, <1>20, <1>21, <1>22
     DEF Next, Single, Asking, Running, AskUpload, AskShorten, Objects

\* A removal overlooks no row of its domain but what comes after it.
THEOREM RemovalsOverlookNothing == Spec => []SweptStaysEmpty
<1>1. Init => SweptStaysEmpty
  BY IdleIsSound DEF Init, SweptStaysEmpty, Sweep
<1> QED
  BY <1>1, TypeInit, TypeStep, SweptStep, PTL DEF Spec

-----------------------------------------------------------------------------
(* Most steps leave names, cached ids and makers alone, and keep what the  *)
(* handlers know.                                                          *)

Quiet(o) ==
    /\ req[o].at = "invalidate" => req'[o] = req[o]
    /\ req'[o].at \in {"select", "owner"} => req'[o] = req[o]
    /\ req'[o].at \in Sweep =>
         req[o].at \in Sweep /\ req'[o].id = req[o].id /\ req'[o].name = req[o].name
    /\ req'[o].at \in {"domain", "insert"} =>
         /\ req[o].at \in {"domain", "insert"}
         /\ req'[o].user = req[o].user /\ req'[o].object = req[o].object

QuietStep == UNCHANGED <<name, cache, lost, twins, maker>> /\ \A o \in Requests : Quiet(o)

Loud(q) ==
    \/ \E d \in Ids, n \in Names, u \in Users \cup {None, Stranger} : AddDomain(q, d, n, u)
    \/ \E d \in Ids : AskRemoval(q, d)
    \/ \E f \in Files, u \in Users : AskUpload(q, u, f)
    \/ \E s \in Shortens, u \in Users : AskShorten(q, u, s)
    \/ SelectId(q) \/ Invalidate(q) \/ DeleteDomain(q) \/ InsertObject(q)
    \/ Fill(q) \/ FillFalse(q) \/ Abort(q)

LEMMA QuietIfSame ==
  ASSUME UNCHANGED <<name, cache, lost, twins, maker>>, UNCHANGED req
  PROVE  QuietStep
  BY DEF QuietStep, Quiet

LEMMA QuietIfOne ==
  ASSUME UNCHANGED <<name, cache, lost, twins, maker>>, NEW q \in Requests, Others(q), Quiet(q)
  PROVE  QuietStep
  BY DEF QuietStep, Quiet, Others

LEMMA QuietOrLoud ==
  ASSUME TypeInv, [Next]_vars
  PROVE  QuietStep \/ \E q \in Requests : Loud(q)
<1> USE DEF tables, history
<1>1. ASSUME NEW d \in Ids, NEW u \in Users, AddOwner(d, u) \/ PatchOwner(d, u) PROVE QuietStep
  BY <1>1, QuietIfSame, Ordering DEF AddOwner, PatchOwner
<1>2. ASSUME NEW d \in Ids \cup {None}, NEW u \in Users, SetShortenDomain(u, d) PROVE QuietStep
  BY <1>2, QuietIfSame, Ordering DEF SetShortenDomain
<1>3. ASSUME NEW d \in Ids, NEW o \in Objects, ModifyObject(o, d) PROVE QuietStep
  BY <1>3, QuietIfSame, Ordering DEF ModifyObject
<1>4. ASSUME NEW q \in Requests, NEW d \in Ids, NEW u \in Users, AskDomain(q, u, d)
      PROVE  QuietStep
  <2>1. UNCHANGED <<name, cache, lost, twins, maker>>
    BY <1>4 DEF AskDomain
  <2>2. Others(q) /\ Quiet(q)
    BY <1>4, AskDomainAsks DEF Quiet, Sweep
  <2> QED
    BY <2>1, <2>2, QuietIfOne
<1>5. ASSUME NEW q \in Requests, NEW host \in DOMAIN HostNames, AskHost(q, host)
      PROVE  QuietStep
  <2>1. UNCHANGED <<name, cache, lost, twins, maker>>
    BY <1>5 DEF AskHost
  <2>2. Others(q) /\ Quiet(q)
    BY <1>5, AskHostAsks DEF Quiet, Sweep
  <2> QED
    BY <2>1, <2>2, QuietIfOne
<1>6. ASSUME NEW q \in Requests, InsertOwner(q) PROVE QuietStep
  <2>1. UNCHANGED <<name, cache, lost, twins, maker>> /\ req[q].at = "owner"
        /\ (Return(q) \/ Goto(q, "invalidate"))
    BY <1>6 DEF InsertOwner, At
  <2>2. Others(q) /\ Quiet(q)
    BY <2>1, Returning, Going DEF Quiet, Sweep
  <2> QED
    BY <2>1, <2>2, QuietIfOne
<1>7. ASSUME NEW q \in Requests,
             MoveFiles(q) \/ MoveShortens(q) \/ MoveUsers(q) \/ MoveShortenUsers(q)
               \/ DeleteOwner(q)
      PROVE  QuietStep
  <2>1. PICK step \in Sweep : UNCHANGED <<name, cache, lost, twins, maker>>
        /\ req[q].at \in Sweep /\ (Return(q) \/ Goto(q, step))
    BY <1>7 DEF MoveFiles, MoveShortens, MoveObjects, MoveUsers, MoveShortenUsers, DeleteOwner,
       At, Sweep
  <2>2. CASE Return(q)
    <3>1. Others(q) /\ Quiet(q)
      BY <2>1, <2>2, Returning DEF Quiet, Sweep
    <3> QED
      BY <2>1, <3>1, QuietIfOne
  <2>3. CASE Goto(q, step)
    <3>1. req[q].at # "owner"
      BY <2>1 DEF Sweep
    <3>2. Others(q) /\ req'[q].at = step /\ req'[q].id = req[q].id /\ req'[q].name = req[q].name
      BY <2>1, <2>3, <3>1, Going
    <3>3. Quiet(q)
      BY <2>1, <3>2 DEF Quiet, Sweep
    <3> QED
      BY <2>1, <3>2, <3>3, QuietIfOne
  <2> QED
    BY <2>1, <2>2, <2>3
<1>8. ASSUME NEW q \in Requests, SetDomain(q) PROVE QuietStep
  <2>1. UNCHANGED <<name, cache, lost, twins, maker>> /\ req[q].at = "set_domain" /\ Return(q)
    BY <1>8 DEF SetDomain, At
  <2>2. Others(q) /\ Quiet(q)
    BY <2>1, Returning DEF Quiet, Sweep
  <2> QED
    BY <2>1, <2>2, QuietIfOne
<1>9. ASSUME NEW q \in Requests, ReadDomain(q) PROVE QuietStep
  <2>1. UNCHANGED <<name, cache, lost, twins, maker>>
    BY <1>9 DEF ReadDomain
  <2>2. Others(q) /\ Quiet(q)
    BY <1>9, ReadDomainMoves DEF Quiet, Sweep
  <2> QED
    BY <2>1, <2>2, QuietIfOne
<1>10. CASE UNCHANGED vars
  BY <1>10, QuietIfSame DEF vars
<1> QED
  BY <1>1, <1>2, <1>3, <1>4, <1>5, <1>6, <1>7, <1>8, <1>9, <1>10
     DEF Next, Single, Asking, Running, Loud

-----------------------------------------------------------------------------
(* Cached ids. *)

\* A removal invalidates the name that its domain had.
RemovalsKnowTheName ==
    \A q \in Requests :
      req[q].at \in Sweep => name[req[q].id] \in {req[q].name, "removed"}

LEMMA KnownNameKept ==
  ASSUME TypeInv, RemovalsKnowTheName,
         \A o \in Requests : req'[o].at \in Sweep =>
           req[o].at \in Sweep /\ req'[o].id = req[o].id /\ req'[o].name = req[o].name,
         \A i \in Ids : name'[i] = name[i] \/ name[i] = None \/ name'[i] = "removed"
  PROVE  RemovalsKnowTheName'
<1> SUFFICES ASSUME NEW o \in Requests, req'[o].at \in Sweep
             PROVE  name'[req'[o].id] \in {req'[o].name, "removed"}
  BY DEF RemovalsKnowTheName
<1>1. req[o].at \in Sweep /\ req'[o].id = req[o].id /\ req'[o].name = req[o].name
  OBVIOUS
<1>2. req[o].id \in Ids /\ req[o].name \in Names /\ name[req[o].id] \in {req[o].name, "removed"}
  BY <1>1, SoundAt DEF Sound, RemovalsKnowTheName
<1>3. name[req[o].id] # None
  BY <1>2 DEF None
<1> QED
  BY <1>1, <1>2, <1>3

LEMMA CachedKept ==
  ASSUME TypeInv, CachedIdsExist, UNCHANGED cache, lost \subseteq lost',
         \A o \in Requests : req[o].at = "invalidate" => req'[o] = req[o],
         \A i \in Ids : name'[i] = name[i] \/ name[i] \notin Names
  PROVE  CachedIdsExist'
<1> SUFFICES ASSUME NEW n \in Names, cache[n] # None, name'[cache[n]] # n, n \notin lost'
             PROVE  \E q \in Requests : req'[q].at = "invalidate" /\ req'[q].name = n
  BY DEF CachedIdsExist, At
<1>1. cache[n] \in Ids
  BY DEF TypeInv, TypeOK
<1>2. name[cache[n]] # n
  BY <1>1
<1>3. PICK q \in Requests : req[q].at = "invalidate" /\ req[q].name = n
  BY <1>2 DEF CachedIdsExist, At
<1> QED
  BY <1>3

CacheInv == TypeInv /\ CachedIdsExist /\ RemovalsKnowTheName

LEMMA CacheStep == CacheInv /\ [Next]_vars => CachedIdsExist' /\ RemovalsKnowTheName'
<1> SUFFICES ASSUME TypeInv, CachedIdsExist, RemovalsKnowTheName, [Next]_vars
             PROVE  CachedIdsExist' /\ RemovalsKnowTheName'
  BY DEF CacheInv
<1>0. RowsTyped
  BY TypeParts
<1> USE DEF tables, history
<1>1. CASE QuietStep
  BY <1>1, KnownNameKept, CachedKept DEF QuietStep, Quiet
<1>2. ASSUME NEW q \in Requests, NEW d \in Ids, NEW n \in Names,
             NEW u \in Users \cup {None, Stranger}, AddDomain(q, d, n, u)
      PROVE  CachedIdsExist' /\ RemovalsKnowTheName'
  <2>1. UNCHANGED <<cache, lost>> /\ name' = [name EXCEPT ![d] = n] /\ name[d] = None
    BY <1>2 DEF AddDomain
  <2>2. Others(q) /\ req[q].at = "idle" /\ req'[q].at = "select"
    BY <1>2, AddDomainAsks
  <2>3. \A i \in Ids : name'[i] = name[i] \/ name[i] = None
    BY <1>0, <2>1 DEF RowsTyped
  <2>4. CachedIdsExist'
    BY <2>1, <2>2, <2>3, CachedKept DEF Others
  <2>5. RemovalsKnowTheName'
    BY <2>2, <2>3, KnownNameKept DEF Others, Sweep
  <2> QED
    BY <2>4, <2>5
<1>3. ASSUME NEW q \in Requests, NEW d \in Ids, AskRemoval(q, d)
      PROVE  CachedIdsExist' /\ RemovalsKnowTheName'
  <2>1. UNCHANGED <<cache, lost, name>>
    BY <1>3 DEF AskRemoval
  <2>2. Others(q) /\ req[q].at = "idle" /\ req'[q].id = d /\ req'[q].name = name[d]
    BY <1>3, AskRemovalAsks
  <2>3. CachedIdsExist'
    BY <2>1, <2>2, CachedKept DEF Others
  <2>4. RemovalsKnowTheName'
    BY <2>1, <2>2 DEF Others, RemovalsKnowTheName
  <2> QED
    BY <2>3, <2>4
<1>4. ASSUME NEW q \in Requests, NEW o \in Objects, NEW u \in Users, AskObject(q, u, o)
      PROVE  CachedIdsExist' /\ RemovalsKnowTheName'
  <2>1. UNCHANGED <<cache, lost, name>>
    BY <1>4 DEF AskObject
  <2>2. Others(q) /\ req[q].at = "idle" /\ req'[q].at = "domain"
    BY <1>4, AskObjectAsks
  <2> QED
    BY <2>1, <2>2, CachedKept, KnownNameKept DEF Others, Sweep
<1>5. ASSUME NEW q \in Requests, SelectId(q) PROVE CachedIdsExist' /\ RemovalsKnowTheName'
  <2>1. UNCHANGED <<cache, lost, name>>
    BY <1>5 DEF SelectId
  <2>2. Others(q) /\ req[q].at = "select" /\ req'[q].at \in {"owner", "invalidate"}
    BY <1>5, SelectIdMoves
  <2> QED
    BY <2>1, <2>2, CachedKept, KnownNameKept DEF Others, Sweep
<1>6. ASSUME NEW q \in Requests, Invalidate(q) PROVE CachedIdsExist' /\ RemovalsKnowTheName'
  <2> DEFINE names == HostNames[req[q].name]
  <2>1. /\ cache' = [n \in Names |-> IF n \in names THEN None ELSE cache[n]]
        /\ lost' = lost \ names
        /\ UNCHANGED name /\ Return(q)
    BY <1>6 DEF Invalidate, Forget
  <2>2. Others(q) /\ req'[q].at = "idle"
    BY <2>1, Returning
  <2>3. \A n \in Names : n = req[q].name => n \in names
    OBVIOUS
  <2>4. CachedIdsExist'
    <3> HIDE DEF names
    <3> QED
      BY <2>1, <2>2, <2>3 DEF CachedIdsExist, At, Others
  <2>5. RemovalsKnowTheName'
    BY <2>1, <2>2, KnownNameKept DEF Others, Sweep
  <2> QED
    BY <2>4, <2>5
<1>7. ASSUME NEW q \in Requests, DeleteDomain(q) PROVE CachedIdsExist' /\ RemovalsKnowTheName'
  <2> DEFINE d == req[q].id
  <2>1. UNCHANGED <<cache, lost>> /\ req[q].at = "delete"
    BY <1>7 DEF DeleteDomain, At
  <2>2. CASE Referenced(d)
    <3>1. UNCHANGED name /\ Return(q)
      BY <1>7, <2>2 DEF DeleteDomain
    <3>2. Others(q) /\ req'[q].at = "idle"
      BY <3>1, Returning
    <3> QED
      BY <2>1, <3>1, <3>2, CachedKept, KnownNameKept DEF Others, Sweep
  <2>3. CASE ~ Referenced(d)
    <3>1. name' = [name EXCEPT ![d] = "removed"] /\ Goto(q, "invalidate")
      BY <1>7, <2>3 DEF DeleteDomain
    <3>2. Others(q) /\ req'[q].at = "invalidate" /\ req'[q].name = req[q].name
      BY <2>1, <3>1, Going DEF Sweep
    <3>3. d \in Ids /\ name[d] \in {req[q].name, "removed"}
      BY <2>1, SoundAt DEF Sound, Sweep, RemovalsKnowTheName
    <3>4. \A i \in Ids : name'[i] = name[i] \/ (name'[i] = "removed" /\ i = d)
      <4>1. name \in [Ids -> Names \cup {None, "removed"}]
        BY <1>0 DEF RowsTyped
      <4>2. name' = [i \in Ids |-> IF i = d THEN "removed" ELSE name[i]]
        BY <3>1, <4>1
      <4> QED
        BY <4>2
    <3>5. RemovalsKnowTheName'
      <4> HIDE DEF d
      <4> QED
        BY <2>1, <3>2, <3>4, KnownNameKept DEF Others, Sweep
    <3>6. CachedIdsExist'
      <4> SUFFICES ASSUME NEW n \in Names, cache[n] # None, name'[cache[n]] # n, n \notin lost,
                          req[q].name # n
                   PROVE  \E o \in Requests : req'[o].at = "invalidate" /\ req'[o].name = n
        BY <2>1, <3>2 DEF CachedIdsExist, At
      <4>1. cache[n] \in Ids
        BY DEF TypeInv, TypeOK
      <4>2. name[cache[n]] # n
        BY <3>3, <3>4, <4>1
      <4>3. PICK o \in Requests : req[o].at = "invalidate" /\ req[o].name = n
        BY <4>2 DEF CachedIdsExist, At
      <4> QED
        BY <2>1, <3>2, <4>3 DEF Others
    <3> QED
      BY <3>5, <3>6
  <2> QED
    BY <2>2, <2>3
<1>8. ASSUME NEW q \in Requests, InsertObject(q) PROVE CachedIdsExist' /\ RemovalsKnowTheName'
  <2>1. UNCHANGED <<cache, lost, name>> /\ req[q].at = "insert" /\ Return(q)
    BY <1>8 DEF InsertObject, At
  <2>2. Others(q) /\ req'[q].at = "idle"
    BY <2>1, Returning
  <2> QED
    BY <2>1, <2>2, CachedKept, KnownNameKept DEF Others, Sweep
<1>9. ASSUME NEW q \in Requests, Fill(q) PROVE CachedIdsExist' /\ RemovalsKnowTheName'
  <2>1. /\ cache' = [cache EXCEPT ![req[q].name] = req[q].id]
        /\ lost' = IF name[req[q].id] = req[q].name THEN lost \ {req[q].name}
                   ELSE lost \cup {req[q].name}
        /\ UNCHANGED name /\ Return(q) /\ req[q].at = "fill"
    BY <1>9 DEF Fill, At
  <2>2. Others(q) /\ req'[q].at = "idle"
    BY <2>1, Returning
  <2>3. CachedIdsExist'
    BY <1>0, <2>1, <2>2 DEF RowsTyped, CachedIdsExist, At, Others
  <2>4. RemovalsKnowTheName'
    BY <2>1, <2>2, KnownNameKept DEF Others, Sweep
  <2> QED
    BY <2>3, <2>4
<1>10. ASSUME NEW q \in Requests, FillFalse(q) PROVE CachedIdsExist' /\ RemovalsKnowTheName'
  <2> DEFINE names == HostNames[req[q].host]
  <2>1. /\ cache' = [n \in Names |-> IF n \in names THEN None ELSE cache[n]]
        /\ lost' = lost \ names
        /\ UNCHANGED name /\ Return(q) /\ req[q].at = "fill_false"
    BY <1>10 DEF FillFalse, Forget, At
  <2>2. Others(q) /\ req'[q].at = "idle"
    BY <2>1, Returning
  <2>3. CachedIdsExist'
    <3> HIDE DEF names
    <3> QED
      BY <2>1, <2>2 DEF CachedIdsExist, At, Others
  <2>4. RemovalsKnowTheName'
    BY <2>1, <2>2, KnownNameKept DEF Others, Sweep
  <2> QED
    BY <2>3, <2>4
<1>11. ASSUME NEW q \in Requests, Abort(q) PROVE CachedIdsExist' /\ RemovalsKnowTheName'
  <2>1. /\ UNCHANGED <<cache, name>>
        /\ lost' = IF req[q].at = "invalidate" THEN lost \cup {req[q].name} ELSE lost
    BY <1>11 DEF Abort, At
  <2>2. Others(q) /\ req'[q].at = "idle"
    BY <1>11, Aborting
  <2>3. CachedIdsExist'
    BY <2>1, <2>2 DEF CachedIdsExist, At, Others
  <2>4. RemovalsKnowTheName'
    BY <2>1, <2>2, KnownNameKept DEF Others, Sweep
  <2> QED
    BY <2>3, <2>4
<1> QED
  BY <1>1, <1>2, <1>3, <1>4, <1>5, <1>6, <1>7, <1>8, <1>9, <1>10, <1>11, QuietOrLoud
     DEF Loud, AskUpload, AskShorten, Objects

\* A host is not resolved to a domain that is gone, but on the way to the
\* invalidation, or if a lookup that had read the row filled the key after it.
THEOREM CacheForgetsRemoved == Spec => []CachedIdsExist
<1>1. Init => CacheInv
  BY TypeInit, IdleIsSound DEF Init, CacheInv, CachedIdsExist, RemovalsKnowTheName, Sweep
<1>2. CacheInv /\ [Next]_vars => CacheInv'
  BY TypeStep, CacheStep DEF CacheInv
<1>3. CacheInv => CachedIdsExist
  BY DEF CacheInv
<1> QED
  BY <1>1, <1>2, <1>3, PTL DEF Spec

-----------------------------------------------------------------------------
(* Owners of new domains. *)

\* A name that is not a twin's is that of the new domain alone.
NewNamesAreKnown ==
    \A q \in Requests :
      req[q].at = "select" => NamedAs(req[q].name) \subseteq {req[q].new} \/ req[q].name \in twins

LEMMA OwnersKept ==
  ASSUME OwnersGetTheNewDomain, NewNamesAreKnown, twins \subseteq twins',
         \A o \in Requests : req'[o].at \in {"select", "owner"} => req'[o] = req[o],
         \A i \in Ids : name'[i] = name[i] \/ name'[i] = "removed",
         \A o \in Requests : req[o].at = "select" => req[o].name # "removed"
  PROVE  OwnersGetTheNewDomain' /\ NewNamesAreKnown'
<1>1. OwnersGetTheNewDomain'
  BY DEF OwnersGetTheNewDomain, At
<1>2. ASSUME NEW o \in Requests, req'[o].at = "select", req'[o].name \notin twins',
             NEW i \in Ids, name'[i] = req'[o].name
      PROVE  i = req'[o].new
  <2>1. req'[o] = req[o] /\ req[o].at = "select" /\ req[o].name # "removed"
    BY <1>2
  <2>2. name[i] = req[o].name /\ req[o].name \notin twins
    BY <1>2, <2>1
  <2> QED
    BY <2>1, <2>2 DEF NewNamesAreKnown, NamedAs
<1>3. NewNamesAreKnown'
  BY <1>2 DEF NewNamesAreKnown, NamedAs
<1> QED
  BY <1>1, <1>3

OwnersInv == TypeInv /\ OwnersGetTheNewDomain /\ NewNamesAreKnown

LEMMA OwnersStep == OwnersInv /\ [Next]_vars => OwnersGetTheNewDomain' /\ NewNamesAreKnown'
<1> SUFFICES ASSUME TypeInv, OwnersGetTheNewDomain, NewNamesAreKnown, [Next]_vars
             PROVE  OwnersGetTheNewDomain' /\ NewNamesAreKnown'
  BY DEF OwnersInv
<1>0. RowsTyped /\ \A o \in Requests : req[o].at = "select" => req[o].name # "removed"
  BY TypeParts, SoundAt DEF Sound
<1> USE DEF tables, history
<1>1. CASE QuietStep
  BY <1>0, <1>1, OwnersKept DEF QuietStep, Quiet
<1>2. ASSUME NEW q \in Requests, NEW d \in Ids, NEW n \in Names,
             NEW u \in Users \cup {None, Stranger}, AddDomain(q, d, n, u)
      PROVE  OwnersGetTheNewDomain' /\ NewNamesAreKnown'
  <2>1. /\ name' = [name EXCEPT ![d] = n]
        /\ twins \subseteq twins'
        /\ n \notin twins' => NamedAs(n) = {}
        /\ n \notin twins' => \A o \in Requests : req[o].at = "select" => req[o].name # n
    <3> DEFINE taken == NamedAs(n) # {} \/ \E o \in Requests : At(o, "select") /\ req[o].name = n
    <3>1. /\ name' = [name EXCEPT ![d] = n]
          /\ taken => twins' = twins \cup {n}
          /\ ~ taken => twins' = twins
      BY <1>2 DEF AddDomain
    <3>2. ~ taken => NamedAs(n) = {} /\ \A o \in Requests : req[o].at = "select" => req[o].name # n
      BY DEF At
    <3>3. CASE taken
      BY <3>1, <3>3
    <3>4. CASE ~ taken
      BY <3>1, <3>2, <3>4
    <3> QED
      BY <3>3, <3>4
  <2>2. /\ Others(q) /\ req'[q].at = "select" /\ req'[q].name = n /\ req'[q].new = d
    BY <1>2, AddDomainAsks
  <2>3. \A i \in Ids : name'[i] = IF i = d THEN n ELSE name[i]
    BY <1>0, <2>1 DEF RowsTyped
  <2>4. OwnersGetTheNewDomain'
    BY <2>1, <2>2 DEF OwnersGetTheNewDomain, At, Others
  <2>5. ASSUME NEW o \in Requests, req'[o].at = "select", req'[o].name \notin twins',
               NEW i \in Ids, name'[i] = req'[o].name
        PROVE  i = req'[o].new
    <3>1. CASE o = q
      BY <2>1, <2>2, <2>3, <2>5, <3>1 DEF NamedAs
    <3>2. CASE o # q
      <4>1. req'[o] = req[o]
        BY <2>2, <3>2 DEF Others
      <4>2. req[o].name # n /\ req[o].name \notin twins
        BY <2>1, <2>5, <4>1
      <4>3. name[i] = req[o].name
        BY <2>3, <2>5, <4>1, <4>2
      <4> QED
        BY <2>5, <4>1, <4>2, <4>3 DEF NewNamesAreKnown, NamedAs
    <3> QED
      BY <3>1, <3>2
  <2>6. NewNamesAreKnown'
    BY <2>5 DEF NewNamesAreKnown, NamedAs
  <2> QED
    BY <2>4, <2>6
<1>3. ASSUME NEW q \in Requests, NEW d \in Ids, AskRemoval(q, d)
      PROVE  OwnersGetTheNewDomain' /\ NewNamesAreKnown'
  <2>1. UNCHANGED <<twins, name>>
    BY <1>3 DEF AskRemoval
  <2>2. Others(q) /\ req'[q].at = "files"
    BY <1>3, AskRemovalAsks
  <2> QED
    BY <1>0, <2>1, <2>2, OwnersKept DEF Others
<1>4. ASSUME NEW q \in Requests, NEW o \in Objects, NEW u \in Users, AskObject(q, u, o)
      PROVE  OwnersGetTheNewDomain' /\ NewNamesAreKnown'
  <2>1. UNCHANGED <<twins, name>>
    BY <1>4 DEF AskObject
  <2>2. Others(q) /\ req'[q].at = "domain"
    BY <1>4, AskObjectAsks
  <2> QED
    BY <1>0, <2>1, <2>2, OwnersKept DEF Others
<1>5. ASSUME NEW q \in Requests, SelectId(q)
      PROVE  OwnersGetTheNewDomain' /\ NewNamesAreKnown'
  <2>1. UNCHANGED <<twins, name>>
    BY <1>5 DEF SelectId
  <2>2. /\ Others(q) /\ req[q].at = "select" /\ req'[q].at \in {"owner", "invalidate"}
        /\ req'[q].id \in NamedAs(req[q].name) \cup {None}
        /\ req'[q].new = req[q].new /\ req'[q].name = req[q].name
    BY <1>5, SelectIdMoves
  <2>3. req'[q].id \in {req'[q].new, None} \/ req'[q].name \in twins'
    BY <2>1, <2>2 DEF NewNamesAreKnown
  <2>4. OwnersGetTheNewDomain'
    BY <2>1, <2>2, <2>3 DEF OwnersGetTheNewDomain, At, Others
  <2>5. NewNamesAreKnown'
    BY <2>1, <2>2 DEF NewNamesAreKnown, NamedAs, Others
  <2> QED
    BY <2>4, <2>5
<1>6. ASSUME NEW q \in Requests, Invalidate(q) \/ InsertObject(q) \/ Fill(q) \/ FillFalse(q)
      PROVE  OwnersGetTheNewDomain' /\ NewNamesAreKnown'
  <2>1. UNCHANGED <<twins, name>> /\ Return(q)
    BY <1>6 DEF Invalidate, InsertObject, Fill, FillFalse
  <2>2. Others(q) /\ req'[q].at = "idle"
    BY <2>1, Returning
  <2> QED
    BY <1>0, <2>1, <2>2, OwnersKept DEF Others
<1>7. ASSUME NEW q \in Requests, DeleteDomain(q)
      PROVE  OwnersGetTheNewDomain' /\ NewNamesAreKnown'
  <2>1. /\ UNCHANGED twins /\ req[q].at = "delete"
        /\ name' \in {name, [name EXCEPT ![req[q].id] = "removed"]}
        /\ Return(q) \/ Goto(q, "invalidate")
    BY <1>7 DEF DeleteDomain, At
  <2>2. Others(q) /\ req'[q].at \in {"idle", "invalidate"}
    BY <2>1, Returning, Going DEF Sweep
  <2>3. \A i \in Ids : name'[i] = name[i] \/ name'[i] = "removed"
    BY <1>0, <2>1 DEF RowsTyped
  <2> QED
    BY <1>0, <2>1, <2>2, <2>3, OwnersKept DEF Others
<1>8. ASSUME NEW q \in Requests, Abort(q)
      PROVE  OwnersGetTheNewDomain' /\ NewNamesAreKnown'
  <2>1. UNCHANGED <<twins, name>>
    BY <1>8 DEF Abort
  <2>2. Others(q) /\ req'[q].at = "idle"
    BY <1>8, Aborting
  <2> QED
    BY <1>0, <2>1, <2>2, OwnersKept DEF Others
<1> QED
  BY <1>1, <1>2, <1>3, <1>4, <1>5, <1>6, <1>7, <1>8, QuietOrLoud DEF Loud, AskUpload, AskShorten, Objects

\* The owner given with a new domain is made the owner of that one, unless
\* another has its name.
THEOREM NewOwnersHold == Spec => []OwnersGetTheNewDomain
<1>1. Init => OwnersInv
  BY TypeInit, IdleIsSound DEF Init, OwnersInv, OwnersGetTheNewDomain, NewNamesAreKnown, At
<1>2. OwnersInv /\ [Next]_vars => OwnersInv'
  BY TypeStep, OwnersStep DEF OwnersInv
<1>3. OwnersInv => OwnersGetTheNewDomain
  BY DEF OwnersInv
<1> QED
  BY <1>1, <1>2, <1>3, PTL DEF Spec

-----------------------------------------------------------------------------
(* The limits of uploads and shorten links. *)

Kinds == {"upload", "shorten"}
Rows(kind) == IF kind = "shorten" THEN Shortens ELSE Files
LimitOf(kind) == IF kind = "shorten" THEN Quota ELSE ByteLimit
Made(u, kind) == MadeBy(u, Rows(kind))
Allowed(kind) == IF LimitOf(kind) = 0 THEN 0 ELSE LimitOf(kind) - 1

\* The requests that have counted what u made of a kind and not inserted theirs yet.
Pending(u, kind) ==
    {q \in Requests : /\ req[q].at \in {"domain", "insert"} /\ req[q].user = u
                      /\ req[q].object \in Rows(kind)}

PendingIsLimited ==
    \A u \in Users, kind \in Kinds :
      Cardinality(Made(u, kind)) + Cardinality(Pending(u, kind))
        <= Allowed(kind) + Cardinality(Requests)

LEMMA RowsFinite ==
  ASSUME NEW kind
  PROVE  /\ IsFiniteSet(Rows(kind)) /\ Rows(kind) \subseteq Objects
         /\ LimitOf(kind) \in Nat /\ Allowed(kind) \in Nat
  BY DEF Rows, LimitOf, Allowed, Objects

LEMMA Sizes ==
  ASSUME NEW u, NEW kind
  PROVE  /\ IsFiniteSet(Made(u, kind)) /\ Cardinality(Made(u, kind)) \in Nat
         /\ IsFiniteSet(Pending(u, kind)) /\ Cardinality(Pending(u, kind)) \in Nat
         /\ Cardinality(Pending(u, kind)) <= Cardinality(Requests) /\ Cardinality(Requests) \in Nat
<1>1. Made(u, kind) \subseteq Rows(kind) /\ Pending(u, kind) \subseteq Requests
  BY DEF Made, MadeBy, Pending
<1> QED
  BY <1>1, RowsFinite, FS_Subset, FS_CardinalityType

LEMMA SizesPrimed ==
  ASSUME NEW u, NEW kind
  PROVE  /\ IsFiniteSet(Made(u, kind)') /\ Cardinality(Made(u, kind)') \in Nat
         /\ IsFiniteSet(Pending(u, kind)') /\ Cardinality(Pending(u, kind)') \in Nat
         /\ Cardinality(Pending(u, kind)') <= Cardinality(Requests)
<1>1. Made(u, kind)' \subseteq Rows(kind) /\ Pending(u, kind)' \subseteq Requests
  BY DEF Made, MadeBy, Pending
<1> QED
  BY <1>1, RowsFinite, FS_Subset, FS_CardinalityType

\* No shorten is made, and nothing is pending that was not.
LEMMA PendingKept ==
  ASSUME PendingIsLimited, UNCHANGED maker,
         \A o \in Requests : req'[o].at \in {"domain", "insert"} =>
           /\ req[o].at \in {"domain", "insert"}
           /\ req'[o].user = req[o].user /\ req'[o].object = req[o].object
  PROVE  PendingIsLimited'
<1> SUFFICES ASSUME NEW u \in Users, NEW kind \in Kinds
             PROVE  Cardinality(Made(u, kind)') + Cardinality(Pending(u, kind)')
                      <= Allowed(kind) + Cardinality(Requests)
  BY DEF PendingIsLimited
<1>1. Made(u, kind)' = Made(u, kind) /\ Pending(u, kind)' \subseteq Pending(u, kind)
  BY DEF Made, MadeBy, Pending
<1>2. Cardinality(Pending(u, kind)') <= Cardinality(Pending(u, kind))
  BY <1>1, Sizes, FS_Subset
<1>3. Cardinality(Made(u, kind)) + Cardinality(Pending(u, kind))
        <= Allowed(kind) + Cardinality(Requests)
  BY DEF PendingIsLimited
<1> QED
  BY <1>1, <1>2, <1>3, Sizes, SizesPrimed, RowsFinite

LEMMA PendingStep == TypeInv /\ PendingIsLimited /\ [Next]_vars => PendingIsLimited'
<1> SUFFICES ASSUME TypeInv, PendingIsLimited, [Next]_vars PROVE PendingIsLimited'
  OBVIOUS
<1>0. RowsTyped
  BY TypeParts
<1> USE DEF tables, history
<1>1. CASE QuietStep
  BY <1>1, PendingKept DEF QuietStep, Quiet
<1>2. ASSUME NEW q \in Requests, UNCHANGED maker, Others(q),
             req'[q].at \notin {"domain", "insert"}
      PROVE  PendingIsLimited'
  BY <1>2, PendingKept DEF Others
<1>3. ASSUME NEW q \in Requests, NEW d \in Ids, NEW n \in Names,
             NEW u \in Users \cup {None, Stranger}, AddDomain(q, d, n, u)
      PROVE  PendingIsLimited'
  BY <1>2, <1>3, AddDomainAsks DEF AddDomain
<1>4. ASSUME NEW q \in Requests, NEW d \in Ids, AskRemoval(q, d) PROVE PendingIsLimited'
  BY <1>2, <1>4, AskRemovalAsks DEF AskRemoval
<1>5. ASSUME NEW q \in Requests, SelectId(q) PROVE PendingIsLimited'
  BY <1>2, <1>5, SelectIdMoves DEF SelectId
<1>6. ASSUME NEW q \in Requests, Invalidate(q) \/ Fill(q) \/ FillFalse(q)
      PROVE  PendingIsLimited'
  BY <1>2, <1>6, Returning DEF Invalidate, Fill, FillFalse
<1>7. ASSUME NEW q \in Requests, DeleteDomain(q) PROVE PendingIsLimited'
  <2>1. req[q].at = "delete" /\ UNCHANGED maker /\ (Return(q) \/ Goto(q, "invalidate"))
    BY <1>7 DEF DeleteDomain, At
  <2> QED
    BY <1>2, <2>1, Returning, Going DEF Sweep
<1>8. ASSUME NEW q \in Requests, Abort(q) PROVE PendingIsLimited'
  BY <1>2, <1>8, Aborting DEF Abort
<1>9. ASSUME NEW q \in Requests, NEW made \in Kinds, NEW o \in Rows(made), NEW v \in Users,
             AskObject(q, v, o), Fits(Cardinality(Made(v, made)), LimitOf(made))
      PROVE  PendingIsLimited'
  <2>1. UNCHANGED maker
    BY <1>9 DEF AskObject
  <2>2. Others(q) /\ req'[q].user = v /\ req'[q].object = o
    BY <1>9, RowsFinite, AskObjectAsks
  <2> SUFFICES ASSUME NEW u \in Users, NEW kind \in Kinds
               PROVE  Cardinality(Made(u, kind)') + Cardinality(Pending(u, kind)')
                        <= Allowed(kind) + Cardinality(Requests)
    BY DEF PendingIsLimited
  <2>3. Made(u, kind)' = Made(u, kind)
    BY <2>1 DEF Made, MadeBy
  <2>4. CASE u = v /\ kind = made
    <3>1. Cardinality(Made(u, kind)) <= Allowed(kind)
      BY <1>9, <2>4, Sizes, RowsFinite DEF Allowed, Fits
    <3> QED
      BY <2>3, <3>1, Sizes, SizesPrimed, RowsFinite
  <2>5. CASE ~ (u = v /\ kind = made)
    <3>1. u # v \/ o \notin Rows(kind)
      BY <1>9, <2>5 DEF Rows, Kinds
    <3>2. Pending(u, kind)' \subseteq Pending(u, kind)
      BY <2>2, <3>1 DEF Pending, Others
    <3>3. Cardinality(Pending(u, kind)') <= Cardinality(Pending(u, kind))
      BY <3>2, Sizes, FS_Subset
    <3>4. Cardinality(Made(u, kind)) + Cardinality(Pending(u, kind))
            <= Allowed(kind) + Cardinality(Requests)
      BY DEF PendingIsLimited
    <3> QED
      BY <2>3, <3>3, <3>4, Sizes, SizesPrimed, RowsFinite
  <2> QED
    BY <2>4, <2>5
<1>10. ASSUME NEW q \in Requests, InsertObject(q) PROVE PendingIsLimited'
  <2> DEFINE o == req[q].object
             v == req[q].user
  <2>1. Return(q) /\ req[q].at = "insert" /\ maker' \in {maker, [maker EXCEPT ![o] = v]}
    BY <1>10 DEF InsertObject, At
  <2>2. Others(q) /\ req'[q].at = "idle"
    BY <2>1, Returning
  <2>3. CASE maker' = maker
    BY <1>2, <2>2, <2>3
  <2>4. CASE maker' = [maker EXCEPT ![o] = v]
    <3> SUFFICES ASSUME NEW u \in Users, NEW kind \in Kinds
                 PROVE  Cardinality(Made(u, kind)') + Cardinality(Pending(u, kind)')
                          <= Allowed(kind) + Cardinality(Requests)
      BY DEF PendingIsLimited
    <3>1. Cardinality(Made(u, kind)) + Cardinality(Pending(u, kind))
            <= Allowed(kind) + Cardinality(Requests)
      BY DEF PendingIsLimited
    <3>2. o \in Objects /\ DOMAIN maker = Objects /\ Rows(kind) \subseteq Objects
      BY <1>0, <2>1, SoundAt, RowsFinite DEF Sound, RowsTyped
    <3>3. CASE u = v /\ o \in Rows(kind)
      <4>1. Made(u, kind)' \subseteq Made(u, kind) \cup {o}
        BY <2>4, <3>2 DEF Made, MadeBy
      <4>2. Cardinality(Made(u, kind) \cup {o}) <= Cardinality(Made(u, kind)) + 1
            /\ IsFiniteSet(Made(u, kind) \cup {o})
        <5>1. IsFiniteSet(Made(u, kind) \cup {o})
              /\ Cardinality(Made(u, kind) \cup {o}) \in
                   {Cardinality(Made(u, kind)), Cardinality(Made(u, kind)) + 1}
          BY Sizes, FS_AddElement
        <5> QED
          BY <5>1, Sizes
      <4>3. Cardinality(Made(u, kind)') <= Cardinality(Made(u, kind) \cup {o})
        BY <4>1, <4>2, FS_Subset
      <4>4. q \in Pending(u, kind) /\ Pending(u, kind)' \subseteq Pending(u, kind) \ {q}
        BY <2>1, <2>2, <3>3 DEF Pending, Others
      <4>5. Cardinality(Pending(u, kind) \ {q}) = Cardinality(Pending(u, kind)) - 1
            /\ IsFiniteSet(Pending(u, kind) \ {q})
        BY <4>4, Sizes, FS_RemoveElement
      <4>6. Cardinality(Pending(u, kind)') <= Cardinality(Pending(u, kind) \ {q})
        BY <4>4, <4>5, FS_Subset
      <4>7. Cardinality(Made(u, kind) \cup {o}) \in Nat
        BY <4>2, FS_CardinalityType
      <4> QED
        BY <3>1, <4>2, <4>3, <4>5, <4>6, <4>7, Sizes, SizesPrimed, RowsFinite
    <3>4. CASE ~ (u = v /\ o \in Rows(kind))
      <4>1. Made(u, kind)' \subseteq Made(u, kind) /\ Pending(u, kind)' \subseteq Pending(u, kind)
        BY <2>2, <2>4, <3>2, <3>4 DEF Made, MadeBy, Pending, Others
      <4>2. /\ Cardinality(Made(u, kind)') <= Cardinality(Made(u, kind))
            /\ Cardinality(Pending(u, kind)') <= Cardinality(Pending(u, kind))
        BY <4>1, Sizes, FS_Subset
      <4> QED
        BY <3>1, <4>2, Sizes, SizesPrimed, RowsFinite
    <3> QED
      BY <3>3, <3>4
  <2> QED
    BY <2>1, <2>3, <2>4
<1>11. ASSUME NEW q \in Requests, NEW u \in Users, NEW f \in Files, AskUpload(q, u, f)
       PROVE  PendingIsLimited'
  <2>1. AskObject(q, u, f) /\ Fits(Cardinality(Made(u, "upload")), LimitOf("upload"))
    BY <1>11 DEF AskUpload, WithinBytes, Made, Rows, LimitOf
  <2> QED
    BY <1>9, <2>1 DEF Rows, Kinds
<1>12. ASSUME NEW q \in Requests, NEW u \in Users, NEW s \in Shortens, AskShorten(q, u, s)
       PROVE  PendingIsLimited'
  <2>1. AskObject(q, u, s) /\ Fits(Cardinality(Made(u, "shorten")), LimitOf("shorten"))
    BY <1>12 DEF AskShorten, WithinQuota, Made, Rows, LimitOf
  <2> QED
    BY <1>9, <2>1 DEF Rows, Kinds
<1> QED
  BY <1>1, <1>3, <1>4, <1>5, <1>6, <1>7, <1>8, <1>10, <1>11, <1>12, QuietOrLoud DEF Loud

\* No user makes more in a week than the limit and what concurrent requests make.
THEOREM LimitsStayKept == Spec => []LimitsAreKept
<1>1. Init => PendingIsLimited
  <2> SUFFICES ASSUME Init, NEW u \in Users, NEW kind \in Kinds
               PROVE  Cardinality(Made(u, kind)) + Cardinality(Pending(u, kind))
                        <= Allowed(kind) + Cardinality(Requests)
    BY DEF PendingIsLimited
  <2>1. maker = [o \in Objects |-> None] /\ \A q \in Requests : req[q].at = "idle"
    BY IdleIsSound DEF Init
  <2>2. Made(u, kind) = {} /\ Pending(u, kind) = {}
    BY <2>1, RowsFinite DEF Made, MadeBy, Pending
  <2> QED
    BY <2>2, Sizes, RowsFinite, FS_EmptySet
<1>2. PendingIsLimited => LimitsAreKept
  <2>1. ASSUME PendingIsLimited, NEW u \in Users, NEW kind \in Kinds
        PROVE  Cardinality(Made(u, kind)) <= Allowed(kind) + Cardinality(Requests)
    <3>1. Cardinality(Made(u, kind)) + Cardinality(Pending(u, kind))
            <= Allowed(kind) + Cardinality(Requests)
      BY <2>1 DEF PendingIsLimited
    <3> QED
      BY <3>1, Sizes, RowsFinite
  <2>2. ASSUME PendingIsLimited, NEW u \in Users
        PROVE  /\ Cardinality(Made(u, "shorten")) <= Allowed("shorten") + Cardinality(Requests)
               /\ Cardinality(Made(u, "upload")) <= Allowed("upload") + Cardinality(Requests)
    BY <2>1, <2>2 DEF Kinds
  <2> QED
    BY <2>2 DEF LimitsAreKept, AtMost, Made, Rows, LimitOf, Allowed
<1> QED
  BY <1>1, <1>2, TypeInit, TypeStep, PendingStep, PTL DEF Spec
=============================================================================
