------------------------------ MODULE Domains ------------------------------
(***************************************************************************)
(* The domains of an instance, and what lives on them: users, who choose   *)
(* one for their files and one for their shortens, files and shortens,     *)
(* owners, and the cached ids that requests for a host are resolved with.  *)
(* Administrators add and remove domains while users upload, shorten and   *)
(* change their profile; each action is what one request does between two  *)
(* awaits.                                                                 *)
(***************************************************************************)
EXTENDS Naturals, FiniteSets

CONSTANTS
    Ids,        \* domain ids; the serial gives each once
    Base,       \* domain 0
    Names, BaseName,
    HostNames,  \* the names that solve_domain gives for a host or a domain
    Users,
    Stranger,   \* an owner_id that no user has
    Files, Shortens,
    Quota,      \* limits.shlimit
    ByteLimit,  \* limits.blimit, counted in files of one size
    Requests,   \* handlers under way at once
    MaxAsked,   \* bound: requests ever made
    MaxAborts   \* bound: requests that die half way

None == "none"
Objects == Files \cup Shortens

ASSUME DomainsAssumption ==
    /\ Base \in Ids /\ None \notin Ids /\ BaseName \in Names
    /\ None \notin Names /\ "removed" \notin Names
    /\ None \notin Objects /\ Files \cap Shortens = {}
    /\ None \notin DOMAIN HostNames /\ None \notin Users /\ Stranger \notin Users \cup {None}
    /\ \A host \in DOMAIN HostNames : HostNames[host] \subseteq Names
    /\ \A n \in Names : n \in DOMAIN HostNames /\ n \in HostNames[n]
    /\ IsFiniteSet(Shortens) /\ IsFiniteSet(Requests)
    /\ IsFiniteSet(Files) /\ Quota \in Nat /\ ByteLimit \in Nat
    /\ MaxAsked \in Nat /\ MaxAborts \in Nat

VARIABLES
    name,     \* the rows of domains: each id's name
    owner,    \* the rows of domain_owners
    home,     \* users.domain
    shome,    \* users.shorten_domain
    place,    \* files.domain and shortens.domain
    maker,    \* files.uploader and shortens.uploader
    cache,    \* Redis: the id under domain_id:{name}; None if there is none or
              \*   "false", which a lookup passes over as well
    req,      \* what each request awaits, and its locals
    asked, aborts,
    newcomers,  \* history: domains that something came to during their removal
    twins,      \* history: names given to a domain while another had or was given it
    lost        \* history: names whose cached id nobody will correct

tables == <<name, owner, home, shome, place, maker>>
history == <<newcomers, twins, lost>>
vars == <<tables, cache, req, asked, aborts, history>>

Sweep == {"files", "shortens", "users", "shorten_users", "owners", "delete"}
Steps == Sweep \cup {"idle", "select", "owner", "invalidate", "set_domain",
                     "domain", "insert", "fill", "fill_false"}
Locals == [at : Steps, id : Ids \cup {None}, new : Ids \cup {None},
           name : Names \cup {None}, user : Users \cup {None, Stranger},
           object : Objects \cup {None}, host : DOMAIN HostNames \cup {None}]
Idle == [at |-> "idle", id |-> None, new |-> None, name |-> None,
         user |-> None, object |-> None, host |-> None]

TypeOK ==
    /\ name \in [Ids -> Names \cup {None, "removed"}]
    /\ owner \in [Ids -> Users \cup {None}]
    /\ home \in [Users -> Ids] /\ shome \in [Users -> Ids \cup {None}]
    /\ place \in [Objects -> Ids \cup {None}] /\ maker \in [Objects -> Users \cup {None}]
    /\ cache \in [Names -> Ids \cup {None}]
    /\ req \in [Requests -> Locals]
    /\ asked \in 0 .. MaxAsked /\ aborts \in 0 .. MaxAborts
    /\ newcomers \subseteq Ids /\ twins \subseteq Names /\ lost \subseteq Names

Init ==
    /\ name \in [Ids -> Names \cup {None}] /\ name[Base] = BaseName
    /\ \A d, e \in Ids : d # e /\ name[d] = name[e] => name[d] = None
    /\ owner = [d \in Ids |-> None]
    /\ home = [u \in Users |-> Base] /\ shome = [u \in Users |-> None]
    /\ place = [o \in Objects |-> None] /\ maker = [o \in Objects |-> None]
    /\ cache = [n \in Names |-> None]
    /\ req = [q \in Requests |-> Idle]
    /\ asked = 0 /\ aborts = 0
    /\ newcomers = {} /\ twins = {} /\ lost = {}

-----------------------------------------------------------------------------
At(q, step) == req[q].at = step
InTable(d) == d \in Ids /\ name[d] \in Names
NamedAs(n) == {d \in Ids : name[d] = n}

Ask(q, locals) ==
    /\ At(q, "idle") /\ asked < MaxAsked
    /\ asked' = asked + 1
    /\ req' = [req EXCEPT ![q] = locals]
    /\ UNCHANGED aborts

\* An operation that is one statement.
Order ==
    /\ asked < MaxAsked
    /\ asked' = asked + 1
    /\ UNCHANGED <<req, aborts>>

Become(q, locals) == req' = [req EXCEPT ![q] = locals] /\ UNCHANGED <<asked, aborts>>
Goto(q, step) == Become(q, [req[q] EXCEPT !.at = step])
Return(q) == Become(q, Idle)

RemovingAt(d, steps) == \E q \in Requests : req[q].at \in steps /\ req[q].id = d

\* Where a removal is that is done with the table.
PastOwners == {"delete"}
PastShortenUsers == {"owners"} \cup PastOwners
PastUsers == {"shorten_users"} \cup PastShortenUsers
PastShortens == {"users"} \cup PastUsers
PastFiles == {"shortens"} \cup PastShortens

\* A row refers to domain d from now on, which a removal may not see any more.
Arrive(d, past) ==
    newcomers' = IF RemovingAt(d, past) THEN newcomers \cup {d} ELSE newcomers

PastObject(o) == IF o \in Files THEN PastFiles ELSE PastShortens

-----------------------------------------------------------------------------
(* add_domain, add_owner, patch_domain *)

\* Nothing keeps two domains from having one name.
AddDomain(q, d, n, u) ==
    /\ name[d] = None
    /\ Ask(q, [Idle EXCEPT !.at = "select", !.new = d, !.name = n, !.user = u])
    /\ name' = [name EXCEPT ![d] = n]
    /\ twins' = IF NamedAs(n) # {} \/ \E o \in Requests : At(o, "select") /\ req[o].name = n
                THEN twins \cup {n} ELSE twins
    /\ UNCHANGED <<owner, home, shome, place, maker, cache, newcomers, lost>>

\* Mutant: the new row is taken to be any that nobody owns yet.
SelectUnowned(q) ==
    /\ At(q, "select")
    /\ \E d \in {i \in Ids : InTable(i) /\ owner[i] = None} \cup {None} :
         Become(q, [req[q] EXCEPT !.id = d,
                                  !.at = IF req[q].user = None THEN "invalidate" ELSE "owner"])
    /\ UNCHANGED <<tables, cache, history>>

\* The id is asked for by the name.
SelectId(q) ==
    LET found == NamedAs(req[q].name) IN
    /\ At(q, "select")
    /\ \E d \in IF found = {} THEN {None} ELSE found :
         Become(q, [req[q] EXCEPT !.id = d,
                                  !.at = IF req[q].user = None THEN "invalidate" ELSE "owner"])
    /\ UNCHANGED <<tables, cache, history>>

\* Mutant: domain_owners.user_id refers to nothing.
CanOwnUnchecked(d, u) == InTable(d) /\ owner[d] = None /\ u # None

\* The INSERT is refused for an unknown user or domain, or if there is an owner.
CanOwn(d, u) == InTable(d) /\ owner[d] = None /\ u \in Users

InsertOwner(q) ==
    LET d == req[q].id
        u == req[q].user IN
    /\ At(q, "owner")
    /\ IF CanOwn(d, u)
       THEN /\ owner' = [owner EXCEPT ![d] = u]
            /\ Arrive(d, PastOwners)
            /\ Goto(q, "invalidate")
       ELSE /\ UNCHANGED <<owner, newcomers>>
            /\ Return(q)
    /\ UNCHANGED <<name, home, shome, place, maker, cache, twins, lost>>

\* Mutant: the keys that are deleted lack their prefix.
InvalidateNothing(q) ==
    /\ At(q, "invalidate")
    /\ Return(q)
    /\ UNCHANGED <<tables, cache, history>>

Forget(names) ==
    /\ cache' = [n \in Names |-> IF n \in names THEN None ELSE cache[n]]
    /\ lost' = lost \ names

\* The keys of every name the domain may be found by, its own among them.
Invalidate(q) ==
    /\ At(q, "invalidate")
    /\ Forget(HostNames[req[q].name])
    /\ Return(q)
    /\ UNCHANGED <<tables, newcomers, twins>>

AddOwner(d, u) ==
    /\ CanOwn(d, u)
    /\ Order
    /\ owner' = [owner EXCEPT ![d] = u]
    /\ Arrive(d, PastOwners)
    /\ UNCHANGED <<name, home, shome, place, maker, cache, twins, lost>>

\* patch_domain changes an owner that is there.
PatchOwner(d, u) ==
    /\ owner[d] # None
    /\ Order
    /\ owner' = [owner EXCEPT ![d] = u]
    /\ UNCHANGED <<name, home, shome, place, maker, cache, history>>

-----------------------------------------------------------------------------
(* remove_domain: four UPDATEs and two DELETEs *)

AskRemoval(q, d) ==
    /\ InTable(d)
    /\ Ask(q, [Idle EXCEPT !.at = "files", !.id = d, !.name = name[d]])
    /\ newcomers' = IF RemovingAt(d, Sweep) THEN newcomers ELSE newcomers \ {d}
    /\ UNCHANGED <<tables, cache, twins, lost>>

\* What refers to d is moved to domain 0, if that is there.
Moved(table, rows, d) ==
    [r \in DOMAIN table |-> IF r \in rows /\ table[r] = d THEN Base ELSE table[r]]

Refuses(table, rows, d) == ~ InTable(Base) /\ \E r \in rows : table[r] = d

MoveObjects(q, step, rows, next) ==
    LET d == req[q].id IN
    /\ At(q, step)
    /\ IF Refuses(place, rows, d)
       THEN UNCHANGED place /\ Return(q)
       ELSE place' = Moved(place, rows, d) /\ Goto(q, next)
    /\ UNCHANGED <<name, owner, home, shome, maker, cache, history>>

MoveFiles(q) == MoveObjects(q, "files", Files, "shortens")

\* Mutant: the statement for the shortens names the files again.
MoveFilesAgain(q) == MoveObjects(q, "shortens", Files, "users")

MoveShortens(q) == MoveObjects(q, "shortens", Shortens, "users")

MoveUsers(q) ==
    LET d == req[q].id IN
    /\ At(q, "users")
    /\ IF Refuses(home, Users, d)
       THEN UNCHANGED home /\ Return(q)
       ELSE home' = Moved(home, Users, d) /\ Goto(q, "shorten_users")
    /\ UNCHANGED <<name, owner, shome, place, maker, cache, history>>

MoveShortenUsers(q) ==
    LET d == req[q].id IN
    /\ At(q, "shorten_users")
    /\ IF Refuses(shome, Users, d)
       THEN UNCHANGED shome /\ Return(q)
       ELSE shome' = Moved(shome, Users, d) /\ Goto(q, "owners")
    /\ UNCHANGED <<name, owner, home, place, maker, cache, history>>

\* Mutant: the owner is left to the foreign key of the domain.
KeepOwner(q) ==
    /\ At(q, "owners")
    /\ Goto(q, "delete")
    /\ UNCHANGED <<tables, cache, history>>

DeleteOwner(q) ==
    /\ At(q, "owners")
    /\ owner' = [owner EXCEPT ![req[q].id] = None]
    /\ Goto(q, "delete")
    /\ UNCHANGED <<name, home, shome, place, maker, cache, history>>

Referenced(d) ==
    \/ owner[d] # None
    \/ \E u \in Users : home[u] = d \/ shome[u] = d
    \/ \E o \in Objects : place[o] = d

\* Refused while something refers to the domain; it stays, without its owner.
DeleteDomain(q) ==
    LET d == req[q].id IN
    /\ At(q, "delete")
    /\ IF Referenced(d)
       THEN UNCHANGED name /\ Return(q)
       ELSE name' = [name EXCEPT ![d] = "removed"] /\ Goto(q, "invalidate")
    /\ UNCHANGED <<owner, home, shome, place, maker, cache, history>>

-----------------------------------------------------------------------------
(* change_profile *)

\* check_domain_id, and whether it is for administrators only
AskDomain(q, u, d) ==
    /\ InTable(d) /\ d # home[u]
    /\ Ask(q, [Idle EXCEPT !.at = "set_domain", !.id = d, !.user = u])
    /\ UNCHANGED <<tables, cache, history>>

SetDomain(q) ==
    LET d == req[q].id IN
    /\ At(q, "set_domain")
    /\ IF InTable(d)
       THEN home' = [home EXCEPT ![req[q].user] = d] /\ Arrive(d, PastUsers)
       ELSE UNCHANGED <<home, newcomers>>
    /\ Return(q)
    /\ UNCHANGED <<name, owner, shome, place, maker, cache, twins, lost>>

\* The domain for shortens is not looked at before.
SetShortenDomain(u, d) ==
    /\ d = None \/ InTable(d)
    /\ d # shome[u]
    /\ Order
    /\ shome' = [shome EXCEPT ![u] = d]
    /\ Arrive(d, PastShortenUsers)
    /\ UNCHANGED <<name, owner, home, place, maker, cache, twins, lost>>

-----------------------------------------------------------------------------
(* uploads, shortens, and administrators moving either *)

MadeBy(u, objects) == {o \in objects : maker[o] = u}

\* What was made this week is summed up; the first passes whatever the limit.
Fits(used, limit) == used = 0 \/ used + 1 <= limit

\* Mutant: the quota is compared with what was used before, not with this one.
WithinUsed(u) == Cardinality(MadeBy(u, Shortens)) <= Quota

WithinQuota(u) == Fits(Cardinality(MadeBy(u, Shortens)), Quota)

\* check_limits
WithinBytes(u) == Fits(Cardinality(MadeBy(u, Files)), ByteLimit)

\* gen_shortname finds a name that is free.
AskObject(q, u, o) ==
    /\ place[o] = None
    /\ Ask(q, [Idle EXCEPT !.at = "domain", !.user = u, !.object = o])
    /\ UNCHANGED <<tables, cache, history>>

AskUpload(q, u, f) == WithinBytes(u) /\ AskObject(q, u, f)
AskShorten(q, u, s) == WithinQuota(u) /\ AskObject(q, u, s)

\* get_domain_info
ReadDomain(q) ==
    LET u == req[q].user
        own == IF req[q].object \in Shortens /\ shome[u] # None THEN shome[u] ELSE home[u] IN
    /\ At(q, "domain")
    /\ Become(q, [req[q] EXCEPT !.id = own, !.at = "insert"])
    /\ UNCHANGED <<tables, cache, history>>

\* Refused if the name was taken or the domain removed meanwhile.
InsertObject(q) ==
    LET o == req[q].object
        d == req[q].id IN
    /\ At(q, "insert")
    /\ IF InTable(d) /\ place[o] = None
       THEN /\ place' = [place EXCEPT ![o] = d]
            /\ maker' = [maker EXCEPT ![o] = req[q].user]
            /\ Arrive(d, PastObject(o))
       ELSE UNCHANGED <<place, maker, newcomers>>
    /\ Return(q)
    /\ UNCHANGED <<name, owner, home, shome, cache, twins, lost>>

\* handle_modify
ModifyObject(o, d) ==
    /\ place[o] \notin {None, d} /\ InTable(d)
    /\ Order
    /\ place' = [place EXCEPT ![o] = d]
    /\ Arrive(d, PastObject(o))
    /\ UNCHANGED <<name, owner, home, shome, maker, cache, twins, lost>>

-----------------------------------------------------------------------------
(* get_domain_id *)

\* No key of the host holds an id: any row of one of its names is the answer.
AskHost(q, host) ==
    LET found == {d \in Ids : name[d] \in HostNames[host]} IN
    /\ \A n \in HostNames[host] : cache[n] = None
    /\ \/ \E d \in found :
            Ask(q, [Idle EXCEPT !.at = "fill", !.id = d, !.name = name[d]])
       \/ found = {} /\ Ask(q, [Idle EXCEPT !.at = "fill_false", !.host = host])
    /\ UNCHANGED <<tables, cache, history>>

\* The id is SET for good, even if its row went away since it was read.
Fill(q) ==
    LET n == req[q].name
        d == req[q].id IN
    /\ At(q, "fill")
    /\ cache' = [cache EXCEPT ![n] = d]
    /\ lost' = IF name[d] = n THEN lost \ {n} ELSE lost \cup {n}
    /\ Return(q)
    /\ UNCHANGED <<tables, newcomers, twins>>

\* With no row, "false" is SET, over an id that another lookup has found since.
FillFalse(q) ==
    /\ At(q, "fill_false")
    /\ Forget(HostNames[req[q].host])
    /\ Return(q)
    /\ UNCHANGED <<tables, newcomers, twins>>

-----------------------------------------------------------------------------
Abort(q) ==
    /\ ~ At(q, "idle") /\ aborts < MaxAborts
    /\ aborts' = aborts + 1
    /\ lost' = IF At(q, "invalidate") THEN lost \cup {req[q].name} ELSE lost
    /\ req' = [req EXCEPT ![q] = Idle]
    /\ UNCHANGED <<tables, cache, asked, newcomers, twins>>

Single ==
    \/ \E d \in Ids, u \in Users : AddOwner(d, u) \/ PatchOwner(d, u)
    \/ \E d \in Ids \cup {None}, u \in Users : SetShortenDomain(u, d)
    \/ \E d \in Ids, o \in Objects : ModifyObject(o, d)

Asking(q) ==
    \/ \E d \in Ids, n \in Names, u \in Users \cup {None, Stranger} : AddDomain(q, d, n, u)
    \/ \E d \in Ids : AskRemoval(q, d)
    \/ \E d \in Ids, u \in Users : AskDomain(q, u, d)
    \/ \E f \in Files, u \in Users : AskUpload(q, u, f)
    \/ \E s \in Shortens, u \in Users : AskShorten(q, u, s)
    \/ \E host \in DOMAIN HostNames : AskHost(q, host)

Running(q) ==
    \/ SelectId(q) \/ InsertOwner(q) \/ Invalidate(q)
    \/ MoveFiles(q) \/ MoveShortens(q) \/ MoveUsers(q) \/ MoveShortenUsers(q)
    \/ DeleteOwner(q) \/ DeleteDomain(q)
    \/ SetDomain(q) \/ ReadDomain(q) \/ InsertObject(q)
    \/ Fill(q) \/ FillFalse(q)

Next ==
    \/ Single
    \/ \E q \in Requests : Asking(q) \/ Running(q) \/ Abort(q)

\* The event loop runs what it may run, and the database answers.
Spec == Init /\ [][Next]_vars /\ \A q \in Requests : WF_vars(Running(q))

-----------------------------------------------------------------------------
NoneIn(table, rows, d) == \A r \in rows : table[r] # d

\* A removal finds the tables it is done with (admin/domain.py:212-246) empty of
\* its domain to the end, and the DELETE is not refused for a row it overlooked:
\* only for one that came after it, or because domain 0 is moved to itself.
SweptStaysEmpty ==
    \A q \in Requests :
      LET d == req[q].id
          at == req[q].at
      IN at \in Sweep /\ d \notin newcomers \cup {Base} =>
           /\ at \in PastFiles => NoneIn(place, Files, d)
           /\ at \in PastShortens => NoneIn(place, Shortens, d)
           /\ at \in PastUsers => NoneIn(home, Users, d)
           /\ at \in PastShortenUsers => NoneIn(shome, Users, d)
           /\ at \in PastOwners => owner[d] = None

\* A host is not resolved to a domain that is gone (storage.py:495), but between
\* the removal and its invalidation; or for good, if a lookup that had read the
\* row before filled the key after, or the removal died in between.
CachedIdsExist ==
    \A n \in Names :
      cache[n] # None /\ name[cache[n]] # n
        => n \in lost \/ \E q \in Requests : At(q, "invalidate") /\ req[q].name = n

AtMost(limit) == (IF limit = 0 THEN 0 ELSE limit - 1) + Cardinality(Requests)

\* A user never makes more in a week than the limits say, give or take what is
\* made by requests that counted before the others inserted, and the first, which
\* a limit of zero does not stop (shorten.py:70-97, upload/context.py:113).
LimitsAreKept ==
    \A u \in Users :
      /\ Cardinality(MadeBy(u, Shortens)) <= AtMost(Quota)
      /\ Cardinality(MadeBy(u, Files)) <= AtMost(ByteLimit)

\* The owner named in add_domain is given the domain it has added, and not another,
\* unless two domains have the name (admin/domain.py:59).
OwnersGetTheNewDomain ==
    \A q \in Requests :
      At(q, "owner") => req[q].id \in {req[q].new, None} \/ req[q].name \in twins

\* A removal gets through, unless something came to the domain meanwhile, the
\* request died, or there is no domain 0 to move things to, or that is removed.
RemovalSucceeds ==
    \A d \in Ids \ {Base} :
      RemovingAt(d, {"files"})
        ~> name[d] = "removed" \/ d \in newcomers \/ aborts > 0 \/ ~ InTable(Base)
=============================================================================
