# Verification of Elixire

TLA+ models of [Elixire](../src/README.md), an image host written in Python
(Quart on asyncio, Postgres, Redis, blobs on a local disk). This directory
holds the models, the TLC runs that check them on small instances and the
theorems TLAPS proves about them for every instance.

Everything in Elixire's server runs on one event loop: between two `await`s a
request has the process to itself, and at every `await` any other request,
background task or timer may run. Postgres, Redis, the disk and the mail
service are each a call away, and no transaction spans two calls. So an action
of these models is what one request does between two awaits, and the state that
matters is the rows, the cached strings, the blobs and the place each request
has reached. Two adjacent awaits are one action only where nothing that could
run between them can tell (the comments say so).

## 1. The system

| Component | State | Operations | What makes it correct |
|---|---|---|---|
| Storage cache `api/storage.py` | strings and times to live in Redis, beside the rows of Postgres | `get_*` (read through), `raw_invalidate` by every writer | a cached answer is the row's, or is bound to go away |
| Files and blobs `api/bp/upload/`, `api/bp/files.py`, `api/common/common.py`, `manage/cmd/files.py` | rows of `files`; blobs named by the hash of their content, shared by rows | upload, delete, rename, delete all, account deletion, virus scan, `manage.py` delete, undelete, nuke, cleanup | a live row has its blob; a blob without a live row goes away |
| Data dumps `api/bp/datadump/` | `dump_queue`, `current_dump_state`, a zip file per user, the worker job | request, worker, resume, mail, janitor | every request ends in one mail with a complete archive |
| Bans and ratelimits `api/ratelimit.py`, `api/bp/ratelimit.py`, `api/common/banning.py` | a bucket per user or address, dropped when it was not used for a while; `bans`, `ip_bans`; a lock per subject | take a token, be refused, be banned | the rate is bounded, dropping buckets changes no answer, a burst leads to one ban |
| Authentication `api/common/auth.py`, `api/bp/auth.py` | none of its own (signed tokens; the key is the cached password hash) | log in, check a token, revoke | the password in force is the one last chosen |
| Accounts `api/bp/profile.py`, `api/bp/register.py`, `api/bp/admin/user.py`, `manage/cmd/user.py` | `users`, `limits`, what refers to a user | register, activate, change, deactivate, delete | a deletion that was begun completes, or is given up for a known cause; nobody else is deleted |
| Mailed tokens `api/common/email.py` | one table per kind | make, use, clean | a token works once, and there are few of them |
| Job manager `api/jobs.py` | the tasks by name | spawn, stop, exists | at most one task per name, and a name that is taken has a task |
| Audit log `api/bp/admin/audit_log.py` | the actions not mailed, the sender task | push, send | every action is mailed once |
| Domains `api/bp/admin/domain.py`, `api/storage.py` | `domains`, `domain_owners`, cached ids, the domain of every user, file and shorten | add, own, remove, choose, resolve | a removal overlooks nothing and gets through; no host resolves to a domain that is gone |
| Shortens `api/bp/shorten.py` | rows of `shortens` | create, serve, delete | as files, without blobs; the weekly limit |
| Snowflakes `api/snowflake.py` | a counter | next id | ids are unique and ordered by time |
| Metrics `api/bp/metrics/` | a queue of points, series in InfluxDB | submit, flush, compact | points are sent once and sums preserved |
| Serving, thumbnails, webhooks, listings, validation, pages, migrations, start and stop | none, or a cache on disk | read, render | |

How they meet: every handler goes through the ratelimiter and the token check,
which read the storage cache; uploads, deletions, profiles and admins change
rows and invalidate keys of that cache; accounts and `delete_all` delete files
in a job of the job manager; the dump worker is a job too, reads the files and
mails a token.

The hard behaviours are all of one kind: a decision is taken on state read
before an await (a row that is about to be cached, a count of rows that share a
blob, a queue that was empty) and acted on after it; and a request can die
between two awaits (its client leaves, a service fails, the server is killed),
leaving half its steps done. `PROJECT.json` lists each at its line under
"hazards".

## 2. The plan

The order in which the parts were taken, most depended upon first:

1. **StorageCache**: every other part reads through it.
2. **FileStore**: the rows and the blobs, with all who delete them.
3. **DataDump**: the only persistent queue and the only crash recovery.
4. **AuditLog**: the sender restarted by every push.
5. **RateLimit**, with the bans it ends in, as an implementation of the abstract
   **WindowLimit**: the limiter without its cache.
6. **Accounts**, composed with **MailedTokens** (the tables of tokens) and
   **JobManager** (who runs what, per process), both by INSTANCE.
7. **Domains**, with the objects on them, their limits and the cached ids.
8. What three of them promise, without how they keep it: **DumpService** for
   DataDump, **Bulletin** for AuditLog, **AccountLife** for Accounts. Each is
   shown to be implemented by its component, as WindowLimit is by RateLimit.

What a next step would take, and why it is not here, is in section 7. Two
abstract specifications are worth stating still: a cache that may only return
the current value of a row or, until its time to live, an earlier one
(implemented by StorageCache when no request dies), and a catalogue in which a
live file is downloadable (implemented by FileStore without the operations that
expose). `StaleHasACause` and `LiveHasBlob` say as much with the exceptions
named, which the code needs, and `RestIsCoherent` and `RestIsConsistent`
(section 6) what is left of them when nothing is under way.

## 3. The modules

Each component has a module `X.tla`, a module `MCX.tla` that gives its constants
their values for TLC, and a module `XProofs.tla` of theorems. `PROJECT.json`
maps every definition to the lines it stands for. Operators whose comment
begins with "Mutant:" are plausible bugs, used to see that each property fails
when the code is wrong; they are not part of the specification.

### StorageCache

`db` is what the query of a lookup would find (a row, or `None`), `cache` and
`ttl` are Redis, `pc`, `rkey`, `rval` are the lookups under way, `wpc`, `wkey`
the writers. A lookup is `LookupMiss` (GET finds nothing), `Query`, `SetKey`,
and `Expire` for the keys that get a time to live: always in `_generic_1` and
`actx_userid`, only when there is a ban in `get_ban` and `get_ipban`
(`NeedsTTL`). Writers come in the two orders of the code:
`WriteThenInvalidate` and `Invalidate` (bans, passwords, activation, names, files
deleted and renamed), `InvalidateThenWrite` and `WriteRow` (uploads, shortens).
Some statements delete no key of the row they change: the job's `DELETE FROM
users` (`profile.py:420`), the hiding of a user's shortens (`profile.py:481`),
the moves of `remove_domain` (`admin/domain.py:226`), and the rename of a
shorten, which deletes `fspath:` keys instead of `redir:` ones
(`admin/object.py:106`). They are `WriteLeavingKey`, for the keys of `LeftKeys`;
no ban is among them. `Evict` is Redis's clock, `BanEnds` the moment `end_timestamp > now()` stops holding.
`ReaderAborts` and `WriterAborts` let a request die at any await.

`orphaned` and `excused` are history variables: the keys whose EXPIRE died with
its request, and the keys whose stale entry has one of the causes the model
knows (a fill the write overtook, a writer that died before its DEL, a ban that
ran out, a statement that deletes no key). No action reads them to decide anything.

### FileStore

`row` is the table (a file's row is `absent`, `live`, `deleted`, `purged`: given
to the dummy user with an empty path, or `blank`: such a row that is live again),
`disk` the blobs, `scans` the
background scans still running. A request has a place `pc`, a `file`, whether it
deletes `hard` (`set_delete=False`) and the blobs it is bound to unlink
(`todo`), and is in `strayed` when its file was renamed (`Rename`), after which
its statements find no row (`Found`). Uploads go through `BeginUpload`, `CheckRepeat`, `InsertRow`, `Save`,
`StripExif`; deletions through `MarkDeleted`, `CountShared`, `Unlink`, `Purge`;
`MarkAccount` is the UPDATE of `delete_user`, `AdminDelete` the deletion by an
administrator; `ScanCondemns`, `ScanSelect`,
`ScanRemove` are the end of a scan; `BeginManage` with `ManageDelete` or
`ManageUndelete`, `BeginCleanup`, `CleanupOne` the commands of `manage.py`: the
uploader is looked up in one statement and the row updated in another, so that
what is undeleted may have been purged in between.

`exposed` and `leaky` are history variables. A live file is exposed when the
code gives its blob away: its row went live between another request's count and
unlink, a scan or `cleanup_files` took the blob without asking, it was undeleted
too late (the blob gone, or the path with it), its upload died before the write. A blob is leaky when nobody will
come back for it.

### DataDump and DumpService

`queue` and `order` are `dump_queue` and `current_dump_state` by their
timestamps, `current` and `total` the columns of the latter; file ids of a user
are 1, 2, ... in the order of upload. `wpc` is the await the worker stands at,
`"none"` when no job is registered; `wuser`, `wid`, `wname`, `wzip` are its locals and
`after` the place in `dump_worker` it returns to, which differs between
`resume_dump` and `do_dump`. `CleanArchive` is the janitor, which deletes an
archive that was not written for six hours: one whose mail was refused, or whose
dump an error or a crash ended. An archive's path has the user's name in it, so
a dump that is resumed after `ChangeName` opens another (`ZipFound`). `archive`
is what the central directory of each zip file on disk lists: Python's `zipfile` writes it on `close()` only, and opening
with "a" a file that has none begins a new archive after the old bytes.
`Dispatch` lets the mail service refuse the users of `BadMailbox`. Whatever else
raises is `DumpFails` inside the `try` of `do_dump` and `resume_dump` (a user
without a row in `limits`, the disk, Postgres: the archive is closed, or that
fails too, the row stays, the worker goes on) and `WorkerFails` outside it (the
worker ends). `Crash`, these two and the changes of name are bounded together by
`MaxMishaps`.
`MIN(file_id)`/`COUNT(*)` and the INSERT that follows are one action, as are the
UPDATE of a row and the SELECT of the next file: an upload between the two
cannot be told from one just after them. `written`, `unfinished` and
`interrupted` are history variables.

DumpService has no tables, archives or worker: users wait in the order they
asked (`asked`), a dump that was begun gets its files in order (`got`), is mailed
when it has all there were when it began (`wanted`), and is over after that. The
refinement maps the queue to `asked`, with the user between the DELETE and the
INSERT of `do_dump` in front of it (`Waiting`), the rows of
`current_dump_state` to `begun`, and a user who is mailed and still has the row
to `sent` (`Mailed`). So a refused mail is no step of the service, a resumed dump
takes again what it has, and a crash or an error is a `Fail`, which takes nothing
from any dump, may have a mailed one mailed again, and costs one request at most,
the one that had just been taken.

### AuditLog and Bulletin

`actions` is the list in memory, `spc` the await the sender stands at, `batch`,
`text` and `todo` its locals: the actions it took and has not rendered, those it
has, and the admins it has still to mail. Actions are numbered as they are
pushed. `Push` is the end of any admin's `async with` whose body raised nothing:
it cancels the sender wherever it is (asyncio raises `CancelledError` at that
await) and starts another. `Wake` is the end of the minute's sleep, `Render` the
text of one action, which may turn out to be none; `FetchAdmins` and `Mail` are
`send_email`, in whatever order Postgres returns the admins. `SenderFails` is an
exception that `_sender` logs, `Stop` the end of the server. `mailed`, `void` and
`lost` are history variables.

Bulletin has no list and no task: posts are numbered, readers are sent posts in
turn, and a post may be closed, after which nobody is sent it. The refinement
maps `mailed` to what was sent, and what was none or was lost to the closed
posts (`List`). A batch mailed to one admin is one `Send`; that it passes over no
open post, and contains no closed one, is what `Wake` and `Push` must see to.

### RateLimit and WindowLimit

`cache` holds a `Bucket` for each subject the manager of a rule knows; a subject
is a user, or the address of a request without an accepted token. `Limit` is
`get_bucket` and `_check_bucket`, between which nothing else runs: the dead
buckets are dropped (`DeadKeys`), the subject's is found or copied from the rule
(`Bucketed`), updated (`Updated`), and the answer is `Verdict`. `Raise` is the
handler of the exception, up to the lock of `on_ban`; `InsertBan`, `Webhook` and
`BanFails` are `ban_someone` under it; `BanEnds` the end of a ban, `Tick` the
clock. `AsUser` and `AsAddress` are what a request is limited as. The rest are
histories that the properties speak of, and no action reads them.

WindowLimit has no cache: every subject has a window which closes by itself. The
refinement maps a bucket to a window while it is not over, and a bucket that is
over, or was dropped, to a closed one (`WindowNow`). That is not obvious:
`_verify_cache` drops by the time a bucket was last used, while a window begins
earlier, and the count of retries goes with the bucket.

The code counts `retries` without bound; it only compares them with
`RL_THRESHOLD`, so the model counts to one more. One rule and one manager are
modelled: others share nothing but the bans. Answers to "is it banned?" come
from the cache of StorageCache, which may be behind, so a banned subject may
still be served here. `passes` keeps each subject's passes of the last Second as
pairs of the time and a number, so that two in one second are two. `FORCE_IP`
(`bp/ratelimit.py:21`) is never read by the code. A request at the very end of
the window is told to wait for 0 seconds, which `_check_bucket` takes for "not
limited": it passes, without a token (`Answer` of WindowLimit says so).

### Accounts, MailedTokens, JobManager and AccountLife

`status`, `limits`, `password`, `uploader`, `hidden`, `shortens`, `owners` are
the rows of a user and what refers to it; `mail` the tables of tokens; `jobs`
the names each job manager knows, with `task`, `deletes` and `todo` for what the
job is at; `req` what each handler or command awaits. `manage.py` is a process
of its own, with its own job manager, so that its jobs and the server's do not
see each other.

A deletion is `AskDelete` (or `Confirm` with a mailed token), `SelectActive`,
`MarkInactive`, `HideFiles`, `HideShortens`, `SpawnJob`, and in the job
`ListFiles`, `Purge` of each file in any order, and `DeleteRow`. `DeleteAll`
starts the same job, under the same name, without the end. Tokens are made by
`AskToken`, `CountTokens`, `InsertToken`, and used by `Confirm`, one of
`ActivateByToken`, `ResetPassword`, `SelectActive`, and `CleanToken`; `Expire`
changes only whether they are counted, as `uid_from_email` never looks at it. The
token of a dump is made by the worker and only read. `Rename` and `Undelete` are
what an administrator and `manage.py` do to files meanwhile: a purge names its
file by the shortname the job listed and by the uploader, so it finds none that
was renamed (`Finds`, `strayed`), and a file that was undeleted is shown again
whoever is being deleted. A password is compared with the row by
`password_check` (`Checks`) and with the cached hash, which may be a former one,
by `login_user` (`LogsIn`); StorageCache says how long the cache may be behind,
here it may be for any time. `Rehash` is a revocation, `ChangePassword` a change of profile, `ResetPass` the
command. `JobFails`, `Abort` and `Crash` end a job, a request, a process.

`doomed`, `excused`, `revived`, `late`, `shown`, `used`, `reused`, `shared`,
`chosen` and `raced` are histories, and `former` is what the cache may hold. A deletion is excused when its job's name was taken by a
job that only empties the account, a row still referred to the user at the end,
or something died.

AccountLife has no requests, jobs or processes: an account is registered once,
is active or not, and goes only by a deletion, which has marked it first and
stays pending until the account is gone, spared, or in use again. The refinement
maps a marked account that is inactive to `"doomed"`, or to `"spared"` once its
deletion is excused (`LifeOf`), and the users whose deletion a request or a job
of any process has in hand to `pending` (`Pending`). The death of one process is
one `GiveUp` of all the deletions it ran, of which another may still run some.

### Domains

`name`, `owner`, `home`, `shome`, `place`, `maker` are the columns that refer to
a domain or to who made an object; `cache` is `domain_id:{name}` in Redis, where
`None` stands for "false" as well, which a lookup passes over. `AddDomain`,
`SelectId`, `InsertOwner`, `Invalidate` are `add_domain`; `AskRemoval`,
`MoveFiles`, `MoveShortens`, `MoveUsers`, `MoveShortenUsers`, `DeleteOwner`,
`DeleteDomain`, `Invalidate` are `remove_domain`; `AskHost`, `Fill`, `FillFalse`
a lookup of a host. `AskUpload`, `AskShorten`, `ReadDomain`, `InsertObject` make
an object under the weekly limit; `AskDomain`, `SetDomain`, `SetShortenDomain`
choose a domain; `ModifyObject` moves an object. Foreign keys are guards: an
INSERT or a DELETE they refuse ends the request.

Sizes are one size and the byte limit counts files; the week does not pass.
The exemption of administrators from the limits is left out. `newcomers`,
`twins` and `lost` are histories: a domain something came to behind a removal's
sweep, a name given twice, a name whose cached id nobody will correct.

## 4. What the runs check

| Run | Bounds | Shows |
|---|---|---|
| `storage_cache` | 3 keys, one of each kind (password hash: always expires, written first; ban: expires only when there is one; file path: invalidated first), the first and the last also written without a DEL; 2 lookups, 1 writer, 2 writes, 1 death | `UnexpiringIsOwned`, `StaleHasACause`, `EventuallyCoherent` |
| `storage_ban_stale` | 1 lookup, 1 ban | `BannedIsRefused` fails |
| `file_store` | 3 uploads of one content, alice's, bob's and alice's again, the first condemned by a scan; 2 requests, 1 death | `LiveHasBlob`, `OrphanHasACause` |
| `data_dump` | 2 users (two files and refused mail; no file), 2 requests, at most 2 files each of which 1 is uploaded meanwhile, 2 user names, 1 crash, error or change of name | `UncutIsComplete`, `RowsAreAccounted`, `QueueMovesOn`; `DumpsAreServed` is the refinement of DumpService |
| `dump_resume_after_crash` | 1 user, 1 request, 1 crash | `DeliveredIsComplete` fails |
| `dump_lost_wakeup` | 2 users, 1 request, nothing fails | `StoppedIsEmpty` fails |
| `audit_log` | 2 admins, 5 actions, 2 failures or stops | `QueueIsAttended`, `AccountedFor`, `EventuallySettled`; `MailedInTurn` is the refinement of Bulletin |
| `audit_push_loses` | 2 admins, 2 actions, no failure | `AllAreMailed` fails |
| `ratelimit` | 2 requests at a time, 1 user and 1 address, 2 requests in 1 second, Threshold 1, the clock to 4 (from 2), 1 failed ban | `OneBanAtATime`, `RateIsBounded`, `BanIsForABurst`, `ToldIsTrue`, `BanLands`; `EvictionIsInvisible` is the refinement of WindowLimit |
| `accounts` | 1 user, 2 files, 3 tokens, TokenLimit 0, 2 passwords, 2 requests at a time of 4, 1 failure | `JobsAreKnown`, `DoomedAreDeleted`, `OnlyLateFilesRemain`, `DoomedAreHidden`, `TokensAreLimited`, `TokensWorkOnce`, `LastChoiceStands`, `DeletionEnds`; `AccountsLeadTheirLives` is the refinement of AccountLife |
| `accounts_expired_link` | as `accounts`, 3 requests, no failure | `ExpiredLinksAreDead` fails |
| `domains` | 2 domains, 2 names (one a wildcard of the other), 1 user, 3 files, 3 shortens, limits of 1, 2 requests at a time of 4, 1 failure | `SweptStaysEmpty`, `CachedIdsExist`, `LimitsAreKept`, `OwnersGetTheNewDomain`, `RemovalSucceeds` |

Why the bounds are enough. In the cache, keys interact only through the
requests that stand at them, so one key of each kind suffices; two lookups of
one key and a writer of it are what it takes for a fill to be overtaken and for
one SET to undo another's EXPIRE. Among the files everything happens per
content: three rows on one blob give a third party to every race of two
deletions or of a deletion and an upload, and two requests to run it; owners
matter only to the repeat check, hence alice twice. A dump interacts with
another only through the queue and the worker; two files per user distinguish
"the file of the row" from "the one after", and the second user has room to upload
one during a dump, to which its `total_files` does not count it. One mishap of any
kind, besides refused mails and the janitor at any time, meets a dump at every
step; what several in a row do is proved. Five actions let two batches of two
meet a push at every await of the sender, and two admins separate those it has mailed from those it has not.
The limiter treats subjects apart but for the bans, whose locks are per subject:
two subjects show a lock that is shared by mistake, and two requests of one
subject the race for one. Two requests a second are the smallest rule with a
token that is neither the first nor the last. Its clock has room for a window to
be spent, waited for at its end and after it, and dropped; only what happened
within two windows matters to what comes.

Users of one account model share nothing but the uniqueness of names, so one
suffices; two files separate "one deletion failed" from "all are done". Four
requests are what it takes to mail a token, use it twice and start another job,
or to mark a user while an upload, a revocation and an emptying are under way.
TokenLimit is 3 in the code and 0 here, so that two requests exceed it. A domain
beside domain 0 is the one that is added or removed; two names give a cached id
another key to be found under; three objects of a kind exceed a limit of one by
as much as two requests can.

Every invariant and refinement of the passing runs is also
proved for any bounds (section 6); so the bounds matter to liveness only.

Symmetry is used in `file_store` only, where the two requests are interchangeable
and nothing but invariants is checked; the other runs check liveness, or their
constants are told apart by definitions. Deadlock is checked in `ratelimit`, where requests
never end. CHECK_DEADLOCK is FALSE in the others: with the writes, deaths,
uploads or requests bounded, a system nobody uses any more really has nothing
left to do.

### What the runs found

* **A ban can be overlooked for good** (`storage_ban_stale`). A lookup queries
  `bans`, the ban is inserted and `userban:...` deleted, the lookup SETs
  "false", with no time to live.
* **A resumed dump is incomplete** (`dump_resume_after_crash`): see `archive`
  above.
* **A request can be left in the queue** (`dump_lost_wakeup`), when it arrives
  between the worker's last look at the queue and the end of its job.
* **An audited action can go unmailed** (`audit_push_loses`). A push while the
  sender renders or mails cancels it, and what it had taken from the list is lost.
* **An expired link still works** (`accounts_expired_link`). `uid_from_email`
  looks a token up by its hash alone, while the mails promise links that are
  invalid after 12 hours or 30 minutes (`profile.py:348`, `profile.py:549`).

Other things seen on the way. Some contradict a line of the repository too; they
have no run of their own because one sequential call shows them, or because a
checked property says more exactly what holds. The models have them all, and
the properties that would be broken name them as exceptions:

* A hard deletion of a live file keeps its blob: the row is counted by its own
  deletion (`common.py:249`), and then forgets its path. `manage.py nuke` is to
  "delete a file, including filesystem" (`manage/cmd/files.py:378`). The deletion
  of an account is not affected, because it marks the rows first; `delete_all` is.
* A new account is active at once (`create_user`'s `active=True`,
  `common/user.py:14`; `adduser` leaves the column to its default, `schema.sql:46`),
  while the signup mail says "You will not be
  able to login until the account is activated" (`register.py:34`) and `adduser
  --help` that "The newly created user will be deactivated by default"
  (`manage/cmd/user.py:108`). `Register` follows the code, and so does the life
  that AccountLife promises: none to active.
* The activation mail says "You only need to use this URL once. Other attempts at
  using the URL will give you an error" (`email.py:246`). A second attempt gives
  none while the first is between its work and its DELETE, or after it died there
  (`profile.py:513` for a deletion). `TokensWorkOnce` says that there is no other
  way to use a token twice.
* A crash between the DELETE from `dump_queue` and the INSERT into
  `current_dump_state` loses the request. `DumpsAreServed` bounds the loss: one
  request a crash, and only the one just taken.
* A user left in `current_dump_state` by a refused mail, whose later request is
  dequeued, ends the worker with a primary key violation.
* "Only one user can be in the dump state at a time" (`datadump/bp.py:38`). A
  refused mail or an error leaves a row while the worker goes on to the next user;
  `RowsAreAccounted` says which rows there can be.
* An archive that the janitor deleted between a refused mail and its retry, or
  whose user changed name in between, is mailed with the rest only. The download
  looks for the archive under the user's present name as well
  (`datadump/bp.py:204`).
* A user without a row in `limits` (`create_user` died half way) can never be
  dumped: `dump_user_limits` raises at every attempt (`tasks.py:108`), and the row
  stays at the head of `current_dump_state`.
* `manage.py undelete` of a file that is purged between its two statements makes a
  live row of the dummy user with an empty path, and one of a marked user's files
  shows it again until the job comes to it.
* A file renamed after a deletion job listed it is purged by nobody and keeps its
  user's row from being deleted; the UPDATE of no row raises nothing.
* The job that deletes a user deletes no key of the cache, so a deleted user's
  name and password hash are answered until they expire; likewise the statements
  of `LeftKeys` above.
* `activate_email_send` (`email.py:227`) inserts the token a second time; the key
  refuses it and the mail is never sent. The token works, for who reads the log.
* `delete_user` raises when a job of its name runs. If that job came from
  `delete_all`, the account is inactive for good, and a second attempt returns at
  once because it is (`profile.py:459`).
* A shorten, or a domain's owner, keeps a user's row from being deleted: the
  shortens are marked and never go away, so a user who has any is never dropped.
* A revocation stores the password it was given after hashing it in a thread
  (`bp/auth.py:63`) and can bring it back over a newer one. It also lets in whoever
  gives a former password that the cache still holds, and stores that.
* `remove_domain` deletes the owner before the row; when that is refused the
  domain stays, without an owner. Nothing keeps it from removing domain 0, after
  which no domain that something is on can be removed.
* A limit of zero lets one object through, because the limits are compared only
  when something was used already.
* The comment at `storage.py:461-464` relies on the name itself being looked up
  first; `solve_domain` gives the wildcard below the name first.

## 5. Fairness

Safety properties are checked and proved under no fairness at all. For the six
liveness properties:

* StorageCache: weak fairness of each lookup's and each writer's next step (the
  event loop runs a task whose await is done, and the services answer or fail)
  and of `Evict` (Redis expires keys). No fairness makes a request arrive, a
  writer write, or a ban end.
* DataDump: weak fairness of each request's next step and of the worker's. None
  on `CheckState`, `Upload`, `ChangeName`, the errors or `Crash`. `QueueMovesOn` promises a turn while a
  worker is running; `dump_lost_wakeup` shows why it cannot promise one without.
* AuditLog: weak fairness of the sender's next step: the minute passes, and the
  event loop runs it. None on `Push`, `SenderFails` or `Stop`. With pushes
  forever the list may never be mailed; their bound is what "once pushes stop"
  means in `EventuallySettled`.
* RateLimit: weak fairness of each request's next step, so that whoever holds a
  lock goes on. None on requests, the clock, or the end of a ban.
* Accounts: weak fairness of each request's and each job's next step: the event
  loop runs what can run and the database answers or fails. None on what users
  and administrators ask for, on expiry, or on failures.
* Domains: weak fairness of each request's next step, and nothing else.

## 6. What is proved

`tlapm` checks these for every value of the constants allowed by the named
assumptions (`KeysAssumption`, `FilesAssumption`, `DumpAssumption`,
`AuditAssumption`, `RateLimitAssumption`, `AccountsAssumption`,
`DomainsAssumption`), which TLC evaluates in each run. All obligations are
discharged by Z3, Zenon and LS4.

* **StorageCacheProofs**: `TypeCorrect`, `UnexpiringOwned`, `StaleCaused`,
  `RestingCacheIsCoherent`. The second is inductive with the types. The third
  needs `WriteAfterDel`: only a writer of a key of `InvalidateFirst` stands at
  "write". Without it a row could change under a cached entry with nobody left
  to delete the key and no `WriteLeavingKey` to excuse it. The fourth follows from the third: when no request is under
  way a lookup answers what Postgres holds, but at the excused keys.
* **FileStoreProofs**: `TypeCorrect`, `LiveKeepsBlob`, `OrphanCaused`,
  `RestingStoreIsConsistent`. The second rests on `UnlinkIsSafe`: every live row
  whose blob some request is bound to unlink is exposed. That is the real
  content of the count in `remove_fspath`: it is true when the count is taken,
  and only `InsertRow` and `ManageUndelete` can break it later. `BlankIsExposed`
  keeps apart the rows that were purged and made live. The last follows
  from the two before: at rest the folder holds the blobs of the live files and
  no others, but for the exposed and the leaked.
* **DataDumpProofs**: `TypeCorrect`, `SkipsNothing`, `UncutComplete`,
  `RowsAccounted`, `DumpsRefineTheService`, `ServiceLeavesNoGaps`. That a dump
  about to be mailed is complete is not inductive: it follows from `RowsBehind`
  and `WorkerBehind`, by which every file before the one a row, or the worker,
  names has been written. `ArchiveBehind` says the same of the zip file under the
  user's present name, for a dump nothing has interrupted; it needs `NoRowNoFile`,
  that nothing is written for a user who has no row. `RowsAccounted` needs that a user is in
  `current_dump_state` once (`Distinct`), with lemmas on what INSERT and DELETE
  do to a table kept as a sequence. The refinement needs `Placed` besides: the
  worker is about to dequeue the user who is first, is at a dump whose user has
  a row, and nothing is written for a user without one. One lemma per kind of
  step maps it: a request's INSERT to `Ask`, the worker's to `Begin` or
  `TurnAway`, a write to `Take` or a stutter, the mail to `Send`, the DELETE of
  the row to `Finish`, a crash or an error to `Fail`, all others to a stutter.
* **AuditLogProofs**: `TypeCorrect`, `QueueAttended`, `MailedInOrder`,
  `ActionsAccounted`, `LogRefinesBulletin`, `AdminsHearAllInTurn`, `RestingLogIsMailed`. That an admin's mails rise is not
  inductive; `Orderly` adds that the list comes after what the sender has, what
  it has not rendered after what it has, and all of that after what the admin
  was mailed. It rests on lemmas on what Append, Tail and concatenation do to
  rising sequences. The refinement adds `SettledIsGone`: what is void or lost is
  neither in the list nor with the sender, so no mail has a closed post in it;
  that a mail passes over no open one follows from `AccountedFor` and `Orderly`
  together. `AdminsHearAllInTurn` carries over to the log what follows from the Bulletin's
  own definition (`BulletinKeepsTurns`). `RestingLogIsMailed` is `AllAreMailed` with
  `lost` for its exception, which is then the only one.
* **RateLimitProofs**: `TypesHold`, `BansAreSerial`, `RateStaysBounded`,
  `ToldTimesHold`, `BansAreForBursts`, `LimiterRefines`. The invariant says what
  a bucket in the cache can look like (`BucketsOK`: it has given a token away,
  its window began at one of its uses, refusals are counted only while it has
  none left) and how the histories follow it while it is there. From the first
  part alone, a bucket that `_verify_cache` drops is one whose window is over;
  that is the step of the refinement, and the others map to `Ask`, `Tick` or a
  stutter of WindowLimit. The bound on the rate needs `RateOK`, which ties the
  passes to the bucket: a bucket without a token has had no pass after its
  window began, one with some left has had, after that, fewer than it has given
  away, and before and after together at most those plus what a former window
  may have left over (`Overlap`). That is arithmetic on cardinalities, of the
  pass that is added (`LimitRate`) and of those a tick takes away (`TickRate`).
* **AccountsProofs**: `TypesHold`, `JobManagersKnowTheirJobs`,
  `LastChoicesStand`, `MailedTokensWorkOnce`, `MailedTokensAreLimited`. The last
  is inductive once requests that have counted and not inserted are added to the
  live tokens: together they exceed the limit by at most the number of requests,
  by lemmas on cardinalities. That a token works once needs to know who holds it
  and whether it was used (a token that a request has used and not cleaned yet is
  in the table, and anyone else who holds it makes it shared). For the last choice,
  `RehashKnows`: a revocation that is hashing has the password in force, or its
  user is in `raced`.
* **AccountDeletionProofs**: `MarkedUsersAreDeleted`, `DeletionsListAllFiles`,
  `MarkedUsersAreHidden`, `ActiveUsersStay`, `AccountsRefineTheLife`,
  `DoomedStayPending`, `RestingAccountsAreDeleted`. Each step of the system is first
  summed up by what it does to a user's fate, to whose hands the deletion is in,
  and to the files (`DeletionStep`); the invariants `HandInv` and `FileInv`
  follow from the summary with the types and `JobsAreKnown`, without looking at
  an action again. The refinement does look at every action, with a few lemmas
  for the kinds there are: a step that leaves the hands alone, one that makes one
  account active or not, one that gives deletions up. `DoomedStayPending` is the
  invariant of AccountLife by itself.
* **DomainsProofs**: `TypesHold`, `RemovalsOverlookNothing`,
  `CacheForgetsRemoved`, `NewOwnersHold`, `LimitsStayKept`. The strengthenings
  are `RemovalsKnowTheName` (a removal still has the name of its domain, so it
  deletes the right keys), `NewNamesAreKnown` (the domain being added has that
  name, or it was given twice) and `PendingIsLimited` (what a user has made and
  is about to make).

Four theorems speak of a system at rest (`RestIsCoherent`, `RestIsConsistent`,
`RestIsMailed`, `RestIsDeleted`): what is true when nothing is under way, with
the histories as the only exceptions. They are corollaries, and stated because
they draw the line up to which the code keeps what the findings of section 4
show it to break.

Only model-checked: `EventuallyCoherent`, `QueueMovesOn`, `EventuallySettled`,
`BanLands`, `DeletionEnds` and `RemovalSucceeds`, as liveness is beyond this
prover; and that the five findings of the runs occur. The refinements are of the safety of
the abstract specifications, which state no fairness.

## 7. What is not modelled

Names, MIME types, metrics and webhooks are left out of the modules above, since
no property tells them apart. Redis and Postgres are taken at their word: a call
takes effect at once or fails. A file that is missing when the dump wants it is
skipped by the code with a warning; DataDump writes it, its properties being
about ids. A graceful stop of the server is modelled as a crash. The janitor may
delete an archive in the one await between its reopening by a resumed dump and
the first write to it; that is left out, and so are files that `delete_all` or an
administrator purges while their owner's dump is under way: a user's files only
grow in DataDump.

Of Accounts: renames of files that no deletion job has listed, which change
nothing it speaks of; the semaphore that lets ten deletions of files run at a time, which
only delays them; sessions, whose signing key is the cached hash of StorageCache;
`stop_job` followed by a job of the same name, which the server never does but
when it stops. That `create_user` can die between `users` and `limits` is in the
model; nothing in the code looks after a user without limits, and no property
speaks of it.

Of Domains: the flags of a domain (`admin_only`, `official`, `permissions`), and
the shortnames an administrator may give an object.

Whole components that are left, with why: the metrics compactor's arithmetic is
done by InfluxDB, over time ranges of its own language; the snowflakes are a
clock and a counter in one process; serving, thumbnails, listings, statistics
and pages read and render; the migrations run while the server does not.

## 8. Running

    for m in StorageCache FileStore DataDump AuditLog RateLimit Accounts Domains; do
        tlc -workers 2 -config $m.cfg MC$m.tla
        tlapm ${m}Proofs.tla
    done
    tlapm AccountDeletionProofs.tla

The runs of the findings are `StorageCacheBan.cfg`, `DataDumpCrash.cfg`,
`DataDumpWakeup.cfg`, `AuditLogPush.cfg` and `AccountsLinks.cfg`, with the module
their name begins with; each ends in a counterexample.
