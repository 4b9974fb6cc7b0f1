# A TLA+ model of igg-server

igg-server keeps cars, their services and reminders of the app "I Got Gas" in
Postgres, lets a user's devices synchronise them, and lets users share cars.
Its handlers are short, but each is a sequence of SQL statements of which only
the push of a sync is a transaction, and any number of them run at a time. This
directory models what that means: which interleavings, failures and lost
answers the code survives, and which it does not, and what becomes of the
process itself when it is stopped, dies or is configured anew.

- [Inventory](#inventory)
- [Modules](#modules)
- [Runs](#runs), with [bounds](#bounds) and [fairness](#fairness)
- [Proofs](#proofs)
- [What the checks found](#what-the-checks-found)
- [What is not modelled](#what-is-not-modelled)
- [Plan](#plan)

Paths below are relative to the repository.

## Inventory

| Component | State | Operations | What is hard, and what makes it correct |
|---|---|---|---|
| Sync push (`internal/handler/sync.go`, 27-135; upserts in `internal/store/postgres`) | tables `cars`, `services`, `scheduled_services`, `car_settings`; a transaction per request | read owned and accessible cars; one upsert per pushed row, "newest `updated_at` wins"; commit | concurrent pushes of the same rows, locks in different orders, statements whose failure is only logged, lost commits. Pushes must be serial and an answer of 200 must lose nothing. |
| Sync pull (`sync.go`, 155-247) | the device's `last_synced_at`; `sync_cursors` | four queries for rows newer than the cursor; answer with the time at which the request began | edits pushed late, commits and shares between the queries, failed queries that are only logged. A device should get all it may see. |
| Notifications (`sync.go`, 137-153, 249-290; `devices.go`; `device_tokens.go`) | `device_tokens`, a semaphore of 10 slots, the jobs, the APNs client | start or skip a job; read users; read registrations; send; delete refused tokens; register, unregister | everything may change between the reads; slots must come back; a renewed registration must survive the clean-up of an old token |
| Sharing (`sharing.go`, `shares.go`) | `car_shares` | create, revoke, leave, accept, decline; lists | check in one statement and write in another; accounts deleted and registered again |
| Login and sessions (`handler/auth.go`, `tokens.go`, `cleanup.go`, `internal/maintenance`; login of `internal/admin`, `admin.go`) | `magic_tokens`, `refresh_tokens`, `admin_sessions` | request, open and poll a link; the admin's login, at another address with links of the same table; refresh; logout; hourly clean-up | single use and rotation by check-then-write; theft detection with refreshes in progress; clean-up and account deletion in the middle of a login |
| Accounts (`me.go`, `users.go`, migration 001) | `users` and what cascades from it | first login; delete | a handler in progress for a deleted account |
| Access tokens (`internal/auth`, `internal/middleware/auth.go`) | none | sign, verify | a token outlives its account by up to 15 minutes |
| APNs client (`internal/apns`) | cached provider token | send | answers: sent, refused, other failure |
| Server configuration (`admin/handler.go`, 297-336; `server.go`, 22-34, 75-84, 114-129) | `server_config`, the pointer to the APNs client | save key by key; reload; load at the start | keys committed one by one in random order, two saves at a time; a reload that keeps the old client. What runs should be what a restart would run. |
| Rate limiter (`internal/middleware/ratelimit.go`) | buckets under one mutex | allow, clean up | refilled late, made late, deleted when idle: it must still be one bucket for each client |
| Start-up and shutdown (`cmd/server/main.go`, `db.go`) | the schema, the process | connect, migrate, load, serve, stop | a migration that fails is only logged; a stop or crash anywhere; handlers are waited for, jobs are not |
| Admin pages, mail, logging, health, environment | none of their own | queries and rendering | nothing the rest depends on |

How they interact: handlers share only the database, in which keys and
`ON DELETE` clauses act as well; a sync starts a notification job, which
reads shares and registrations that other handlers write; deleting an account
removes or changes rows of every table; maintenance deletes links and tokens
under running handlers; the admin's login and the app's share the table of
links; the admin's configuration replaces the APNs client that later jobs use;
every request passes the limiter, whose buckets, like the jobs and the client,
are in memory and end with the process, while the schema, the configuration and
the tables stay.

`PROJECT.json` lists the hazards of the code line by line with the property
that watches each.

## Modules

| Module | Models |
|---|---|
| `LwwStore` | the abstract store: rows change only by whole batches, merged by "newest wins", and by purges |
| `SyncPush` | the push, statement by statement, over Postgres with row locks |
| `SyncPushProofs` | theorems about it, among them that it implements `LwwStore` |
| `Sync`, `SyncProofs` | the whole sync request and the devices, the push in one step |
| `Sharing`, `SharingProofs` | car shares and accounts, and what the lists show |
| `Auth`, `AuthProofs` | links, polling, refresh tokens, admin sessions |
| `Notify`, `NotifyProofs` | notification jobs and device registrations |
| `TokenBucket` | the abstract bucket: what a rate limiter promises while the process is up |
| `RateLimiter`, `RateLimiterProofs` | the limiter as it is, which implements `TokenBucket` |
| `Server`, `ServerProofs` | the process from start to end: migrations, configuration, APNs client; contains `RateLimiter` |
| `MC*` | constants for TLC |

**SyncPush.** `db` holds the committed rows of all four tables by primary or
unique key, `tx` and `held` what an open transaction has written and locked.
A row is its parent (owner or car), `updated_at` and `deleted`: no other column
decides anything. `ReadOwned`, `ReadAccessible`, one `SkipItem` or `UpsertItem` for each
pushed row, `Commit` and `Respond` are the handler in its order. A statement that
fails (`StatementFails`, `ForeignKeyFails`, `DeadlockVictim`) dooms the
transaction; the handler goes on to the commit, which then fails, and since
nothing it does in between has an effect these steps are not modelled apart.
`CommitLost` is a commit that took effect and whose answer was lost.
`Share`, `Unshare` and `DeleteMe` are the other handlers as far as they touch
these tables; the latter waits for locks as Postgres does. Locking, visibility
and deadlock detection are Postgres' own and mapped as external.

**Sync.** A row is its `updated_at`. The push is one step, as `SyncPushProofs` justifies;
`SyncProofs` shows that this step keeps to the same abstract store.
Devices are external: they edit, send, wait or give up, and take in
an answer as the API intends (rows merged by `updated_at`, `synced_at` kept
as the next `last_synced_at`). Edits and sync times are distinct instants of one clock, so
that no problem shown here comes from skewed clocks. `overtaken` is a
history variable: it records the rows that became invisible to a device's
queries and why.

**Sharing.** Every handler is a read with its checks (`CreateShare`,
`AcceptShare`, ...) and a later write (`Insert`, `Update`) that does not repeat
them. An account is the n-th of its address, so that a user who comes back is somebody else.
A share is found by car and address, which are unique, and by who shared it: `Update` does
nothing if the row has gone, or has gone and been made anew, since. `ReadInvitee` may miss an account
that exists: `CreateShare` drops the error of that query and goes on.

The lists (`ListShares`, `GetReceivedSharesForEmail`, ...) are the queries as sets
of shares; they ask by address, by account, by car and by owner, and
`AccessIsVisible` relates them to `GetAccessibleCarIDs`, by which a sync gives access.

**Auth.** Links, tokens and sessions are values drawn once. A handler reads a row
(`VerifyMagicLink`, `AdminVerify`, `PollAuth`, `Refresh`, `Logout`), then runs its statements one by one
and ends in `GenerateTokenPair` or `CreateAdminSession`, which need the account. `AdminVerify`
opens any link, as the code does, and asks only after marking it whether its user is the admin.
`Fails` is any error on the way, and also the answer of a handler that ignores one.
`origin`, `contested` and `swept` are history: what each token or session was
given for, which claims two handlers found unused at the same time, and which tokens theft detection
found valid, but for those that a refresh had already read.

**Notify.** Any push that commits changes of cars starts a job, whoever's the cars are (`Committed`): a
pushed car is not checked for access (`sync.go`, 76-86), so that the sender may be any user. `StartJob` takes a slot, `ReadUsers`, `ReadDevices`, `Send`, `SendRefused` and
`Cleanup` are `notifySharedUsers`, `Release` the deferred receive. `Restart` ends the
process at any moment: jobs and slots are gone, registrations stay. The history
`due`, `hadAccess` and `wasRegistered` says who ought to hear of a job, from the tables alone and not from
what the job has read.

**RateLimiter.** One mutex makes `Allow` and a clean-up one step each. A bucket is
its tokens and the ticks since `lastCheck`; `Level` is the mapping to `TokenBucket`: what a client
has is what its bucket will hold when it is next asked for, and a full one if it has none. The process
(`up`) and time (`now`, whose parity is enough to see a tick) are variables of both modules with the same values, so
that the abstract bucket may not make up a restart or a tick that the limiter has not had: a clean-up must
leave every level as it is, and a tick adds the rate once. Only `Stop` fills the buckets at once.
`Tuned` says what the code's numbers (10 a second, 30, 10 minutes) must satisfy for
that: an idle bucket is full before it is deleted.

**Server.** `Connect`, `Migrate`, `MigrateFails`, `MigrationsEnd`, `Load` and `LoadFails` are `main` up to
the listener; a statement of a migration takes effect once and is skipped when it has
("already exists"). `ConfigSave` starts a save, `SetServerConfig` writes one key, `SaveFails` ends
it after any of them, its last statement written or not, and `ReloadAPNs` builds the client from the form and
keeps the old one if that gives none. `Crash` and `Exit` lose what is in memory;
`Exit` waits for saves, as `Shutdown` of the HTTP server does within 30 seconds, and beyond that is a
`Crash`. The limiter is an `INSTANCE` whose variables are the server's and whose `up` is that the phase is not
"down": it starts with `Connect` and stops with `Crash` and `Exit`; all requests pass it.
`crashes` counts the deaths since the server last began to serve.
`tangled` and `behind` are history: whether the last saves overlapped or stopped
half-way, and whether the client was built from something else than what is stored.

Actions that a property needs for its mutant have a variant before them, marked
"Mutant": a plausible bug at that place. No specification uses one.

## Runs

| Run | Shows |
|---|---|
| `push` | Two users, two requests at a time, change lists that create, edit twice, delete and reorder rows, one car's share coming and going, accounts deleted, every statement free to fail: pushes are serial (`PushesAreSerial`, refinement of `LwwStore`), isolated at every moment (`Isolation`), stored when acknowledged (`AckedPushStored`), and rows never go back (`RowsOnlyGetNewer`). |
| `push_live` | Two pushes that lock two cars in opposite orders; a service whose car may be gone: every request is answered. |
| `push_owners` | violated: see below. |
| `sync` | Owner and guest, two handlers, incremental syncs, one failure or revocation: rows are lost to a device only as `MissedOnlyIfOvertaken` says, and an edit of one's own car is not forgotten before it, or something newer, is stored (`OwnEditsAreKept`). |
| `sync_full` | Devices that send no `last_synced_at`: every stored change arrives. |
| `sync_missed` | violated: see below. |
| `sharing` | Two addresses with two accounts each, two calls at a time: access only to the invited, settled shares stay settled unless an accept is on its way, only the deletion of its account strands an accepted share, which then gives access to nobody until it is ended (`StrandedOnlyByDeletion`), and whoever has access is seen by the owner and finds the share in every list of theirs (`AccessIsVisible`). |
| `sharing_race` | violated: see below. |
| `auth` | A link, tokens and sessions, two handlers, the app's address and the admin's: opening a link and refreshing give one token or session unless contested (`OneUse`; tokens an app polls for are not counted), rotation retires the old token, only opened links log in, deletion ends sessions, and what theft detection has found is dead for good (`TheftEndsSessions`). |
| `auth_once` | violated: see below. |
| `notify` | One slot, two jobs, two users with two devices and two tokens, restarts: slots belong to running jobs and come back (`SlotsComeBack`), the right registrations are notified and no others, renewed registrations are kept. |
| `server` | Two migration statements, two keys, three forms, two saves at a time, up to two crashes before the server serves again and any number of orderly stops: the schema is completed in order over any number of starts (`SchemaInOrder`), what is stored is one form and what runs is what is stored unless saves overlapped or failed (`StoredIsOneForm`, `ClientIsStored`), the limiter is a token bucket throughout (`ActsAsTokenBucket`, refinement of `TokenBucket`), and a server that is down serves again whatever is stored (`StartsAgain`). |

### Bounds

Two requests suffice for the races that pairs of check and write admit, and for
a deadlock of two; longer cycles of waiting are covered by the definition of
`Deadlocked` and not by a run. `Times` has two values because only the comparison of two matters.
`MaxClock` is 5 in `sync`: two edits and three syncs are the shortest
behaviours in which one device's push falls between another's two syncs, and 4 is enough
for the counterexample of `sync_missed`. `MaxFaults` is 1: a fault is a failed query, a lost answer or
a revocation. In `sync_full` `MaxClock` is 2, since a device that asks for
everything has no cursor that could be late. `MaxAccounts` is 2: gone and back.
`sharing` has one car: shares of different cars meet only in the lists and in the
deletion of accounts, and the theorems of `SharingProofs` are about any number of cars.
The link, three tokens and one session of `auth` give a login at either address, a refresh and
a second claimant for each. Its one account is the admin's, so that every action happens;
users who are not the admin, and more of everything, are covered by the theorems of `AuthProofs`. The semaphore has one slot in `notify` so that it is full while the
second job comes; what two running jobs do to each other is to delete
registrations, and `UnregisterDevice` does that at any time.
In `server` two statements, of which the second makes the table of the configuration,
give a schema that is empty, partial and whole; two keys are the ids and the key
content, which decide about a client in different ways; two of the three forms
give clients, the third is blank and unusable; `MaxCrashes` is 2 for every time the server is brought up, so that a start
can die twice before one succeeds, while crashes in all, stops and starts are not
bounded. The one client of the limiter has a bucket of one token of two units, half of
which come with a tick, and is deleted after more than two idle ticks. That is enough for refusal, refill, cap
and deletion, since nothing but the end of the process may fill the bucket: a clean-up of a
bucket that is not full yet, or a tick that counts twice, is a step the abstract bucket does not have.
Clients share nothing but the clean-up and the tick, and the theorem is about any number of them.
Symmetry is declared on requests, users, tokens, devices and jobs where they are
interchangeable, in runs without liveness properties only.

`Sharing` and `Auth` run with `CHECK_DEADLOCK FALSE`: accounts, links and tokens
are used up there, and the system may stop.

### Fairness

- `push_live`: a handler that can take its next step does (Go schedules
  goroutines and every statement ends). A request waiting for a row gets it when it is released again and
  again (strong fairness: Postgres queues waiters), and a deadlock is broken
  after `deadlock_timeout`. No failure is assumed to happen.
- `sync_full`: handlers finish; a device goes on syncing; faults are bounded,
  which says that in the end a sync works.
- `notify`: a job runs on. Its queries end with the context of 30 seconds
  and a send with the client's timeout of 10.
- `server`: a start goes on (`WF_vars(Start)`): `main` runs by itself, and the container is
  started again whenever it has ended (`restart: always` in `docker-compose.yml`). That the
  database answers in the end is part of it.

## Proofs

TLAPS proves every safety property of the passing runs, for any number of users, cars, devices,
requests, jobs, links and tokens. The inductive invariants of `NotifyProofs` and
`SyncProofs` were checked by TLC before they were proved, on the constants of `notify` and `sync`, the latter with `Incremental` false as well.

**SyncPushProofs.** `TypeCorrect`; `PushIsolation`: `Isolation` is inductive
together with `TypeOK`. It says that locks exclude each other, that a transaction has
written only locked rows, and that what it sees of a row is the *present*
committed row merged with the items upserted so far: the last conjunct is
needed because under READ COMMITTED a row may change between the reads of a
push and its own statement, but not after. From it `PushRefinesStore`: at
`Commit` and `CommitLost` the store takes the whole batch, every other step leaves it alone
or is the purge of an account. `RowsNeverGoBack` is proved of the steps of the
implementation through the abstract store. `AckedIsStored` follows from `MergedSoFar` at the commit.
Assumptions: times are natural numbers, kinds of ids are disjoint, cars come
first in a push (the order of the loops).

**SharingProofs.** `Invariant` strengthens `AccessOnlyToInvited` by what calls
in progress have checked: the target of a call is a share of its caller or of
its caller's address, an invitee found belongs to the invited address. Account
numbers only grow, which makes a stale target harmless. From it `AccessInvited`
and, as an action property, `SettledForGood`. `AccessVisible` follows from the same invariant:
an accepted share names an account of the invited address and the owner that its
car still has. `StrandedByDeletion`, an action property
too, needs an invariant of its own (`AcceptsInTime`): an account that still exists and is about to accept a share
does not find it stranded, because an address has one account at a time, so that stranding the share
took that account's deletion.

**AuthProofs.** `Invariant` says that the item of a handler has the state its
step implies (`HeldRows`), that what a token was given for is used up
(`OriginsSpent`), that two handlers holding the same unused row have been
recorded (`ClaimsContested`), and that swept tokens are dead and in no refresh's hands
(`SweptDead`). The proofs rest on links and tokens only moving forward. From it `UsedOnce` (opening and refreshing, not polling),
`ReplacedIsDead`, `LoginNeedsOpenedLink`, `TheftEndsThem`, `DeletedStaysOut`.

**RateLimiterProofs.** `LimiterRefinesBucket`: under `Tuned`, `Allow` with a bucket or without is
`Pass` or `Refuse` of the abstract bucket, a tick adds the rate, the start and the end of the process are its own,
and a clean-up is a stutter because a bucket that is old is full. The arithmetic (`OldIsFull`, `RefilledLater`) is in lemmas.

**ServerProofs.** `ServerLimits`: every step of the server is a step of the limiter, with the process up or down as
the phase says, or leaves it alone, so that the theorem about the limiter holds inside the server.
`SchemaComplete`: the statements that have taken effect are always the first n, and the next
one is among them or follows (`SchemaIsPrefix`). `Invariant` (`ConfigInv`) is what
`StoredUniform` and `ClientMatches` need: a save that nothing has overlapped is the
only one, and every key it has written still holds its value (`AloneWrites`); while nothing of a
save under way is stored, what is stored is one form and the client is built from it
(`StoredAndUsed`). Both also hold in the middle of a save that has not written yet, which is
why they are stated for `Settled` and not only without saves.

**NotifyProofs.** `SlotsCorrect`: jobs come from a finite set (the assumption of `Notify`), so
that one that starts or ends changes the count of `Running` by one, as it does `sem`. From it
`SlotsComeOut`: the deferred receive never blocks. `Invariant` follows a job through its two
queries. Until it has read the users, whoever is due is still found in the tables
(`DueInForce`); then it is among the users read and is still registered; then it is in
the queue or has been notified (`DueIsCovered`). The other way round, a user who was read had
access and a row in the queue was registered (`ToldHadAccess`), and neither is the sender's
(`HistoryIsOfOthers`). The history variables are reset when a job starts, which `OnlyInTime` says.
From it `EveryoneElse`, `NobodyElse` and, without history variables, `SenderIsLeftAlone`.
`Renewed`, an action property, rests on the refused token of a clean-up having been rejected
(`RefusedIsRejected`).

**SyncProofs.** `MissedOnlyIfOvertaken` is not inductive: an answer moves the device's cursor
past everything that its queries did not bring. `Invariant` therefore also says of every answer that is
being gathered that what it lacks, up to the time it will set the cursor to, was overtaken
(`AnswerOnlyLacksOvertaken`). A query must then bring what is newer than the device's cursor: it starts there,
since the device waits for that request and no other moves its cursor (`WaitsForItsOwn`); and a row
that was not overtaken when it was stored is one that the query asks for, since at the
time of the services query the cars just pushed are accessible (`PushedIsAccessible`), and nothing
is stored of a car that is not (`CarsComeFirst`). Without
`PushedIsAccessible`, which is line 83 of the handler, the invariant is not inductive. `EditsAreKept` has an invariant of its own (`EditsInv`): an
edit has a car that the device knows, so the owner's push either brings the car or
finds it stored and thus accessible, and by the time of the answer holds nothing that is newer than
what is stored; an edit made while the device waits differs from what was sent and stays. It is about the owner only:
a guest's edit is dropped without a word when the share is revoked before the push.
`SyncRefinesStore`: the push that `Sync` takes as one step is a batch of `LwwStore`, whose rule
is that the later of two instants stays (`MergeIsNewestWins`), so that `Sync` and `SyncPush` implement the same
abstract store; TLC checks the refinement on the constants of `sync` too, but takes too long for a run of its own.
Assumption: there is a device, and cars have owners.

Only model-checked: the liveness properties (`EveryRequestAnswered`,
`EveryChangeArrives`, `SlotsComeBack`, `StartsAgain`), since temporal proofs with fairness need
`ENABLED`, which is beyond the prover.

## What the checks found

Four runs are expected to fail: each checks what the repository says of itself
and TLC shows a behaviour of the code that does otherwise.

1. `push_owners`: "Cars: only owners can upsert" (`sync.go`, 75). The loop upserts every
   pushed car. `owner_id` and `created_at` are kept, but a user the car is shared with changes all
   its other columns, and the car then passes for owned in the rest of the request.
2. `sync_missed`: "Pull: gather all changes since cursor" (`sync.go`, 155). The queries compare the
   time of the *edit* with the time of the last *sync*: an edit pushed after
   another device has synced is never pulled by it. One account, two devices
   and no failure are enough. `MissedOnlyIfOvertaken` gives the complete list of ways;
   `sync_full` shows the remedy of asking for everything.
3. `sharing_race`: "share is not pending" (`sharing.go`, 264). A revoke between
   the read and the write of an accept is overwritten, and the guest keeps access.
4. `auth_once`: "can only be used once" (`internal/email/smtp.go`, 31). Two
   requests that open a link at the same time both get a session.

## What is not modelled

The columns no decision depends on; `sync_cursors` and `notification_log`, read
only by the admin pages; these pages (`admin_stats.go`, the four handlers that render them), which
decide nothing; the text of mails and pages, and whether a mail arrives; JWTs, whose signing is a
library's, and the lifetime of access tokens: in `Sharing` a caller's account may have
been deleted at any time before; the provider token the APNs client caches; the
connection pool: no handler asks for a second connection while it holds one, so that it
delays and does not block; two devices that edit a row at the same instant, of which one keeps
its version for ever. `PROJECT.json` says so for each component.

## Plan

Done, in this order: `SyncPush` with `LwwStore` and its proofs, `Sync`,
`Sharing` and `Auth` with proofs, `Notify`, `RateLimiter` with `TokenBucket` and its proofs, `Server`
with proofs, `NotifyProofs`, `SyncProofs`.

Next, theorems:

1. The safety kernel of `EveryChangeArrives`: with `Incremental` false, an answer that no
   fault has touched leaves the device with every row that was stored and visible when the
   request began and still is.
2. That two devices which both make full syncs, with no more edits, end with the same rows:
   the state in which nothing more happens, without fairness.
