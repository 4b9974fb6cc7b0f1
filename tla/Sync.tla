-------------------------------- MODULE Sync --------------------------------
(***************************************************************************)
(* The whole of POST /v1/sync (internal/handler/sync.go, lines 27-247) as  *)
(* devices see it: a device sends its edits with the time of its last      *)
(* sync, the handler reads what its user may access, commits the push,     *)
(* then runs one query for changed cars and others for the changed rows of *)
(* cars, and answers with the time at which it started.                    *)
(*                                                                         *)
(* The push is one atomic step here: SyncPushProofs shows that it has no   *)
(* other effect.  A row is its updated_at; 0 is no row.  Edits and sync    *)
(* times are distinct instants of one clock, and cars have one owner, so   *)
(* what goes wrong below does not come from skewed clocks.                 *)
(***************************************************************************)
EXTENDS Naturals, FiniteSets

CONSTANTS
    Users, Cars, Services,   \* Services: the rows of a car, of all kinds
    Owner, CarOf,            \* the owner of a car, the car of a service
    Devices, UserOf,         \* the clients and their accounts
    Requests, NoRequest,     \* handlers in progress
    Incremental,             \* whether devices send last_synced_at
    MaxClock, MaxFaults      \* bounds: instants; failures and revocations

ASSUME SyncAssumption ==
    /\ Devices # {}
    /\ Owner \in [Cars -> Users]
    /\ CarOf \in [Services -> Cars]
    /\ UserOf \in [Devices -> Users]
    /\ NoRequest \notin Requests
    /\ Incremental \in BOOLEAN
    /\ MaxClock \in Nat /\ MaxFaults \in Nat

Key == Cars \union Services
Time == 0 .. MaxClock
Nothing == [k \in Key |-> 0]
Max2(m, n) == IF m < n THEN n ELSE m

VARIABLES
    clock, faults,
    db, shares,              \* committed rows; <<user, car>> of accepted shares
    pc, device,              \* of a handler: its next step and its client
    changes, since, stamp,   \* pushed rows, req.LastSyncedAt, syncTime
    access, got,             \* accessibleIDs; rows pulled so far
    known, dirty, cursor,    \* of a device: its rows, unsent edits, last sync
    waits,                   \* the request a device waits for
    overtaken                \* <<device, key, time>>: see MissedOnlyIfOvertaken

handlers == <<pc, device, changes, since, stamp, access, got>>
clients == <<known, dirty, cursor, waits>>
vars == <<clock, faults, db, shares, handlers, clients, overtaken>>

\* Every variable has its type.
TypeOK ==
    /\ clock \in Time /\ faults \in 0 .. MaxFaults
    /\ db \in [Key -> Time]
    /\ shares \subseteq Users \X Cars
    /\ pc \in [Requests -> {"idle", "access", "commit", "cars", "services", "answer"}]
    /\ device \in [Requests -> Devices]
    /\ changes \in [Requests -> [Key -> Time]]
    /\ since \in [Requests -> Time]
    /\ stamp \in [Requests -> Time]
    /\ access \in [Requests -> SUBSET Cars]
    /\ got \in [Requests -> [Key -> Time]]
    /\ known \in [Devices -> [Key -> Time]]
    /\ dirty \in [Devices -> SUBSET Key]
    /\ cursor \in [Devices -> Time]
    /\ waits \in [Devices -> Requests \union {NoRequest}]
    /\ overtaken \subseteq Devices \X Key \X Time

Init ==
    /\ clock = 0 /\ faults = 0
    /\ db = Nothing
    /\ shares = {}
    /\ pc = [r \in Requests |-> "idle"]
    /\ device = [r \in Requests |-> CHOOSE d \in Devices : TRUE]
    /\ changes = [r \in Requests |-> Nothing]
    /\ since = [r \in Requests |-> 0]
    /\ stamp = [r \in Requests |-> 0]
    /\ access = [r \in Requests |-> {}]
    /\ got = [r \in Requests |-> Nothing]
    /\ known = [d \in Devices |-> Nothing]
    /\ dirty = [d \in Devices |-> {}]
    /\ cursor = [d \in Devices |-> 0]
    /\ waits = [d \in Devices |-> NoRequest]
    /\ overtaken = {}

-----------------------------------------------------------------------------

CarFor(k) == IF k \in Cars THEN k ELSE CarOf[k]
Shared(u, c, granted) == Owner[c] = u \/ <<u, c>> \in granted
Visible(u, k) == Shared(u, CarFor(k), shares)

\* GetAccessibleCarIDs: stored cars of the user, and cars shared with it.
AccessibleCars(u) == {c \in Cars : db[c] # 0 /\ Shared(u, c, shares)}

\* Mutant: the ids of all pushed rows are taken for accessible cars.
PushedIds(r) == {k \in Key : changes[r][k] # 0}

PushedCars(r) == {c \in Cars : changes[r][c] # 0}

\* Mutant: a car counts as accessible only once it is stored.
AcceptedIfStored(r, k) == k \in Cars \/ CarOf[k] \in access[r]

Accepted(r, k) == k \in Cars \/ CarOf[k] \in access[r] \union PushedCars(r)

Merge(old, new) == [k \in Key |-> Max2(old[k], new[k])]
Accepting(r) == [k \in Key |-> IF Accepted(r, k) THEN changes[r][k] ELSE 0]

-----------------------------------------------------------------------------
(* Which rows a device can no longer get: those not newer than the time    *)
(* from which its next sync will ask, unless the sync it waits for still   *)
(* brings them.                                                            *)

PastQueryFor(r, k) ==
    IF k \in Cars THEN pc[r] \in {"services", "answer"}
    ELSE pc[r] = "answer" \/ (pc[r] \in {"commit", "cars", "services"}
                                /\ CarOf[k] \notin access[r] \union PushedCars(r))

Horizon(d, k) ==
    IF waits[d] # NoRequest /\ pc[waits[d]] # "idle" /\ PastQueryFor(waits[d], k)
    THEN stamp[waits[d]] ELSE cursor[d]

\* Rows K of the new db, some just changed or just made visible.
Overtake(K, newdb, granted) ==
    overtaken' = overtaken \union
        {<<p[1], p[2], newdb[p[2]]>> : p \in
            {q \in Devices \X K :
                /\ Shared(UserOf[q[1]], CarFor(q[2]), granted)
                /\ known[q[1]][q[2]] < newdb[q[2]]
                /\ newdb[q[2]] <= Horizon(q[1], q[2])}}

-----------------------------------------------------------------------------
(* The devices: clients of the API, not part of the server.                *)

Tick == clock < MaxClock /\ clock' = clock + 1

\* Somebody creates a car of theirs or changes a row they have.
Edit(d, k) ==
    /\ Tick
    /\ \/ k \in Cars /\ Owner[k] = UserOf[d]
       \/ known[d][CarFor(k)] # 0 /\ Visible(UserOf[d], k)
    /\ known' = [known EXCEPT ![d][k] = clock + 1]
    /\ dirty' = [dirty EXCEPT ![d] = @ \union {k}]
    /\ UNCHANGED <<faults, db, shares, handlers, cursor, waits, overtaken>>

\* The device sends its edits; the handler takes the time and starts.  At
\* MaxClock there are no more edits, and later syncs need no later time.
Send(d, r) ==
    /\ waits[d] = NoRequest
    /\ pc[r] = "idle"
    /\ IF clock < MaxClock THEN Tick ELSE UNCHANGED clock
    /\ waits' = [waits EXCEPT ![d] = r]
    /\ pc' = [pc EXCEPT ![r] = "access"]
    /\ device' = [device EXCEPT ![r] = d]
    /\ changes' = [changes EXCEPT ![r] =
                     [k \in Key |-> IF k \in dirty[d] THEN known[d][k] ELSE 0]]
    /\ since' = [since EXCEPT ![r] = IF Incremental THEN cursor[d] ELSE 0]
    /\ stamp' = [stamp EXCEPT ![r] = clock']
    /\ UNCHANGED <<access, got, faults, db, shares, known, dirty, cursor, overtaken>>

Fault == faults < MaxFaults /\ faults' = faults + 1

\* The device stops waiting, or the answer is lost; the handler goes on.
GiveUp(d) ==
    /\ waits[d] # NoRequest
    /\ Fault
    /\ waits' = [waits EXCEPT ![d] = NoRequest]
    /\ UNCHANGED <<clock, db, shares, handlers, known, dirty, cursor, overtaken>>

-----------------------------------------------------------------------------
(* The handler.                                                            *)

\* The handler returns and its variables are gone.
Finish(r) ==
    /\ pc' = [pc EXCEPT ![r] = "idle"]
    /\ changes' = [changes EXCEPT ![r] = Nothing]
    /\ since' = [since EXCEPT ![r] = 0]
    /\ stamp' = [stamp EXCEPT ![r] = 0]
    /\ access' = [access EXCEPT ![r] = {}]
    /\ got' = [got EXCEPT ![r] = Nothing]
    /\ UNCHANGED device

ReadAccess(r) ==
    /\ pc[r] = "access"
    /\ pc' = [pc EXCEPT ![r] = "commit"]
    /\ access' = [access EXCEPT ![r] = AccessibleCars(UserOf[device[r]])]
    /\ UNCHANGED <<clock, faults, db, shares, device, changes, since, stamp, got,
                   clients, overtaken>>

CommitPush(r) ==
    /\ pc[r] = "commit"
    /\ pc' = [pc EXCEPT ![r] = "cars"]
    /\ db' = Merge(db, Accepting(r))
    /\ access' = [access EXCEPT ![r] = @ \union PushedCars(r)]
    /\ Overtake({k \in Key : db'[k] # db[k]}, db', shares)
    /\ UNCHANGED <<clock, faults, shares, device, changes, since, stamp, got, clients>>

\* Answers 500 before the commit, or after one whose result was lost.
Fails(r) ==
    /\ pc[r] \in {"access", "commit"}
    /\ Fault
    /\ Finish(r)
    /\ waits' = [d \in Devices |-> IF waits[d] = r THEN NoRequest ELSE waits[d]]
    /\ \/ UNCHANGED <<db, overtaken>>
       \/ /\ pc[r] = "commit"
          /\ db' = Merge(db, Accepting(r))
          /\ Overtake({k \in Key : db'[k] # db[k]}, db', shares)
    /\ UNCHANGED <<clock, shares, known, dirty, cursor>>

\* Mutant: only the user's own cars are pulled.
OwnCarMatches(r, c) == db[c] > since[r] /\ Owner[c] = UserOf[device[r]]

\* GetCarsForUser asks again which cars are shared with the user.
CarMatches(r, c) == db[c] > since[r] /\ Shared(UserOf[device[r]], c, shares)

\* The other queries use the cars found before the push.
ServiceMatches(r, s) == db[s] > since[r] /\ CarOf[s] \in access[r]

Pull(r, K) == got' = [got EXCEPT ![r] = [k \in Key |-> IF k \in K THEN db[k] ELSE @[k]]]

PullCars(r) ==
    /\ pc[r] = "cars"
    /\ pc' = [pc EXCEPT ![r] = "services"]
    /\ Pull(r, {c \in Cars : CarMatches(r, c)})
    /\ UNCHANGED <<clock, faults, db, shares, device, changes, since, stamp, access,
                   clients, overtaken>>

PullServices(r) ==
    /\ pc[r] = "services"
    /\ pc' = [pc EXCEPT ![r] = "answer"]
    /\ Pull(r, {s \in Services : ServiceMatches(r, s)})
    /\ UNCHANGED <<clock, faults, db, shares, device, changes, since, stamp, access,
                   clients, overtaken>>

\* A query fails: the error is logged and the answer goes out without its rows.
PullFails(r) ==
    /\ pc[r] \in {"cars", "services"}
    /\ Fault
    /\ pc' = [pc EXCEPT ![r] = IF pc[r] = "cars" THEN "services" ELSE "answer"]
    /\ LET K == {k \in IF pc[r] = "cars" THEN Cars ELSE Services :
                    known[device[r]][k] < db[k] /\ db[k] <= stamp[r]}
       IN overtaken' = overtaken \union {<<device[r], k, db[k]>> : k \in K}
    /\ UNCHANGED <<clock, db, shares, device, changes, since, stamp, access, got, clients>>

\* Mutant: SyncedAt is the time of the answer.
SyncedAtAnswer(r) == clock

SyncedAt(r) == stamp[r]

\* 200: a device that still waits takes in the rows and the new cursor, and
\* forgets the edits that were sent and not changed again.
Answer(r) ==
    /\ pc[r] = "answer"
    /\ Finish(r)
    /\ LET d == device[r] IN
       IF waits[d] = r
       THEN /\ waits' = [waits EXCEPT ![d] = NoRequest]
            /\ known' = [known EXCEPT ![d] = Merge(@, got[r])]
            /\ cursor' = [cursor EXCEPT ![d] = SyncedAt(r)]
            /\ dirty' = [dirty EXCEPT ![d] = {k \in @ : known[d][k] # changes[r][k]}]
       ELSE UNCHANGED clients
    /\ UNCHANGED <<clock, faults, db, shares, overtaken>>

-----------------------------------------------------------------------------
(* Sharing.                                                                *)

AcceptShare(u, c) ==
    /\ db[c] # 0 /\ Owner[c] # u /\ <<u, c>> \notin shares
    /\ shares' = shares \union {<<u, c>>}
    /\ Overtake({k \in Key : CarFor(k) = c}, db, shares')
    /\ UNCHANGED <<clock, faults, db, handlers, clients>>

RevokeShare(u, c) ==
    /\ <<u, c>> \in shares
    /\ Fault
    /\ shares' = shares \ {<<u, c>>}
    /\ UNCHANGED <<clock, db, handlers, clients, overtaken>>

-----------------------------------------------------------------------------

Handle(r) ==
    \/ ReadAccess(r) \/ CommitPush(r) \/ Fails(r)
    \/ PullCars(r) \/ PullServices(r) \/ PullFails(r) \/ Answer(r)

Next ==
    \/ \E d \in Devices, k \in Key : Edit(d, k)
    \/ \E d \in Devices, r \in Requests : Send(d, r)
    \/ \E d \in Devices : GiveUp(d)
    \/ \E r \in Requests : Handle(r)
    \/ \E u \in Users, c \in Cars : AcceptShare(u, c) \/ RevokeShare(u, c)

Spec == Init /\ [][Next]_vars

(***************************************************************************)
(* Handlers finish, devices go on syncing as a mobile client does, and     *)
(* there are at most MaxFaults failures: after the last one every sync     *)
(* works.                                                                  *)
(***************************************************************************)
Works(r) ==
    ReadAccess(r) \/ CommitPush(r) \/ PullCars(r) \/ PullServices(r) \/ Answer(r)

Fairness ==
    /\ \A r \in Requests : WF_vars(Works(r))
    /\ \A d \in Devices : SF_vars(\E r \in Requests : Send(d, r))

FairSpec == Spec /\ Fairness

-----------------------------------------------------------------------------
(* Properties.                                                             *)

\* A row the device may see and does not have, that its next sync will not ask for.
Missed(d, k) ==
    /\ Visible(UserOf[d], k)
    /\ known[d][k] < db[k]
    /\ db[k] <= cursor[d]

\* The ways in which a sync loses a row are these and no other: its updated_at
\* was not newer than the device's last sync, or than the sync in progress whose
\* query had already run, when it was committed or when its car was shared with
\* the user; or the query that should have brought it failed (sync.go, 42-176).
MissedOnlyIfOvertaken ==
    \A d \in Devices, k \in Key : Missed(d, k) => <<d, k, db[k]>> \in overtaken

\* A device forgets an edit of its user's cars, and of what belongs to them, only
\* when that or something newer has been stored, whatever answers it loses,
\* whatever else it edits while it waits, and though a service and its new car
\* may come in one push (sync.go, 82-135).
OwnEditsAreKept ==
    \A d \in Devices, k \in Key :
        Owner[CarFor(k)] = UserOf[d] /\ db[k] < known[d][k] => k \in dirty[d]

\* "Pull: gather all changes since cursor" (sync.go, 155): what a device has
\* after a sync is all that changed up to its cursor.
PullGathersAll == \A d \in Devices, k \in Key : ~ Missed(d, k)

\* Devices that never send last_synced_at get every change that is stored, or a
\* newer one, unless they lose access.
EveryChangeArrives ==
    \A d \in Devices, k \in Key, t \in 1 .. MaxClock :
        db[k] >= t /\ Visible(UserOf[d], k)
            ~> known[d][k] >= t \/ ~ Visible(UserOf[d], k)
=============================================================================
