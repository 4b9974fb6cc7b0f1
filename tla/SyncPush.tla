------------------------------ MODULE SyncPush ------------------------------
(***************************************************************************)
(* The push half of POST /v1/sync (internal/handler/sync.go, lines 27-135) *)
(* over the Postgres tables it writes: concurrent handlers read the cars   *)
(* their user owns and may access, then upsert the pushed rows one         *)
(* statement at a time inside one READ COMMITTED transaction, and commit.  *)
(* Row locks, statement failures, deadlock victims, lost commits, share    *)
(* changes and account deletions happen in between.                        *)
(***************************************************************************)
EXTENDS Naturals, Sequences, FiniteSets

CONSTANTS
    Users, Cars, Services,   \* ids; Services: services and scheduled services
    SettingsId,              \* the id of a pushed car_settings row
    Times,                   \* values of updated_at, chosen by the clients
    Requests,                \* slots for requests in progress
    Pushes,                  \* the change lists a request may carry
    NoRow, NoUser

Ids == Cars \union Services \union {SettingsId}
Item == [id : Ids, car : Cars, at : Times, deleted : BOOLEAN]

IsCar(i) == i.id \in Cars

Key == Cars \union Services \union (Cars \X Users)
Row == [parent : Users \union Cars, at : Times, deleted : BOOLEAN]
Rows == Row \union {NoRow}

ASSUME TimesAssumption == Times \subseteq Nat

ASSUME KindsAssumption ==
    /\ Cars \intersect Services = {}
    /\ SettingsId \notin Cars \union Services

ASSUME NullAssumption == NoRow \notin Row /\ NoUser \notin Users

\* The handler has one loop per kind of row, the cars first.
ASSUME PushesAssumption ==
    /\ Pushes \subseteq Seq(Item)
    /\ \A p \in Pushes : \A m, n \in 1 .. Len(p) :
         /\ IsCar(p[n]) => p[n].car = p[n].id
         /\ m < n /\ IsCar(p[n]) => IsCar(p[m])

VARIABLES
    users,    \* accounts that exist
    db,       \* committed rows of cars, services, scheduled_services, car_settings
    shares,   \* <<user, car>>: accepted car_shares rows
    pc,       \* where the handler of each request is
    user, push,       \* the request: who sent it and its changes
    pos,              \* the next item of push to upsert
    owned, access,    \* ownedIDs and accessibleIDs of the handler
    held,     \* keys of the rows its transaction has locked
    tx        \* rows its transaction has written and not committed

store == <<users, db, shares>>
request == <<pc, user, push, pos, owned, access, held, tx>>
vars == <<store, request>>

States == {"idle", "owned", "access", "push", "doomed", "committed"}

NoWrites == [k \in Key |-> NoRow]

\* Every variable has its type.
TypeOK ==
    /\ users \subseteq Users
    /\ db \in [Key -> Rows]
    /\ shares \subseteq Users \X Cars
    /\ pc \in [Requests -> States]
    /\ user \in [Requests -> Users \union {NoUser}]
    /\ push \in [Requests -> Pushes \union {<<>>}]
    /\ pos \in [Requests -> Nat \ {0}]
    /\ owned \in [Requests -> SUBSET Cars]
    /\ access \in [Requests -> SUBSET Cars]
    /\ held \in [Requests -> SUBSET Key]
    /\ tx \in [Requests -> [Key -> Rows]]
    /\ \A r \in Requests :
         /\ pc[r] # "idle" => user[r] \in Users /\ push[r] \in Pushes
         /\ pc[r] = "idle" => user[r] = NoUser /\ push[r] = <<>>
         /\ pos[r] \in 1 .. Len(push[r]) + 1
         /\ pc[r] \in {"owned", "access"} => pos[r] = 1

Init ==
    /\ users = Users
    /\ db = NoWrites
    /\ shares = {}
    /\ pc = [r \in Requests |-> "idle"]
    /\ user = [r \in Requests |-> NoUser]
    /\ push = [r \in Requests |-> <<>>]
    /\ pos = [r \in Requests |-> 1]
    /\ owned = [r \in Requests |-> {}]
    /\ access = [r \in Requests |-> {}]
    /\ held = [r \in Requests |-> {}]
    /\ tx = [r \in Requests |-> NoWrites]

-----------------------------------------------------------------------------
(* What the statements read and write.                                     *)

OwnedCars(u) == {c \in Cars : db[c] # NoRow /\ db[c].parent = u}
AccessibleCars(u) == OwnedCars(u) \union {c \in Cars : <<u, c>> \in shares}

\* car_settings conflict on (car_id, user_id), the other tables on id.
RowKey(u, i) == IF i.id = SettingsId THEN <<i.car, u>> ELSE i.id

\* An item reaches the store unless its car is out of reach: pushed cars never are.
Accepted(i, cars) == IsCar(i) \/ i.car \in cars

\* The row an upsert carries: owner_id is forced to the user, and deleted is
\* cleared when the user does not own the car that the item names.
Write(u, i, mine) ==
    [key     |-> RowKey(u, i),
     parent  |-> IF IsCar(i) THEN u ELSE i.car,
     at      |-> i.at,
     deleted |-> i.deleted /\ (IsCar(i) \/ i.car \in mine)]

\* Mutant: the WHERE clause of the upsert is gone.
UpsertAlways(old, w) ==
    [parent  |-> IF old = NoRow THEN w.parent ELSE old.parent,
     at      |-> w.at,
     deleted |-> w.deleted]

\* INSERT ... ON CONFLICT DO UPDATE ... WHERE updated_at < the new one; the
\* owner or car of a row is not among the columns updated.
Upsert(old, w) ==
    IF old # NoRow /\ ~ old.at < w.at THEN old
    ELSE [parent  |-> IF old = NoRow THEN w.parent ELSE old.parent,
          at      |-> w.at,
          deleted |-> w.deleted]

\* What a statement of r's transaction sees: its own writes over committed rows.
Seen(r, k) == IF tx[r][k] # NoRow THEN tx[r][k] ELSE db[k]

\* An insert needs the rows its foreign keys refer to.
ParentsExist(r, i) ==
    IF IsCar(i) THEN user[r] \in users
    ELSE /\ Seen(r, i.car) # NoRow
         /\ i.id = SettingsId => user[r] \in users

NextItem(r) == push[r][pos[r]]
NextKey(r) == RowKey(user[r], NextItem(r))
Pushing(r) == pc[r] = "push" /\ pos[r] <= Len(push[r])
Skipped(r) == ~ Accepted(NextItem(r), access[r])

\* Mutant: upserts take no row locks.
LockedNever(r) == FALSE

Locked(r) == \E q \in Requests \ {r} : NextKey(r) \in held[q]

-----------------------------------------------------------------------------
(* The handler.                                                            *)

Receive(r, u, p) ==
    /\ pc[r] = "idle"
    /\ pc' = [pc EXCEPT ![r] = "owned"]
    /\ user' = [user EXCEPT ![r] = u]
    /\ push' = [push EXCEPT ![r] = p]
    /\ UNCHANGED <<store, pos, owned, access, held, tx>>

\* Mutant: the deferred Rollback is gone.
FinishKeepingLocks(r) ==
    /\ pc' = [pc EXCEPT ![r] = "idle"]
    /\ UNCHANGED <<user, push, pos, owned, access, held, tx>>

\* The handler returns: its transaction and its variables are gone.
Finish(r) ==
    /\ pc' = [pc EXCEPT ![r] = "idle"]
    /\ user' = [user EXCEPT ![r] = NoUser]
    /\ push' = [push EXCEPT ![r] = <<>>]
    /\ pos' = [pos EXCEPT ![r] = 1]
    /\ owned' = [owned EXCEPT ![r] = {}]
    /\ access' = [access EXCEPT ![r] = {}]
    /\ held' = [held EXCEPT ![r] = {}]
    /\ tx' = [tx EXCEPT ![r] = NoWrites]

ReadOwned(r) ==
    /\ pc[r] = "owned"
    /\ pc' = [pc EXCEPT ![r] = "access"]
    /\ owned' = [owned EXCEPT ![r] = OwnedCars(user[r])]
    /\ UNCHANGED <<store, user, push, pos, access, held, tx>>

ReadAccessible(r) ==
    /\ pc[r] = "access"
    /\ pc' = [pc EXCEPT ![r] = "push"]
    /\ access' = [access EXCEPT ![r] = AccessibleCars(user[r])]
    /\ UNCHANGED <<store, user, push, pos, owned, held, tx>>

\* A read or BeginTx fails: 500, nothing written.
ReadFails(r) ==
    /\ pc[r] \in {"owned", "access"}
    /\ Finish(r)
    /\ UNCHANGED store

SkipItem(r) ==
    /\ Pushing(r)
    /\ Skipped(r)
    /\ pos' = [pos EXCEPT ![r] = @ + 1]
    /\ UNCHANGED <<store, pc, user, push, owned, access, held, tx>>

\* The row is locked even when the WHERE clause leaves it as it was.  A pushed
\* car counts as owned and accessible from here on.
UpsertItem(r) ==
    /\ Pushing(r)
    /\ ~ Skipped(r)
    /\ ~ Locked(r)
    /\ Seen(r, NextKey(r)) = NoRow => ParentsExist(r, NextItem(r))
    /\ LET i == NextItem(r)
           k == NextKey(r)
           new == IF IsCar(i) THEN {i.car} ELSE {}
       IN /\ tx' = [tx EXCEPT ![r][k] = Upsert(Seen(r, k), Write(user[r], i, owned[r]))]
          /\ held' = [held EXCEPT ![r] = @ \union {k}]
          /\ owned' = [owned EXCEPT ![r] = @ \union new]
          /\ access' = [access EXCEPT ![r] = @ \union new]
    /\ pos' = [pos EXCEPT ![r] = @ + 1]
    /\ UNCHANGED <<store, pc, user, push>>

\* A statement of the transaction fails: the handler logs it and goes on, but
\* Postgres has rolled back and refuses the rest, up to and including COMMIT.
Doom(r) ==
    /\ pc' = [pc EXCEPT ![r] = "doomed"]
    /\ held' = [held EXCEPT ![r] = {}]
    /\ tx' = [tx EXCEPT ![r] = NoWrites]
    /\ UNCHANGED <<store, user, push, pos, owned, access>>

\* The connection or the client is gone, or Postgres refuses the row.
StatementFails(r) == Pushing(r) /\ ~ Skipped(r) /\ Doom(r)

\* The account or the car that the row refers to does not exist (any more).
ForeignKeyFails(r) ==
    /\ Pushing(r)
    /\ ~ Skipped(r)
    /\ ~ Locked(r)
    /\ Seen(r, NextKey(r)) = NoRow /\ ~ ParentsExist(r, NextItem(r))
    /\ Doom(r)

WaitsFor(r, q) ==
    /\ r # q
    /\ Pushing(r)
    /\ ~ Skipped(r)
    /\ NextKey(r) \in held[q]

Deadlocked(r) ==
    \E S \in SUBSET Requests :
        /\ r \in S
        /\ \A a \in S : \E b \in S : WaitsFor(a, b)
        /\ \A b \in S : \E a \in S : WaitsFor(a, b)

\* Postgres ends one transaction of a cycle of waiting ones.
DeadlockVictim(r) == Deadlocked(r) /\ Doom(r)

\* Mutant: the failed statement is logged and COMMIT still succeeds.
AtCommitAnyway(r) == pc[r] = "doomed" \/ (pc[r] = "push" /\ pos[r] > Len(push[r]))

AtCommit(r) == pc[r] = "push" /\ pos[r] > Len(push[r])

StoreWrites(r) ==
    /\ db' = [k \in Key |-> Seen(r, k)]
    /\ UNCHANGED <<users, shares>>

Commit(r) ==
    /\ AtCommit(r)
    /\ StoreWrites(r)
    /\ pc' = [pc EXCEPT ![r] = "committed"]
    /\ held' = [held EXCEPT ![r] = {}]
    /\ tx' = [tx EXCEPT ![r] = NoWrites]
    /\ UNCHANGED <<user, push, pos, owned, access>>

\* COMMIT took effect and its answer was lost: 500 for changes that are stored.
CommitLost(r) ==
    /\ AtCommit(r)
    /\ StoreWrites(r)
    /\ Finish(r)

\* tx.Commit returns an error, after a failed statement or on its own.
CommitFails(r) ==
    /\ pc[r] = "doomed" \/ AtCommit(r)
    /\ Finish(r)
    /\ UNCHANGED store

\* The rest of the handler only reads rows and answers.
Respond(r) ==
    /\ pc[r] = "committed"
    /\ Finish(r)
    /\ UNCHANGED store

-----------------------------------------------------------------------------
(* The other handlers, as far as they touch these tables.                  *)

\* AcceptShare.  A share of one's own car changes nothing here.
Share(u, c) ==
    /\ u \in users
    /\ db[c] # NoRow
    /\ db[c].parent # u
    /\ shares' = shares \union {<<u, c>>}
    /\ UNCHANGED <<users, db, request>>

\* RevokeShare and LeaveShare.
Unshare(u, c) ==
    /\ shares' = shares \ {<<u, c>>}
    /\ UNCHANGED <<users, db, request>>

\* The rows that ON DELETE CASCADE removes with the account u.
Parentless(row, cars) == row # NoRow /\ row.parent \in cars
Doomed(u) ==
    LET cars == OwnedCars(u)
    IN cars \union {k \in Services : Parentless(db[k], cars)}
            \union {k \in Cars \X Users : k[1] \in cars \/ k[2] = u}

\* DELETE waits for the locks on the rows it removes and for the inserts that
\* refer to them.
Blocked(u) ==
    \E r \in Requests : \E k \in held[r] :
        \/ k \in Doomed(u)
        \/ tx[r][k] # NoRow /\ db[k] = NoRow
             /\ tx[r][k].parent \in OwnedCars(u) \union {u}

DeleteMe(u) ==
    /\ u \in users
    /\ ~ Blocked(u)
    /\ users' = users \ {u}
    /\ db' = [k \in Key |-> IF k \in Doomed(u) THEN NoRow ELSE db[k]]
    /\ shares' = {s \in shares : s[1] # u /\ s[2] \notin OwnedCars(u)}
    /\ UNCHANGED request

-----------------------------------------------------------------------------

Handle(r) ==
    \/ ReadOwned(r) \/ ReadAccessible(r) \/ ReadFails(r)
    \/ SkipItem(r) \/ UpsertItem(r)
    \/ StatementFails(r) \/ ForeignKeyFails(r) \/ DeadlockVictim(r)
    \/ Commit(r) \/ CommitLost(r) \/ CommitFails(r) \/ Respond(r)

Next ==
    \/ \E r \in Requests, u \in Users, p \in Pushes : Receive(r, u, p)
    \/ \E r \in Requests : Handle(r)
    \/ \E u \in Users, c \in Cars : Share(u, c) \/ Unshare(u, c)
    \/ \E u \in Users : DeleteMe(u)

Spec == Init /\ [][Next]_vars

(***************************************************************************)
(* A handler whose next step is possible takes it; failures need not       *)
(* happen.  Postgres queues the transactions that wait for a row in order, *)
(* so one that waits gets its turn (SF), and it looks for deadlocks after  *)
(* deadlock_timeout (WF).                                                  *)
(***************************************************************************)
Proceeds(r) ==
    ReadOwned(r) \/ ReadAccessible(r) \/ SkipItem(r) \/ Respond(r) \/ CommitFails(r)
      \/ Commit(r)

Fairness ==
    \A r \in Requests :
        /\ WF_vars(Proceeds(r))
        /\ SF_vars(UpsertItem(r) \/ ForeignKeyFails(r))
        /\ WF_vars(DeadlockVictim(r))

FairSpec == Spec /\ Fairness

-----------------------------------------------------------------------------
(* Properties.                                                             *)

Committed(r) == pc[r] # "committed" /\ pc'[r] = "committed"

\* Pushes take effect one after the other, each at once, newest updated_at
\* wins: the abstract store, with the batches a request can amount to.
Writes(u, p, mine, cars) ==
    {Write(u, p[n], mine) : n \in {m \in 1 .. Len(p) : Accepted(p[m], cars)}}

Batches ==
    {Writes(u, p, mine, cars) :
        u \in Users, p \in Pushes, mine \in SUBSET Cars, cars \in SUBSET Cars}

Lww == INSTANCE LwwStore WITH store <- db

PushesAreSerial == Lww!Spec

\* In the middle of a push, what its transaction sees of a row is the committed
\* row, as it is now and not as it was when the push began, merged with exactly
\* the items upserted so far; their rows are locked, by no other request.
Done(r) ==
    {Write(user[r], push[r][n], owned[r]) :
        n \in {m \in 1 .. pos[r] - 1 : Accepted(push[r][m], access[r])}}

LocksExclude == \A r, q \in Requests : r # q => held[r] \intersect held[q] = {}

OnlyLockedWritten ==
    \A r \in Requests :
        /\ pc[r] # "push" => held[r] = {}
        /\ \A k \in Key \ held[r] : tx[r][k] = NoRow

MergedSoFar(r) ==
    pc[r] = "push" =>
        /\ \A w \in Done(r) : w.key \in held[r]
        /\ \A k \in Key : Lww!Merges(db[k], Done(r), k, Seen(r, k))

Isolation ==
    /\ LocksExclude
    /\ OnlyLockedWritten
    /\ \A r \in Requests : MergedSoFar(r)

\* A push that is answered with 200 has lost nothing: for every item of it that
\* was not skipped, the row stored is that new or newer, whatever the other
\* requests did since the item's own statement (sync.go, 74-135).
AckedPushStored ==
    [][\A r \in Requests : Committed(r) =>
         \A n \in 1 .. Len(push[r]) :
           LET i == push[r][n] IN
           Accepted(i, access[r]) =>
             /\ db'[RowKey(user[r], i)] # NoRow
             /\ i.at <= db'[RowKey(user[r], i)].at]_vars

\* The stored row of a synced row never goes back (store/postgres/cars.go, 19).
RowsOnlyGetNewer == Lww!NewestWins

\* Every sync request is answered: handlers that wait for each other's rows do
\* not wait for ever.
EveryRequestAnswered == \A r \in Requests : pc[r] # "idle" ~> pc[r] = "idle"

\* "Cars: only owners can upsert" (sync.go, 75): the push of someone a car is
\* shared with leaves the car as it is.
OnlyOwnersUpsertCars ==
    [][\A r \in Requests, c \in Cars :
         Committed(r) /\ db[c] # NoRow /\ <<user[r], c>> \in shares
           => db'[c] = db[c]]_vars
=============================================================================
