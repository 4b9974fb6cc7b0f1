------------------------------- MODULE Notify -------------------------------
(***************************************************************************)
(* Background pushes after a sync (internal/handler/sync.go, 137-153 and   *)
(* 249-290): when a push to the store has been committed, a goroutine is   *)
(* started, if a slot of the semaphore is free, that tells the devices of  *)
(* the other users of the changed cars to sync.  It reads the users, then  *)
(* their registrations, then sends one push after the other, and a token   *)
(* that APNs calls dead is deleted.  Shares, registrations and accounts    *)
(* change in between.                                                      *)
(*                                                                         *)
(* A registration is a row of device_tokens, at most one for each user and *)
(* device; several users may register the same device and the same token. *)
(* What a push says is always the same and is left out, and so is the log  *)
(* of pushes, which nothing but the admin page reads.                      *)
(***************************************************************************)
EXTENDS Naturals, FiniteSets

CONSTANTS
    Users, Devices, Tokens, Cars,
    OwnerOf,               \* owner_id of the cars: never updated
    Jobs,                  \* names for goroutines, as many as there can be
    Slots,                 \* capacity of the semaphore, 10 in the code
    None

ASSUME NotifyAssumption ==
    /\ OwnerOf \in [Cars -> Users]
    /\ Slots \in Nat
    /\ IsFiniteSet(Jobs)
    /\ None \notin Users \union Devices \union Tokens \union (Users \X Devices \X Tokens)

VARIABLES
    accounts,     \* the users
    sharers,      \* of a car: the users with an accepted share
    regs,         \* device_tokens: the token of a user's device
    apns,         \* whether a client for APNs has been configured
    sem,          \* number of slots in use
    pc,           \* of a job: what it is about to do
    sender, from, changed,   \* of a job: user and device that pushed, cars
    users,        \* of a job: the users it has read
    queue,        \* of a job: the registrations it has yet to notify
    refused,      \* of a job: the registration whose token APNs has just refused
    sent,         \* history, of a job: the registrations it has notified
    due,          \* history, of a job: those in force ever since it started
    hadAccess, wasRegistered, \* history, of a job: users and rows seen since then
    rejected      \* history: the tokens that APNs has refused

db == <<accounts, sharers, regs>>
job == <<pc, sender, from, changed, users, queue, refused, sent>>
history == <<due, hadAccess, wasRegistered>>
vars == <<db, apns, sem, job, history, rejected>>

Row == Users \X Devices \X Tokens

\* The variables have their types, and the semaphore counts the jobs.
TypeOK ==
    /\ accounts \subseteq Users
    /\ sharers \in [Cars -> SUBSET Users]
    /\ regs \in [Users \X Devices -> Tokens \union {None}]
    /\ apns \in BOOLEAN
    /\ sem \in 0..Slots
    /\ pc \in [Jobs -> {"none", "users", "devices", "send", "cleanup", "failed", "over"}]
    /\ sender \in [Jobs -> Users \union {None}]
    /\ from \in [Jobs -> Devices \union {None}]
    /\ changed \in [Jobs -> SUBSET Cars]
    /\ users \in [Jobs -> SUBSET Users]
    /\ queue \in [Jobs -> SUBSET Row]
    /\ refused \in [Jobs -> Row \union {None}]
    /\ sent \in [Jobs -> SUBSET Row]
    /\ due \in [Jobs -> SUBSET Row]
    /\ hadAccess \in [Jobs -> SUBSET Users]
    /\ wasRegistered \in [Jobs -> SUBSET Row]
    /\ rejected \subseteq Tokens

Running == {j \in Jobs : pc[j] # "none"}

-----------------------------------------------------------------------------
(* The queries.                                                            *)

Rows == {<<x[1], x[2], regs[x]>> : x \in {y \in Users \X Devices : regs[y] # None}}

\* Mutant: the users with a share only.
OnlySharers(C, u) == UNION {sharers[c] : c \in C} \ {u}

\* Owners and accepted sharers, but not the user who pushed.  A car goes with
\* its owner.
GetUsersWithAccessToCars(C, u) ==
    (({OwnerOf[c] : c \in C} \intersect accounts) \union UNION {sharers[c] : c \in C}) \ {u}

\* Mutant: the device that pushed is not excluded.
AllDeviceTokens(U, d) == {r \in Rows : r[1] \in U}

GetDeviceTokensForUsers(U, d) == {r \in Rows : r[1] \in U /\ r[2] # d}

-----------------------------------------------------------------------------
(* Who should hear of a job's push, for the history variables.             *)

MayHear(u, j) ==
    /\ u # sender'[j]
    /\ \E c \in changed'[j] : u \in sharers'[c] \/ (u = OwnerOf[c] /\ u \in accounts')

InForce(j) == {r \in Rows' : MayHear(r[1], j) /\ r[2] # from'[j]}

\* The history goes with every step, as long as the job may still send: j's
\* begins anew when started = {j}.
Record(started) ==
    LET working(j) == pc'[j] \in {"users", "devices", "send", "cleanup"}
    IN /\ due' = [j \in Jobs |->
                    IF pc'[j] \in {"none", "failed"} THEN {}
                    ELSE IF j \in started THEN InForce(j)
                    ELSE IF due[j] = {} \/ ~working(j) THEN due[j]
                    ELSE due[j] \intersect InForce(j)]
       /\ hadAccess' = [j \in Jobs |->
                    IF pc'[j] \in {"none", "failed"} THEN {}
                    ELSE IF ~working(j) THEN hadAccess[j]
                    ELSE hadAccess[j] \union {u \in Users : MayHear(u, j)}]
       /\ wasRegistered' = [j \in Jobs |->
                    IF pc'[j] \in {"none", "failed"} THEN {}
                    ELSE IF ~working(j) THEN wasRegistered[j]
                    ELSE wasRegistered[j] \union
                         {r \in Rows' : r[1] # sender'[j] /\ r[2] # from'[j]}]

Init ==
    /\ accounts = Users
    /\ sharers = [c \in Cars |-> {}]
    /\ regs = [x \in Users \X Devices |-> None]
    /\ apns = FALSE
    /\ sem = 0
    /\ pc = [j \in Jobs |-> "none"]
    /\ sender = [j \in Jobs |-> None]
    /\ from = [j \in Jobs |-> None]
    /\ changed = [j \in Jobs |-> {}]
    /\ users = [j \in Jobs |-> {}]
    /\ queue = [j \in Jobs |-> {}]
    /\ refused = [j \in Jobs |-> None]
    /\ sent = [j \in Jobs |-> {}]
    /\ due = [j \in Jobs |-> {}]
    /\ hadAccess = [j \in Jobs |-> {}]
    /\ wasRegistered = [j \in Jobs |-> {}]
    /\ rejected = {}

-----------------------------------------------------------------------------
(* Shares, registrations, accounts, and the client.                        *)

AcceptShare(u, c) ==
    /\ {u, OwnerOf[c]} \subseteq accounts
    /\ u \notin {OwnerOf[c]} \union sharers[c]
    /\ sharers' = [sharers EXCEPT ![c] = @ \union {u}]
    /\ UNCHANGED <<accounts, regs, apns, sem, job, rejected>>
    /\ Record({})

\* Revoked by the owner, or left.
EndShare(u, c) ==
    /\ u \in sharers[c]
    /\ sharers' = [sharers EXCEPT ![c] = @ \ {u}]
    /\ UNCHANGED <<accounts, regs, apns, sem, job, rejected>>
    /\ Record({})

\* An upsert: the row keeps its key and gets another token.
RegisterDevice(u, d, t) ==
    /\ u \in accounts
    /\ regs[<<u, d>>] # t
    /\ regs' = [regs EXCEPT ![<<u, d>>] = t]
    /\ UNCHANGED <<accounts, sharers, apns, sem, job, rejected>>
    /\ Record({})

\* Without a device_id, all devices of the user.
UnregisterDevice(u, D) ==
    /\ \E d \in D : regs[<<u, d>>] # None
    /\ regs' = [x \in Users \X Devices |-> IF x[1] = u /\ x[2] \in D THEN None ELSE regs[x]]
    /\ UNCHANGED <<accounts, sharers, apns, sem, job, rejected>>
    /\ Record({})

\* The user's cars go, with their shares, and so do the user's registrations;
\* a share the user has accepted loses its shared_with_id.
DeleteMe(u) ==
    /\ u \in accounts
    /\ accounts' = accounts \ {u}
    /\ sharers' = [c \in Cars |-> IF OwnerOf[c] = u THEN {} ELSE sharers[c] \ {u}]
    /\ regs' = [x \in Users \X Devices |-> IF x[1] = u THEN None ELSE regs[x]]
    /\ UNCHANGED <<apns, sem, job, rejected>>
    /\ Record({})

\* None is ever taken away; that another one replaces it changes nothing here.
ReloadAPNs ==
    /\ ~apns
    /\ apns' = TRUE
    /\ UNCHANGED <<db, sem, job, rejected>>
    /\ Record({})

-----------------------------------------------------------------------------
(* A commit, and the job it starts.                                        *)

\* A sync has committed changes of the cars C.  Whoever pushes a car is not asked
\* whose it is, and by now shares and accounts may be gone: the sender may be any
\* user, and only an empty C starts nothing.  (A car that is gone is made anew for
\* its sender.  Until it is shared again, which is left out, that is for the others
\* the same as a car without an owner.)
Committed(C) == C # {}

\* Mutant: the semaphore is not asked.
StartAnyJob(j, u, d, C) ==
    /\ Committed(C)
    /\ apns
    /\ pc[j] = "none"
    /\ sem' = sem + 1
    /\ pc' = [pc EXCEPT ![j] = "users"]
    /\ sender' = [sender EXCEPT ![j] = u]
    /\ from' = [from EXCEPT ![j] = d]
    /\ changed' = [changed EXCEPT ![j] = C]
    /\ UNCHANGED <<db, apns, users, queue, refused, sent, rejected>>
    /\ Record({j})

StartJob(j, u, d, C) ==
    /\ Committed(C)
    /\ apns
    /\ pc[j] = "none"
    /\ sem < Slots
    /\ sem' = sem + 1
    /\ pc' = [pc EXCEPT ![j] = "users"]
    /\ sender' = [sender EXCEPT ![j] = u]
    /\ from' = [from EXCEPT ![j] = d]
    /\ changed' = [changed EXCEPT ![j] = C]
    /\ UNCHANGED <<db, apns, users, queue, refused, sent, rejected>>
    /\ Record({j})

\* No client, or no free slot: the push is not sent, then or later.
SkipJob(C) ==
    /\ Committed(C)
    /\ ~apns \/ sem = Slots
    /\ UNCHANGED vars

ReadUsers(j) ==
    LET U == GetUsersWithAccessToCars(changed[j], sender[j])
    IN /\ pc[j] = "users"
       /\ pc' = [pc EXCEPT ![j] = IF U = {} THEN "over" ELSE "devices"]
       /\ users' = [users EXCEPT ![j] = U]
       /\ UNCHANGED <<db, apns, sem, sender, from, changed, queue, refused, sent, rejected>>
       /\ Record({})

ReadDevices(j) ==
    /\ pc[j] = "devices"
    /\ pc' = [pc EXCEPT ![j] = "send"]
    /\ queue' = [queue EXCEPT ![j] = GetDeviceTokensForUsers(users[j], from[j])]
    /\ UNCHANGED <<db, apns, sem, sender, from, changed, users, refused, sent, rejected>>
    /\ Record({})

\* A failed query, or one after the job's 30 seconds: nobody is told.
ReadFails(j) ==
    /\ pc[j] \in {"users", "devices"}
    /\ pc' = [pc EXCEPT ![j] = "failed"]
    /\ UNCHANGED <<db, apns, sem, sender, from, changed, users, queue, refused, sent, rejected>>
    /\ Record({})

\* SendBackground: sent, or, when the answer is another error, counted as sent.
Send(j, r) ==
    /\ pc[j] = "send"
    /\ r \in queue[j]
    /\ queue' = [queue EXCEPT ![j] = @ \ {r}]
    /\ sent' = [sent EXCEPT ![j] = @ \union {r}]
    /\ UNCHANGED <<db, apns, sem, pc, sender, from, changed, users, refused, rejected>>
    /\ Record({})

\* SendBackground: 410, or 400 with BadDeviceToken or Unregistered.
SendRefused(j, r) ==
    /\ pc[j] = "send"
    /\ r \in queue[j]
    /\ pc' = [pc EXCEPT ![j] = "cleanup"]
    /\ queue' = [queue EXCEPT ![j] = @ \ {r}]
    /\ refused' = [refused EXCEPT ![j] = r]
    /\ sent' = [sent EXCEPT ![j] = @ \union {r}]
    /\ rejected' = rejected \union {r[3]}
    /\ UNCHANGED <<db, apns, sem, sender, from, changed, users>>
    /\ Record({})

\* Mutant: the registration that was refused is deleted, whatever it says now.
DeleteDeviceToken(r) == [regs EXCEPT ![<<r[1], r[2]>>] = None]

\* Every row with the token, whoever registered it.
DeleteDeviceTokenByToken(r) ==
    [x \in Users \X Devices |-> IF regs[x] = r[3] THEN None ELSE regs[x]]

\* The delete may fail: the token is then kept until a push is refused again.
Cleanup(j) ==
    /\ pc[j] = "cleanup"
    /\ pc' = [pc EXCEPT ![j] = "send"]
    /\ refused' = [refused EXCEPT ![j] = None]
    /\ regs' \in {regs, DeleteDeviceTokenByToken(refused[j])}
    /\ UNCHANGED <<accounts, sharers, apns, sem, sender, from, changed, users,
                   queue, sent, rejected>>
    /\ Record({})

Finish(j) ==
    /\ pc[j] = "send"
    /\ queue[j] = {}
    /\ pc' = [pc EXCEPT ![j] = "over"]
    /\ UNCHANGED <<db, apns, sem, sender, from, changed, users, queue, refused, sent, rejected>>
    /\ Record({})

\* Mutant: the slot is given back at the end of the function, not deferred, so
\* that a job which fails keeps it.
ReleaseAtEnd(j) ==
    /\ pc[j] \in {"over", "failed"}
    /\ sem > 0
    /\ sem' = IF pc[j] = "over" THEN sem - 1 ELSE sem
    /\ pc' = [pc EXCEPT ![j] = "none"]
    /\ sent' = [sent EXCEPT ![j] = {}]
    /\ UNCHANGED <<db, apns, sender, from, changed, users, queue, refused, rejected>>
    /\ Record({})

\* The deferred receive from the semaphore; from an empty one it would block.
Release(j) ==
    /\ pc[j] \in {"over", "failed"}
    /\ sem > 0
    /\ sem' = sem - 1
    /\ pc' = [pc EXCEPT ![j] = "none"]
    /\ sender' = [sender EXCEPT ![j] = None]
    /\ from' = [from EXCEPT ![j] = None]
    /\ changed' = [changed EXCEPT ![j] = {}]
    /\ users' = [users EXCEPT ![j] = {}]
    /\ sent' = [sent EXCEPT ![j] = {}]
    /\ UNCHANGED <<db, apns, queue, refused, rejected>>
    /\ Record({})

-----------------------------------------------------------------------------

\* The process ends and starts again: nothing waits for its goroutines, and the
\* rest of their pushes is not sent by anybody.  A client comes with the stored
\* configuration, when it can be read.
Restart ==
    /\ apns' \in BOOLEAN
    /\ sem' = 0
    /\ pc' = [j \in Jobs |-> "none"]
    /\ sender' = [j \in Jobs |-> None]
    /\ from' = [j \in Jobs |-> None]
    /\ changed' = [j \in Jobs |-> {}]
    /\ users' = [j \in Jobs |-> {}]
    /\ queue' = [j \in Jobs |-> {}]
    /\ refused' = [j \in Jobs |-> None]
    /\ sent' = [j \in Jobs |-> {}]
    /\ UNCHANGED <<db, rejected>>
    /\ Record({})

Step(j) ==
    \/ ReadUsers(j) \/ ReadDevices(j) \/ ReadFails(j)
    \/ \E r \in queue[j] : Send(j, r) \/ SendRefused(j, r)
    \/ Cleanup(j) \/ Finish(j) \/ Release(j)

Next ==
    \/ \E u \in Users, c \in Cars : AcceptShare(u, c) \/ EndShare(u, c)
    \/ \E u \in Users, d \in Devices, t \in Tokens : RegisterDevice(u, d, t)
    \/ \E u \in Users, D \in {Devices} \union {{d} : d \in Devices} : UnregisterDevice(u, D)
    \/ \E u \in Users : DeleteMe(u)
    \/ ReloadAPNs \/ Restart
    \/ \E j \in Jobs, u \in Users, d \in Devices, C \in SUBSET Cars : StartJob(j, u, d, C)
    \/ \E C \in SUBSET Cars : SkipJob(C)
    \/ \E j \in Jobs : Step(j)

\* A goroutine runs on: its queries end with its context, a request to APNs
\* after the client's 10 seconds.
Fairness == \A j \in Jobs : WF_vars(Step(j))

Spec == Init /\ [][Next]_vars
FairSpec == Spec /\ Fairness

-----------------------------------------------------------------------------
(* Properties.                                                             *)

\* Every slot of the semaphore that is in use belongs to a goroutine that is
\* still running (sync.go, 144-148).
SlotsAreHeld == sem = Cardinality(Running)

\* A job that ran to its end has notified every registration, of another device
\* of another user, that was in force from its start on, whatever shares,
\* registrations and accounts changed while it ran (sync.go, 249-286).
EveryoneElseIsTold ==
    \A j \in Jobs : pc[j] = "over" => due[j] \subseteq sent[j]

\* Only users who had access since the job started are notified, never the one
\* who pushed, and only at registrations that existed since then and are not of
\* the device that pushed (sync.go, 249-250).
NobodyElseIsTold ==
    \A j \in Jobs : \A r \in sent[j] : r[1] \in hadAccess[j] /\ r \in wasRegistered[j]

\* The clean-up of a refused token deletes no registration that has meanwhile
\* been renewed with another token (sync.go, 277-281).
RenewedIsKept ==
    [][\A j \in Jobs : pc[j] = "cleanup" /\ pc'[j] # "cleanup" =>
         \A x \in Users \X Devices : regs'[x] # regs[x] => regs[x] \in rejected]_vars

\* A full semaphore does not stay full: however the queries and sends of a job
\* end, its slot comes back (sync.go, 144-149).
SlotsComeBack == sem = Slots ~> sem < Slots
=============================================================================
