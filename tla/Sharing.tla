------------------------------ MODULE Sharing -------------------------------
(***************************************************************************)
(* Car sharing (internal/handler/sharing.go) with the accounts it depends  *)
(* on.  Every handler first reads the car or the share and checks it, then *)
(* writes with one statement that does not repeat the check, so calls      *)
(* interleave between the two.  A foreign key or a unique key may still    *)
(* refuse the write.                                                       *)
(*                                                                         *)
(* An account is the n-th one registered with an e-mail address: deleting  *)
(* an account and logging in again gives a new id.  (car, e-mail) is       *)
(* unique in car_shares, and a row leaves only with its car, so the id of  *)
(* a share is its car, its e-mail and who shared it.                       *)
(***************************************************************************)
EXTENDS Naturals

CONSTANTS
    Emails, Cars,
    Calls,                   \* slots for handlers in progress
    MaxAccounts,             \* bound: accounts registered per address
    NoAccount, NoShare

Account == Emails \X (Nat \ {0})
Status == {"pending", "accepted", "declined", "revoked"}
Share == [by : Account, with : Account \union {NoAccount}, status : Status]

ASSUME SharingAssumption ==
    /\ MaxAccounts \in Nat
    /\ NoAccount \notin Account
    /\ NoShare \notin Share \union (Cars \X Emails \X Account)

VARIABLES
    gen,          \* how many accounts an address has had
    accounts,     \* those that exist
    owner,        \* cars.owner_id
    shares,       \* car_shares, by car and invited_email
    pc,           \* of a handler: what it is about to do
    caller,       \* the account in its access token
    target,       \* the share it is about: <<car, address, who shared it>>
    invitee       \* the account it has found for the invited address

tables == <<gen, accounts, owner, shares>>
calls == <<pc, caller, target, invitee>>
vars == <<tables, calls>>

Steps == {"idle", "invitee", "insert", "revoke", "accept", "decline"}

\* Every variable has its type.
TypeOK ==
    /\ gen \in [Emails -> Nat]
    /\ accounts \subseteq Account
    /\ owner \in [Cars -> Account \union {NoAccount}]
    /\ shares \in [Cars \X Emails -> Share \union {NoShare}]
    /\ pc \in [Calls -> Steps]
    /\ caller \in [Calls -> Account \union {NoAccount}]
    /\ target \in [Calls -> (Cars \X Emails \X Account) \union {NoShare}]
    /\ invitee \in [Calls -> Account \union {NoAccount}]
    /\ \A h \in Calls :
         pc[h] # "idle" => caller[h] \in Account /\ target[h] # NoShare

Init ==
    /\ gen = [e \in Emails |-> 0]
    /\ accounts = {}
    /\ owner = [c \in Cars |-> NoAccount]
    /\ shares = [s \in Cars \X Emails |-> NoShare]
    /\ pc = [h \in Calls |-> "idle"]
    /\ caller = [h \in Calls |-> NoAccount]
    /\ target = [h \in Calls |-> NoShare]
    /\ invitee = [h \in Calls |-> NoAccount]

-----------------------------------------------------------------------------
(* Accounts and cars.                                                      *)

\* GetOrCreateUser, at the first login with an address.
Register(e) ==
    /\ gen[e] < MaxAccounts
    /\ <<e, gen[e]>> \notin accounts
    /\ gen' = [gen EXCEPT ![e] = @ + 1]
    /\ accounts' = accounts \union {<<e, gen[e] + 1>>}
    /\ UNCHANGED <<owner, shares, calls>>

\* A sync pushes a new car.
NewCar(a, c) ==
    /\ a \in accounts
    /\ owner[c] = NoAccount
    /\ owner' = [owner EXCEPT ![c] = a]
    /\ UNCHANGED <<gen, accounts, shares, calls>>

\* ON DELETE CASCADE of shared_by_id, ON DELETE SET NULL of shared_with_id.
AfterDeletion(row, a) ==
    IF row = NoShare \/ row.by = a THEN NoShare
    ELSE IF row.with = a THEN [row EXCEPT !.with = NoAccount]
    ELSE row

\* DELETE FROM users; the shares of its cars go with the cars.
DeleteMe(a) ==
    /\ a \in accounts
    /\ accounts' = accounts \ {a}
    /\ owner' = [c \in Cars |-> IF owner[c] = a THEN NoAccount ELSE owner[c]]
    /\ shares' = [s \in Cars \X Emails |->
                    IF owner[s[1]] = a THEN NoShare ELSE AfterDeletion(shares[s], a)]
    /\ UNCHANGED <<gen, calls>>

-----------------------------------------------------------------------------
(* First half of a handler: read and check.  The account of an access      *)
(* token may have been deleted since it was issued.                        *)

\* Mutant: the route is not behind the auth middleware, and nobody is the caller.
BeginAnonymous(h, a, c, e, b, step) ==
    /\ pc[h] = "idle"
    /\ pc' = [pc EXCEPT ![h] = step]
    /\ target' = [target EXCEPT ![h] = <<c, e, b>>]
    /\ UNCHANGED <<tables, caller, invitee>>

Begin(h, a, c, e, b, step) ==
    /\ pc[h] = "idle"
    /\ pc' = [pc EXCEPT ![h] = step]
    /\ caller' = [caller EXCEPT ![h] = a]
    /\ target' = [target EXCEPT ![h] = <<c, e, b>>]
    /\ UNCHANGED <<tables, invitee>>

CreateShare(h, a, c, e) == owner[c] = a /\ Begin(h, a, c, e, a, "invitee")

\* An error of the query is dropped, and the account counts as one not found.
ReadInvitee(h) ==
    /\ pc[h] = "invitee"
    /\ pc' = [pc EXCEPT ![h] = "insert"]
    /\ \E found \in {NoAccount} \union {a \in accounts : a[1] = target[h][2]} :
         invitee' = [invitee EXCEPT ![h] = found]
    /\ UNCHANGED <<tables, caller, target>>

\* The car is looked at, and the share is found by its id alone.
RevokeShare(h, a, c, s) ==
    /\ owner[c] = a
    /\ shares[s] # NoShare
    /\ Begin(h, a, s[1], s[2], shares[s].by, "revoke")

\* A share is answered by whoever logged in with the invited address.
Answer(h, a, c, step) ==
    /\ shares[<<c, a[1]>>] # NoShare
    /\ Begin(h, a, c, a[1], shares[<<c, a[1]>>].by, step)

\* Mutant: a share that was declined or revoked can be accepted too.
MayAcceptAny(row) == row # NoShare /\ row.status # "accepted"

MayAccept(row) == row # NoShare /\ row.status = "pending"

AcceptShare(h, a, c) == MayAccept(shares[<<c, a[1]>>]) /\ Answer(h, a, c, "accept")

DeclineShare(h, a, c) == Answer(h, a, c, "decline")

LeaveShare(h, a, c) ==
    /\ shares[<<c, a[1]>>] # NoShare /\ shares[<<c, a[1]>>].status = "accepted"
    /\ Answer(h, a, c, "decline")

-----------------------------------------------------------------------------
(* Second half: the write.                                                 *)

Finish(h) ==
    /\ pc' = [pc EXCEPT ![h] = "idle"]
    /\ caller' = [caller EXCEPT ![h] = NoAccount]
    /\ target' = [target EXCEPT ![h] = NoShare]
    /\ invitee' = [invitee EXCEPT ![h] = NoAccount]

\* The statement is refused by a key, or fails: an error, and nothing is written.
Fails(h) == pc[h] # "idle" /\ Finish(h) /\ UNCHANGED tables

\* Mutant: foreign keys of car_shares are not enforced.
ParentsUnchecked(h) == TRUE

ParentsExist(h) ==
    /\ owner[target[h][1]] # NoAccount
    /\ caller[h] \in accounts
    /\ invitee[h] \in accounts \union {NoAccount}

Row(h) == <<target[h][1], target[h][2]>>

Insert(h) ==
    /\ pc[h] = "insert"
    /\ shares[Row(h)] = NoShare
    /\ ParentsExist(h)
    /\ shares' = [shares EXCEPT ![Row(h)] =
                    [by |-> caller[h], with |-> invitee[h], status |-> "pending"]]
    /\ Finish(h)
    /\ UNCHANGED <<gen, accounts, owner>>

\* UpdateShareStatus: WHERE id, and COALESCE keeps shared_with_id.
UpdateShareStatus(h, status, with) ==
    LET row == shares[Row(h)]
    IN shares' =
         IF row # NoShare /\ row.by = target[h][3]
         THEN [shares EXCEPT ![Row(h)] =
                 [by |-> row.by, status |-> status,
                  with |-> IF with = NoAccount THEN row.with ELSE with]]
         ELSE shares

\* Mutant: accepting does not store who accepted.
UpdateNoInvitee(h) ==
    /\ \/ pc[h] = "revoke" /\ UpdateShareStatus(h, "revoked", NoAccount)
       \/ pc[h] = "decline" /\ UpdateShareStatus(h, "declined", NoAccount)
       \/ pc[h] = "accept" /\ UpdateShareStatus(h, "accepted", NoAccount)
    /\ Finish(h)
    /\ UNCHANGED <<gen, accounts, owner>>

Update(h) ==
    /\ \/ pc[h] = "revoke" /\ UpdateShareStatus(h, "revoked", NoAccount)
       \/ pc[h] = "decline" /\ UpdateShareStatus(h, "declined", NoAccount)
       \/ pc[h] = "accept" /\ caller[h] \in accounts
            /\ UpdateShareStatus(h, "accepted", caller[h])
    /\ Finish(h)
    /\ UNCHANGED <<gen, accounts, owner>>

-----------------------------------------------------------------------------
(* What the lists show: of the handlers, and of the answer of every sync.  *)

Stored == {s \in Cars \X Emails : shares[s] # NoShare}

GetAccessibleCarIDs(a) ==
    {c \in Cars : owner[c] = a} \union
    {s[1] : s \in {t \in Stored : shares[t].with = a /\ shares[t].status = "accepted"}}

\* GetSharesForCar, for the owner only.
ListShares(a, c) == {s \in Stored : s[1] = c /\ owner[c] = a}

GetSharesOwnedByUser(a) == {s \in Stored : owner[s[1]] = a}

GetSharesReceivedByUser(a) == {s \in Stored : shares[s].with = a}

GetPendingSharesForEmail(e) == {s \in Stored : s[2] = e /\ shares[s].status = "pending"}

\* Mutant: the app looks only for invitations to answer.
ReceivedPending(e) == GetPendingSharesForEmail(e)

\* The join with users leaves out a share whose owner is gone.
GetReceivedSharesForEmail(e) ==
    {s \in Stored :
       s[2] = e /\ shares[s].by \in accounts /\ shares[s].status \in {"pending", "accepted"}}

-----------------------------------------------------------------------------

StartCall(h, a) ==
    \E c \in Cars :
        \/ \E e \in Emails : CreateShare(h, a, c, e)
        \/ \E s \in Cars \X Emails : RevokeShare(h, a, c, s)
        \/ AcceptShare(h, a, c) \/ DeclineShare(h, a, c) \/ LeaveShare(h, a, c)

Next ==
    \/ \E e \in Emails : Register(e)
    \/ \E a \in accounts, c \in Cars : NewCar(a, c)
    \/ \E a \in accounts : DeleteMe(a)
    \/ \E h \in Calls : \E e \in Emails : \E n \in 1 .. gen[e] : StartCall(h, <<e, n>>)
    \/ \E h \in Calls : ReadInvitee(h) \/ Insert(h) \/ Update(h) \/ Fails(h)

Spec == Init /\ [][Next]_vars

-----------------------------------------------------------------------------
(* Properties.                                                             *)

\* Whoever can use a car is an account that exists, and either owns it or
\* belongs to the address that the present owner invited (sharing.go, 57-76,
\* 248-274), although the handlers check one call and write in another.
AccessOnlyToInvited ==
    \A c \in Cars, e \in Emails :
        LET row == shares[<<c, e>>] IN
        row # NoShare =>
            /\ row.by = owner[c] /\ row.by \in accounts
            /\ row.with # NoAccount => row.with \in accounts /\ row.with[1] = e

\* Whoever can use somebody else's car finds the share in the received ones and in
\* each sync, and the car's owner in theirs, so that either can end it: the lists
\* ask by address, by account and by owner, and agree although addresses change
\* accounts and cars change hands (store/postgres/shares.go, 49-168).
AccessIsVisible ==
    \A a \in accounts : \A c \in GetAccessibleCarIDs(a) :
        owner[c] # a =>
            \E s \in GetReceivedSharesForEmail(a[1]) \intersect GetSharesReceivedByUser(a)
                   \intersect ListShares(owner[c], c) \intersect GetSharesOwnedByUser(owner[c]) :
                s[1] = c /\ shares[s].status = "accepted"

\* A call that has found the share pending and will accept it.
Accepting(c, e) ==
    \E h \in Calls : pc[h] = "accept" /\ target[h] = <<c, e, shares[<<c, e>>].by>>

Settled(c, e) ==
    /\ shares[<<c, e>>] # NoShare
    /\ shares[<<c, e>>].status \in {"declined", "revoked"}
    /\ ~ Accepting(c, e)

\* A share that has been revoked or declined, with no accept on its way that had
\* found it pending, is not accepted any more (sharing.go, 263).
SettledStaysSettled ==
    [][\A c \in Cars, e \in Emails :
         Settled(c, e) => Settled(c, e)' \/ shares'[<<c, e>>] = NoShare]_vars

\* An accepted share without an account.
Stranded(c, e) ==
    LET row == shares[<<c, e>>]
    IN row # NoShare /\ row.status = "accepted" /\ row.with = NoAccount

Ended(c, e) ==
    \/ shares[<<c, e>>] = NoShare
    \/ shares[<<c, e>>].status \in {"declined", "revoked"}

\* An accepted share is left without an account only by the deletion of the account
\* that had it, and then gives access to nobody, not even to the next account of its
\* address or by an accept on its way, until it is ended (sharing.go, 263-268;
\* store/postgres/shares.go, 116; 001_initial.up.sql, 107).
StrandedOnlyByDeletion ==
    [][\A c \in Cars, e \in Emails :
         /\ Stranded(c, e)' =>
              \/ Stranded(c, e)
              \/ /\ shares[<<c, e>>] # NoShare
                 /\ shares[<<c, e>>].status = "accepted"
                 /\ shares[<<c, e>>].with \in accounts \ accounts'
         /\ Stranded(c, e) => Stranded(c, e)' \/ Ended(c, e)']_vars

\* "share is not pending" (sharing.go, 264): only a pending share is accepted.
OnlyPendingIsAccepted ==
    [][\A c \in Cars, e \in Emails :
         LET old == shares[<<c, e>>]
             new == shares'[<<c, e>>]
         IN old # NoShare /\ new # NoShare /\ old.status \in {"declined", "revoked"}
              => new.status # "accepted"]_vars
=============================================================================
