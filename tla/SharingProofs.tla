--------------------------- MODULE SharingProofs ----------------------------
(* What Sharing guarantees for any addresses, cars and calls in progress.    *)
EXTENDS Sharing, TLAPS

-----------------------------------------------------------------------------
(* Type correctness.                                                       *)

\* The initial state has the types.
LEMMA InitTyped == Init => TypeOK
BY DEF Init, TypeOK, Steps

\* The end of a handler keeps the types.
LEMMA FinishTyped ==
    ASSUME TypeOK, NEW h \in Calls, Finish(h), UNCHANGED <<gen, accounts, owner>>,
           shares' \in [Cars \X Emails -> Share \union {NoShare}]
    PROVE  TypeOK'
BY DEF TypeOK, Finish, Steps

\* The beginning of a handler keeps the types.
LEMMA BeginTyped ==
    ASSUME TypeOK, NEW h \in Calls, NEW a \in Account, NEW c \in Cars, NEW e \in Emails,
           NEW b \in Account, NEW step \in Steps, Begin(h, a, c, e, b, step)
    PROVE  TypeOK'
<1>1. <<c, e, b>> \in Cars \X Emails \X Account
    OBVIOUS
<1>2. <<c, e, b>> # NoShare
    BY SharingAssumption
<1> QED
    BY <1>1, <1>2 DEF TypeOK, Begin, tables

\* A stored share has an inviter.
LEMMA ShareTyped ==
    ASSUME TypeOK, NEW c \in Cars, NEW e \in Emails, shares[<<c, e>>] # NoShare
    PROVE  shares[<<c, e>>] \in Share /\ shares[<<c, e>>].by \in Account
BY DEF TypeOK, Share

\* An update of the status keeps the types of the shares.
LEMMA UpdateTyped ==
    ASSUME TypeOK, NEW h \in Calls, pc[h] # "idle",
           NEW status \in Status, NEW with \in Account \union {NoAccount},
           UpdateShareStatus(h, status, with)
    PROVE  shares' \in [Cars \X Emails -> Share \union {NoShare}]
<1>1. Row(h) \in Cars \X Emails
    BY DEF TypeOK, Row
<1> DEFINE row == shares[Row(h)]
<1>2. CASE row # NoShare /\ row.by = target[h][3]
  <2>1. row \in Share
      BY <1>1, <1>2 DEF TypeOK
  <2>2. [by |-> row.by, status |-> status,
         with |-> IF with = NoAccount THEN row.with ELSE with] \in Share
      BY <2>1 DEF Share
  <2> QED
      BY <1>1, <1>2, <2>2 DEF UpdateShareStatus, TypeOK
<1> QED
    BY <1>2 DEF UpdateShareStatus, TypeOK

\* What the deletion of an account makes of a share.
LEMMA AfterDeletionTyped ==
    ASSUME NEW row \in Share \union {NoShare}, NEW a
    PROVE  AfterDeletion(row, a) \in Share \union {NoShare}
BY DEF AfterDeletion, Share

\* Every step keeps the types.
LEMMA NextTyped == TypeOK /\ [Next]_vars => TypeOK'
<1> SUFFICES ASSUME TypeOK, [Next]_vars PROVE TypeOK'
    OBVIOUS
<1> USE DEF calls, tables
<1>1. ASSUME NEW e \in Emails, Register(e)
      PROVE  TypeOK'
  <2>1. gen[e] + 1 \in Nat \ {0}
      BY DEF TypeOK
  <2>2. <<e, gen[e] + 1>> \in Account
      BY <2>1 DEF Account
  <2> QED
      BY <1>1, <2>1, <2>2 DEF Register, TypeOK
<1>2. ASSUME NEW a \in accounts, NEW c \in Cars, NewCar(a, c)
      PROVE  TypeOK'
    BY <1>2 DEF NewCar, TypeOK
<1>3. ASSUME NEW a \in accounts, DeleteMe(a)
      PROVE  TypeOK'
  <2>1. shares' \in [Cars \X Emails -> Share \union {NoShare}]
      BY <1>3, AfterDeletionTyped DEF DeleteMe, TypeOK
  <2>2. owner' \in [Cars -> Account \union {NoAccount}]
      BY <1>3 DEF DeleteMe, TypeOK
  <2> QED
      BY <1>3, <2>1, <2>2 DEF DeleteMe, TypeOK
<1>4. ASSUME NEW h \in Calls, NEW e \in Emails, NEW n \in 1 .. gen[e], StartCall(h, <<e, n>>)
      PROVE  TypeOK'
  <2> DEFINE a == <<e, n>>
  <2>1. a \in Account /\ a[1] = e
      BY DEF Account, TypeOK
  <2> HIDE DEF a
  <2>2. ASSUME NEW c \in Cars, NEW f \in Emails, CreateShare(h, a, c, f)
        PROVE  TypeOK'
      BY <2>1, <2>2, BeginTyped DEF CreateShare, Steps
  <2>3. ASSUME NEW c \in Cars, NEW s \in Cars \X Emails, RevokeShare(h, a, c, s)
        PROVE  TypeOK'
    <3>1. s = <<s[1], s[2]>> /\ s[1] \in Cars /\ s[2] \in Emails
        OBVIOUS
    <3>2. shares[s].by \in Account
        BY <2>3, <3>1, ShareTyped DEF RevokeShare
    <3> QED
        BY <2>1, <2>3, <3>1, <3>2, BeginTyped DEF RevokeShare, Steps
  <2>4. ASSUME NEW c \in Cars, NEW step \in {"accept", "decline"}, Answer(h, a, c, step)
        PROVE  TypeOK'
    <3>1. shares[<<c, a[1]>>].by \in Account
        BY <2>1, <2>4, ShareTyped DEF Answer
    <3> QED
        BY <2>1, <2>4, <3>1, BeginTyped DEF Answer, Steps
  <2> QED
      BY <1>4, <2>2, <2>3, <2>4 DEF StartCall, AcceptShare, DeclineShare, LeaveShare, a
<1>5. ASSUME NEW h \in Calls, ReadInvitee(h)
      PROVE  TypeOK'
    BY <1>5 DEF ReadInvitee, TypeOK, Steps
<1>6. ASSUME NEW h \in Calls, Insert(h)
      PROVE  TypeOK'
  <2>1. Row(h) \in Cars \X Emails /\ caller[h] \in Account
      BY <1>6 DEF Insert, TypeOK, Row
  <2>2. [by |-> caller[h], with |-> invitee[h], status |-> "pending"] \in Share
      BY <2>1 DEF Share, Status, TypeOK
  <2>3. shares' \in [Cars \X Emails -> Share \union {NoShare}]
      BY <1>6, <2>1, <2>2 DEF Insert, TypeOK
  <2> QED
      BY <1>6, <2>3, FinishTyped DEF Insert
<1>7. ASSUME NEW h \in Calls, Update(h)
      PROVE  TypeOK'
  <2>1. pc[h] # "idle" /\ caller[h] \in Account
      BY <1>7 DEF Update, TypeOK
  <2>2. shares' \in [Cars \X Emails -> Share \union {NoShare}]
      BY <1>7, <2>1, UpdateTyped DEF Update, Status
  <2> QED
      BY <1>7, <2>2, FinishTyped DEF Update
<1>8. ASSUME NEW h \in Calls, Fails(h)
      PROVE  TypeOK'
  <2>1. shares' \in [Cars \X Emails -> Share \union {NoShare}]
      BY <1>8 DEF Fails, TypeOK
  <2> QED
      BY <1>8, <2>1, FinishTyped DEF Fails
<1>9. CASE UNCHANGED vars
    BY <1>9 DEF vars, TypeOK
<1> QED
    BY <1>1, <1>2, <1>3, <1>4, <1>5, <1>6, <1>7, <1>8, <1>9 DEF Next

\* Accounts, cars, shares and handlers have their types in every reachable state.
THEOREM TypeCorrect == Spec => []TypeOK
BY InitTyped, NextTyped, PTL DEF Spec

-----------------------------------------------------------------------------
(* The inductive invariant.                                                *)

\* At most one account of an address exists, the last one registered, and the
\* owner of a car is an account that exists.
AccountsCurrent ==
    /\ \A a \in accounts : a[2] = gen[a[1]]
    /\ \A c \in Cars : owner[c] # NoAccount => owner[c] \in accounts

\* What handlers rely on: the account of a call was registered once; while it
\* exists it owns the car it creates a share for; what is invited and what
\* accepts belongs to the address.
CallsCurrent ==
    \A h \in Calls :
        /\ pc[h] # "idle" => caller[h][2] <= gen[caller[h][1]]
        /\ pc[h] \in {"invitee", "insert"} /\ caller[h] \in accounts
             => owner[target[h][1]] = caller[h]
        /\ invitee[h] # NoAccount => pc[h] = "insert" /\ invitee[h][1] = target[h][2]
        /\ pc[h] = "accept" => caller[h][1] = target[h][2]

IInv == TypeOK /\ AccountsCurrent /\ CallsCurrent /\ AccessOnlyToInvited

\* Accounts and owners stay current.
LEMMA AccountsCurrentKept ==
    TypeOK /\ AccountsCurrent /\ [Next]_vars => AccountsCurrent'
<1> SUFFICES ASSUME TypeOK, AccountsCurrent, [Next]_vars PROVE AccountsCurrent'
    OBVIOUS
<1> USE DEF calls, tables
<1>1. ASSUME NEW e \in Emails, Register(e)
      PROVE  AccountsCurrent'
  <2>1. gen[e] \in Nat /\ \A a \in accounts : a \in Account
      BY DEF TypeOK
  <2>2. \A a \in accounts : a[1] # e
    <3> SUFFICES ASSUME NEW a \in accounts, a[1] = e PROVE FALSE
        OBVIOUS
    <3>1. a = <<e, gen[e]>>
        BY <2>1 DEF AccountsCurrent, Account
    <3> QED
        BY <1>1, <3>1 DEF Register
  <2> QED
      BY <1>1, <2>1, <2>2 DEF Register, AccountsCurrent, TypeOK, Account
<1>2. ASSUME NEW a \in accounts, NEW c \in Cars, NewCar(a, c)
      PROVE  AccountsCurrent'
    BY <1>2 DEF NewCar, AccountsCurrent, TypeOK
<1>3. ASSUME NEW a \in accounts, DeleteMe(a)
      PROVE  AccountsCurrent'
    BY <1>3 DEF DeleteMe, AccountsCurrent, TypeOK
<1>4. CASE UNCHANGED <<gen, accounts, owner>>
    BY <1>4 DEF AccountsCurrent
<1>5. ASSUME NEW h \in Calls, NEW a, StartCall(h, a)
      PROVE  UNCHANGED <<gen, accounts, owner>>
    BY <1>5 DEF StartCall, CreateShare, RevokeShare, AcceptShare, DeclineShare,
                LeaveShare, Answer, Begin
<1>6. ASSUME NEW h \in Calls, ReadInvitee(h) \/ Insert(h) \/ Update(h) \/ Fails(h)
      PROVE  UNCHANGED <<gen, accounts, owner>>
    BY <1>6 DEF ReadInvitee, Insert, Update, Fails
<1> QED
    BY <1>1, <1>2, <1>3, <1>4, <1>5, <1>6 DEF Next, vars

\* What handlers rely on stays true.
LEMMA CallsCurrentKept ==
    TypeOK /\ AccountsCurrent /\ CallsCurrent /\ [Next]_vars => CallsCurrent'
<1> SUFFICES ASSUME TypeOK, AccountsCurrent, CallsCurrent, [Next]_vars
             PROVE  CallsCurrent'
    OBVIOUS
<1> USE DEF calls, tables
<1>1. ASSUME NEW e \in Emails, Register(e)
      PROVE  CallsCurrent'
  <2>1. gen[e] \in Nat /\ \A f \in Emails : gen[f] \in Nat
      BY DEF TypeOK
  <2>2. \A f \in Emails : gen'[f] \in Nat /\ gen[f] <= gen'[f]
      BY <1>1, <2>1 DEF Register, TypeOK
  <2>3. \A h \in Calls : pc[h] # "idle" =>
           /\ caller[h][1] \in Emails /\ caller[h][2] \in Nat
           /\ caller[h] \in accounts' => caller[h] \in accounts
    <3> SUFFICES ASSUME NEW h \in Calls, pc[h] # "idle"
                 PROVE  /\ caller[h][1] \in Emails /\ caller[h][2] \in Nat
                        /\ caller[h] \in accounts' => caller[h] \in accounts
        OBVIOUS
    <3>1. caller[h][1] \in Emails /\ caller[h][2] \in Nat
        BY DEF TypeOK, Account
    <3>2. caller[h] # <<e, gen[e] + 1>>
        BY <2>1, <3>1 DEF CallsCurrent
    <3> QED
        BY <1>1, <3>1, <3>2 DEF Register
  <2>4. UNCHANGED <<owner, pc, caller, target, invitee>>
      BY <1>1 DEF Register
  <2>5. \A h \in Calls : pc[h] # "idle" => caller[h][2] <= gen'[caller[h][1]]
      BY <2>1, <2>2, <2>3 DEF CallsCurrent
  <2> QED
      BY <2>3, <2>4, <2>5 DEF CallsCurrent
<1>2. ASSUME NEW a \in accounts, NEW c \in Cars, NewCar(a, c)
      PROVE  CallsCurrent'
  <2>1. \A h \in Calls : pc[h] \in {"invitee", "insert"} /\ caller[h] \in accounts
           => target[h][1] # c
    <3> SUFFICES ASSUME NEW h \in Calls, pc[h] \in {"invitee", "insert"},
                        caller[h] \in accounts, target[h][1] = c
                 PROVE  FALSE
        OBVIOUS
    <3>1. owner[c] = caller[h] /\ caller[h] \in Account
        BY DEF CallsCurrent, TypeOK
    <3> QED
        BY <1>2, <3>1, SharingAssumption DEF NewCar
  <2>2. \A d \in Cars : d # c => owner'[d] = owner[d]
      BY <1>2 DEF NewCar, TypeOK
  <2>3. \A h \in Calls : pc[h] # "idle" => target[h][1] \in Cars
      BY DEF TypeOK
  <2> QED
      BY <1>2, <2>1, <2>2, <2>3 DEF NewCar, CallsCurrent
<1>3. ASSUME NEW a \in accounts, DeleteMe(a)
      PROVE  CallsCurrent'
  <2>1. \A h \in Calls : pc[h] # "idle" => target[h][1] \in Cars
      BY DEF TypeOK
  <2>2. \A c \in Cars : owner'[c] = owner[c] \/ owner[c] = a
      BY <1>3 DEF DeleteMe, TypeOK
  <2> QED
      BY <1>3, <2>1, <2>2 DEF DeleteMe, CallsCurrent
<1>4. ASSUME NEW h \in Calls, NEW e \in Emails, NEW n \in 1 .. gen[e], StartCall(h, <<e, n>>)
      PROVE  CallsCurrent'
  <2> DEFINE a == <<e, n>>
  <2>1. a[1] = e /\ a[2] <= gen[e]
      BY DEF TypeOK
  <2> HIDE DEF a
  <2>2. invitee[h] = NoAccount /\ pc[h] = "idle"
      BY <1>4 DEF StartCall, CreateShare, RevokeShare, AcceptShare, DeclineShare,
                  LeaveShare, Answer, Begin, CallsCurrent
  <2>3. UNCHANGED <<gen, accounts, owner, invitee>>
      BY <1>4 DEF StartCall, CreateShare, RevokeShare, AcceptShare, DeclineShare,
                  LeaveShare, Answer, Begin
  <2>4. ASSUME NEW c \in Cars, NEW f, NEW b, NEW step, Begin(h, a, c, f, b, step),
               step = "invitee" => owner[c] = a, step = "accept" => f = e,
               step # "insert"
        PROVE  CallsCurrent'
    <3>1. /\ \A q \in Calls \ {h} :
               pc'[q] = pc[q] /\ caller'[q] = caller[q] /\ target'[q] = target[q]
          /\ pc'[h] = step /\ caller'[h] = a /\ target'[h] = <<c, f, b>>
        BY <2>4 DEF Begin, TypeOK
    <3> QED
        BY <2>1, <2>2, <2>3, <2>4, <3>1 DEF CallsCurrent
  <2>5. ASSUME NEW c \in Cars, NEW f \in Emails, CreateShare(h, a, c, f)
        PROVE  CallsCurrent'
      BY <2>4, <2>5 DEF CreateShare
  <2>6. ASSUME NEW c \in Cars, NEW s \in Cars \X Emails, RevokeShare(h, a, c, s)
        PROVE  CallsCurrent'
      BY <2>4, <2>6 DEF RevokeShare
  <2>7. ASSUME NEW c \in Cars, NEW step \in {"accept", "decline"}, Answer(h, a, c, step)
        PROVE  CallsCurrent'
      BY <2>1, <2>4, <2>7 DEF Answer
  <2> QED
      BY <1>4, <2>5, <2>6, <2>7 DEF StartCall, AcceptShare, DeclineShare, LeaveShare, a
<1>5. ASSUME NEW h \in Calls, ReadInvitee(h)
      PROVE  CallsCurrent'
  <2>1. /\ \A q \in Calls \ {h} : pc'[q] = pc[q] /\ invitee'[q] = invitee[q]
        /\ pc[h] = "invitee" /\ pc'[h] = "insert"
        /\ invitee'[h] # NoAccount => invitee'[h][1] = target[h][2]
        /\ UNCHANGED <<gen, accounts, owner, caller, target>>
      BY <1>5 DEF ReadInvitee, TypeOK
  <2> QED
      BY <2>1 DEF CallsCurrent
<1>6. ASSUME NEW h \in Calls, Finish(h), UNCHANGED <<gen, accounts, owner>>
      PROVE  CallsCurrent'
  <2>1. /\ \A q \in Calls \ {h} : /\ pc'[q] = pc[q] /\ invitee'[q] = invitee[q]
                                  /\ caller'[q] = caller[q] /\ target'[q] = target[q]
        /\ pc'[h] = "idle" /\ invitee'[h] = NoAccount
      BY <1>6 DEF Finish, TypeOK
  <2> QED
      BY <1>6, <2>1 DEF CallsCurrent
<1>7. CASE UNCHANGED vars
    BY <1>7 DEF vars, CallsCurrent
<1> QED
    BY <1>1, <1>2, <1>3, <1>4, <1>5, <1>6, <1>7 DEF Next, Insert, Update, Fails

\* Only Insert adds a share, and only Update changes one that stays otherwise.
LEMMA AccessKept == IInv /\ [Next]_vars => AccessOnlyToInvited'
<1> SUFFICES ASSUME IInv, [Next]_vars PROVE AccessOnlyToInvited'
    OBVIOUS
<1> USE DEF IInv, calls, tables
<1>1. ASSUME NEW e \in Emails, Register(e)
      PROVE  AccessOnlyToInvited'
    BY <1>1 DEF Register, AccessOnlyToInvited
<1>2. ASSUME NEW a \in accounts, NEW c \in Cars, NewCar(a, c)
      PROVE  AccessOnlyToInvited'
  <2>1. \A e \in Emails : shares[<<c, e>>] = NoShare
    <3> SUFFICES ASSUME NEW e \in Emails, shares[<<c, e>>] # NoShare PROVE FALSE
        OBVIOUS
    <3>1. owner[c] \in accounts /\ accounts \subseteq Account
        BY DEF AccessOnlyToInvited, TypeOK
    <3> QED
        BY <1>2, <3>1, SharingAssumption DEF NewCar
  <2> QED
      BY <1>2, <2>1 DEF NewCar, AccessOnlyToInvited, TypeOK
<1>3. ASSUME NEW a \in accounts, DeleteMe(a)
      PROVE  AccessOnlyToInvited'
  <2> SUFFICES ASSUME NEW c \in Cars, NEW e \in Emails, shares'[<<c, e>>] # NoShare
               PROVE  LET row == shares'[<<c, e>>] IN
                      /\ row.by = owner'[c] /\ row.by \in accounts'
                      /\ row.with # NoAccount => row.with \in accounts' /\ row.with[1] = e
      BY DEF AccessOnlyToInvited
  <2> DEFINE row == shares[<<c, e>>]
  <2>1. owner[c] # a /\ shares'[<<c, e>>] = AfterDeletion(row, a)
      BY <1>3 DEF DeleteMe, TypeOK
  <2>2. row # NoShare /\ row.by # a
      BY <2>1 DEF AfterDeletion
  <2>3. row \in Share /\ row.by = owner[c] /\ row.by \in accounts
        /\ (row.with # NoAccount => row.with \in accounts /\ row.with[1] = e)
      BY <2>2 DEF AccessOnlyToInvited, TypeOK
  <2>4. owner'[c] = owner[c] /\ accounts' = accounts \ {a}
      BY <1>3, <2>1 DEF DeleteMe, TypeOK
  <2>5. shares'[<<c, e>>].by = row.by
        /\ shares'[<<c, e>>].with = IF row.with = a THEN NoAccount ELSE row.with
      BY <2>1, <2>2, <2>3 DEF AfterDeletion, Share
  <2> QED
      BY <2>2, <2>3, <2>4, <2>5
<1>4. ASSUME NEW h \in Calls, Insert(h)
      PROVE  AccessOnlyToInvited'
  <2> DEFINE new == [by |-> caller[h], with |-> invitee[h], status |-> "pending"]
  <2>1. /\ target[h][1] \in Cars /\ target[h][2] \in Emails
        /\ Row(h) = <<target[h][1], target[h][2]>>
      BY <1>4 DEF Insert, TypeOK, Row
  <2>2. /\ caller[h] \in accounts /\ owner[target[h][1]] = caller[h]
        /\ invitee[h] # NoAccount => invitee[h] \in accounts /\ invitee[h][1] = target[h][2]
      BY <1>4 DEF Insert, ParentsExist, CallsCurrent
  <2>3. shares' = [shares EXCEPT ![Row(h)] = new] /\ UNCHANGED <<accounts, owner>>
      BY <1>4 DEF Insert
  <2> QED
      BY <2>1, <2>2, <2>3 DEF AccessOnlyToInvited, TypeOK
<1>5. ASSUME NEW h \in Calls, Update(h)
      PROVE  AccessOnlyToInvited'
  <2>1. /\ target[h][1] \in Cars /\ target[h][2] \in Emails
        /\ Row(h) = <<target[h][1], target[h][2]>>
      BY <1>5 DEF Update, TypeOK, Row
  <2>2. PICK status \in Status, with \in Account \union {NoAccount} :
          /\ UpdateShareStatus(h, status, with)
          /\ with # NoAccount => with \in accounts /\ with[1] = target[h][2]
      BY <1>5 DEF Update, CallsCurrent, Status, TypeOK
  <2>3. UNCHANGED <<accounts, owner>>
      BY <1>5 DEF Update
  <2> DEFINE row == shares[Row(h)]
             new == [by |-> row.by, status |-> status,
                     with |-> IF with = NoAccount THEN row.with ELSE with]
  <2>4. CASE row # NoShare /\ shares' = [shares EXCEPT ![Row(h)] = new]
      BY <2>1, <2>2, <2>3, <2>4 DEF AccessOnlyToInvited, TypeOK
  <2>5. CASE shares' = shares
      BY <2>3, <2>5 DEF AccessOnlyToInvited
  <2> QED
      BY <2>2, <2>4, <2>5 DEF UpdateShareStatus
<1>6. CASE UNCHANGED tables
    BY <1>6 DEF AccessOnlyToInvited
<1>7. ASSUME NEW h \in Calls, NEW a, StartCall(h, a)
      PROVE  UNCHANGED tables
    BY <1>7 DEF StartCall, CreateShare, RevokeShare, AcceptShare, DeclineShare,
                LeaveShare, Answer, Begin
<1>8. ASSUME NEW h \in Calls, ReadInvitee(h) \/ Fails(h)
      PROVE  UNCHANGED tables
    BY <1>8 DEF ReadInvitee, Fails
<1> QED
    BY <1>1, <1>2, <1>3, <1>4, <1>5, <1>6, <1>7, <1>8 DEF Next, vars

-----------------------------------------------------------------------------
(* The theorems.                                                           *)

\* The inductive invariant holds in every reachable state.
THEOREM Invariant == Spec => []IInv
<1>1. Init => IInv
    BY InitTyped DEF Init, IInv, AccountsCurrent, CallsCurrent, AccessOnlyToInvited
<1>2. IInv /\ [Next]_vars => IInv'
    BY NextTyped, AccountsCurrentKept, CallsCurrentKept, AccessKept DEF IInv
<1> QED
    BY <1>1, <1>2, PTL DEF Spec

\* Whoever can use a car exists, and owns it or belongs to an address that its
\* present owner has invited.
THEOREM AccessInvited == Spec => []AccessOnlyToInvited
<1>1. IInv => AccessOnlyToInvited
    BY DEF IInv
<1> QED
    BY <1>1, Invariant, PTL

\* Whoever can use somebody else's car finds the share, and so does the owner.
THEOREM AccessVisible == Spec => []AccessIsVisible
<1>1. IInv => AccessIsVisible
  <2> SUFFICES ASSUME IInv, NEW a \in accounts, NEW c \in GetAccessibleCarIDs(a), owner[c] # a
               PROVE  \E s \in GetReceivedSharesForEmail(a[1]) \intersect GetSharesReceivedByUser(a)
                             \intersect ListShares(owner[c], c) \intersect GetSharesOwnedByUser(owner[c]) :
                          s[1] = c /\ shares[s].status = "accepted"
      BY DEF AccessIsVisible
  <2>1. PICK s \in Stored : /\ s[1] = c /\ shares[s].with = a
                            /\ shares[s].status = "accepted"
      BY DEF GetAccessibleCarIDs
  <2>2. s \in Cars \X Emails /\ shares[s] # NoShare /\ s = <<s[1], s[2]>>
      BY <2>1 DEF Stored
  <2>3. a # NoAccount
      BY SharingAssumption DEF IInv, TypeOK
  <2>4. s[2] = a[1] /\ shares[s].by \in accounts
      BY <2>1, <2>2, <2>3 DEF IInv, AccessOnlyToInvited
  <2> QED
      BY <2>1, <2>4 DEF GetReceivedSharesForEmail, GetSharesReceivedByUser, ListShares,
                        GetSharesOwnedByUser
<1> QED
    BY <1>1, Invariant, PTL

\* An account that is about to accept a share and still exists does not find it
\* stranded: that would have taken the account's own deletion.
AcceptsInTime ==
    \A h \in Calls :
        pc[h] = "accept" /\ caller[h] \in accounts => ~ Stranded(target[h][1], target[h][2])

\* Only the deletion of the account that had a share strands it.
LEMMA StrandedFrom ==
    ASSUME IInv, [Next]_vars, NEW c \in Cars, NEW e \in Emails, Stranded(c, e)',
           ~ Stranded(c, e)
    PROVE  /\ \E a \in accounts : DeleteMe(a) /\ shares[<<c, e>>].with = a
           /\ shares[<<c, e>>] # NoShare /\ shares[<<c, e>>].status = "accepted"
<1> USE DEF IInv, calls, tables
<1> DEFINE row == shares[<<c, e>>]
<1>1. shares'[<<c, e>>] # NoShare /\ shares'[<<c, e>>].status = "accepted"
      /\ shares'[<<c, e>>].with = NoAccount /\ shares' # shares
    BY DEF Stranded
<1>2. ASSUME NEW a \in accounts, DeleteMe(a)
      PROVE  row # NoShare /\ row.status = "accepted" /\ row.with = a
  <2>1. row \in Share \union {NoShare} /\ shares'[<<c, e>>] = AfterDeletion(row, a)
      BY <1>1, <1>2 DEF DeleteMe, TypeOK
  <2>2. row # NoShare /\ row.status = "accepted"
      BY <1>1, <2>1 DEF AfterDeletion, Share
  <2> QED
      BY <1>1, <2>1, <2>2 DEF AfterDeletion, Stranded
<1>3. ASSUME NEW h \in Calls, Insert(h)
      PROVE  FALSE
  <2>1. CASE <<c, e>> = Row(h)
      BY <1>1, <1>3, <2>1 DEF Insert, TypeOK
  <2>2. CASE <<c, e>> # Row(h)
      BY <1>1, <1>3, <2>2 DEF Insert, TypeOK, Stranded
  <2> QED
      BY <2>1, <2>2
<1>4. ASSUME NEW h \in Calls, Update(h)
      PROVE  FALSE
  <2>1. PICK status \in Status, with \in Account \union {NoAccount} :
          /\ UpdateShareStatus(h, status, with)
          /\ status = "accepted" => with # NoAccount
      BY <1>4, SharingAssumption DEF Update, Status, TypeOK
  <2>2. CASE <<c, e>> = Row(h)
      BY <1>1, <2>1, <2>2 DEF UpdateShareStatus, TypeOK
  <2>3. CASE <<c, e>> # Row(h)
      BY <1>1, <2>1, <2>3 DEF UpdateShareStatus, TypeOK, Stranded
  <2> QED
      BY <2>2, <2>3
<1>5. ASSUME NEW h \in Calls, NEW a, StartCall(h, a)
      PROVE  UNCHANGED tables
    BY <1>5 DEF StartCall, CreateShare, RevokeShare, AcceptShare, DeclineShare,
                LeaveShare, Answer, Begin
<1>6. ASSUME NEW h \in Calls, ReadInvitee(h) \/ Fails(h)
      PROVE  UNCHANGED tables
    BY <1>6 DEF ReadInvitee, Fails
<1> QED
    BY <1>1, <1>2, <1>3, <1>4, <1>5, <1>6 DEF Next, Register, NewCar, vars

\* Accepts on their way stay in time.
LEMMA AcceptsKept == IInv /\ AcceptsInTime /\ [Next]_vars => AcceptsInTime'
<1> SUFFICES ASSUME IInv, AcceptsInTime, [Next]_vars, NEW h \in Calls, pc'[h] = "accept",
                    caller'[h] \in accounts', NEW c, NEW e, c = target'[h][1],
                    e = target'[h][2], Stranded(c, e)'
             PROVE  FALSE
    BY DEF AcceptsInTime, Stranded
<1>1. c \in Cars /\ e \in Emails /\ caller'[h] \in Account /\ caller'[h][1] = e
  <2>1. TypeOK' /\ CallsCurrent'
      BY NextTyped, CallsCurrentKept DEF IInv
  <2> QED
      BY <2>1 DEF TypeOK, CallsCurrent
<1> USE DEF IInv, calls, tables
<1>2. CASE UNCHANGED <<pc, caller, target>>
  <2>1. caller[h] \in accounts
    <3>1. ASSUME NEW f \in Emails, Register(f)
          PROVE  caller[h] \in accounts
      <4>1. gen[f] \in Nat /\ caller[h][2] <= gen[caller[h][1]] /\ caller[h] \in Account
          BY <1>1, <1>2 DEF TypeOK, CallsCurrent
      <4> QED
          BY <1>2, <3>1, <4>1 DEF Register
    <3>2. (\A f \in Emails : ~ Register(f)) => accounts' \subseteq accounts
      <4>1. ASSUME NEW q \in Calls, NEW a, StartCall(q, a)
            PROVE  UNCHANGED accounts
          BY <4>1 DEF StartCall, CreateShare, RevokeShare, AcceptShare, DeclineShare,
                      LeaveShare, Answer, Begin
      <4>2. ASSUME NEW q \in Calls, ReadInvitee(q) \/ Insert(q) \/ Update(q) \/ Fails(q)
            PROVE  UNCHANGED accounts
          BY <4>2 DEF ReadInvitee, Insert, Update, Fails
      <4> QED
          BY <4>1, <4>2 DEF Next, NewCar, DeleteMe, vars
    <3> QED
        BY <1>2, <3>1, <3>2
  <2>2. ~ Stranded(c, e)
      BY <1>2, <2>1 DEF AcceptsInTime
  <2>3. PICK a \in accounts : DeleteMe(a) /\ shares[<<c, e>>].with = a
      BY <1>1, <2>2, StrandedFrom
  <2>4. shares[<<c, e>>] # NoShare /\ a # NoAccount
      BY <1>1, <2>2, StrandedFrom, SharingAssumption DEF TypeOK
  <2>5. a[1] = e /\ a = <<e, gen[e]>> /\ caller[h] = <<e, gen[e]>>
    <3>1. a[1] = e
        BY <1>1, <2>3, <2>4 DEF AccessOnlyToInvited
    <3>2. a \in Account /\ a[2] = gen[e]
        BY <3>1 DEF AccountsCurrent, TypeOK
    <3>3. caller[h] \in Account /\ caller[h][1] = e /\ caller[h][2] = gen[e]
        BY <1>1, <1>2, <2>1 DEF AccountsCurrent
    <3> QED
        BY <3>1, <3>2, <3>3 DEF Account
  <2> QED
      BY <1>2, <2>3, <2>5 DEF DeleteMe
<1>3. ASSUME NEW q \in Calls, Finish(q), ~ UNCHANGED <<pc, caller, target>>,
             accounts' = accounts
      PROVE  FALSE
  <2>1. q # h /\ pc[h] = "accept" /\ caller[h] = caller'[h] /\ target[h] = target'[h]
      BY <1>3 DEF Finish, TypeOK
  <2>2. ~ Stranded(c, e)
      BY <1>3, <2>1 DEF AcceptsInTime
  <2>3. PICK a \in accounts : DeleteMe(a)
      BY <1>1, <2>2, StrandedFrom
  <2> QED
      BY <1>3, <2>3 DEF DeleteMe
<1>4. ASSUME NEW q \in Calls, ReadInvitee(q)
      PROVE  FALSE
  <2>1. pc[h] = "accept" /\ caller[h] = caller'[h] /\ target[h] = target'[h]
      BY <1>4 DEF ReadInvitee, TypeOK
  <2> QED
      BY <1>4, <2>1 DEF ReadInvitee, AcceptsInTime, Stranded
<1>5. ASSUME NEW q \in Calls, NEW f \in Emails, NEW n \in 1 .. gen[f], StartCall(q, <<f, n>>)
      PROVE  FALSE
  <2> DEFINE a == <<f, n>>
  <2>1. UNCHANGED tables
      BY <1>5 DEF StartCall, CreateShare, RevokeShare, AcceptShare, DeclineShare,
                  LeaveShare, Answer, Begin
  <2>2. ASSUME pc[h] = "accept", caller[h] = caller'[h], target[h] = target'[h]
        PROVE  FALSE
      BY <2>1, <2>2 DEF AcceptsInTime, Stranded
  <2>3. ASSUME NEW d \in Cars, AcceptShare(q, a, d)
        PROVE  FALSE
    <3>1. CASE q = h
      <4>1. target'[h] = <<d, a[1], shares[<<d, a[1]>>].by>> /\ MayAccept(shares[<<d, a[1]>>])
          BY <2>3, <3>1 DEF AcceptShare, Answer, Begin, TypeOK
      <4> QED
          BY <2>1, <4>1 DEF MayAccept, Stranded
    <3>2. CASE q # h
        BY <2>2, <2>3, <3>2 DEF AcceptShare, Answer, Begin, TypeOK
    <3> QED
        BY <3>1, <3>2
  <2>4. ASSUME NEW d, NEW g, NEW b, NEW step, step # "accept", Begin(q, a, d, g, b, step)
        PROVE  FALSE
      BY <2>2, <2>4 DEF Begin, TypeOK
  <2> QED
      BY <1>5, <2>3, <2>4 DEF StartCall, CreateShare, RevokeShare, DeclineShare, LeaveShare, Answer
<1> QED
    BY <1>2, <1>3, <1>4, <1>5 DEF Next, Register, NewCar, DeleteMe, Insert, Update, Fails, vars

\* A stranded share is only ended.
LEMMA StrandedStays ==
    ASSUME IInv, AcceptsInTime, [Next]_vars, NEW c \in Cars, NEW e \in Emails,
           Stranded(c, e), shares'[<<c, e>>] # NoShare
    PROVE  Stranded(c, e)' \/ Ended(c, e)'
<1> USE DEF IInv, calls, tables
<1> DEFINE row == shares[<<c, e>>]
<1>1. row \in Share /\ row # NoShare /\ row.with = NoAccount /\ row.status = "accepted"
    BY DEF Stranded, TypeOK
<1>2. ASSUME NEW a \in accounts, DeleteMe(a)
      PROVE  shares'[<<c, e>>] = row
  <2>1. a # NoAccount
      BY SharingAssumption DEF TypeOK
  <2> QED
      BY <1>1, <1>2, <2>1 DEF DeleteMe, AfterDeletion, TypeOK
<1>3. ASSUME NEW h \in Calls, Insert(h)
      PROVE  shares'[<<c, e>>] = row
    BY <1>1, <1>3 DEF Insert, TypeOK
<1>4. ASSUME NEW h \in Calls, Update(h)
      PROVE  shares'[<<c, e>>] = row \/ Ended(c, e)'
  <2>1. CASE Row(h) # <<c, e>>
      BY <1>4, <2>1 DEF Update, UpdateShareStatus, TypeOK
  <2>2. CASE Row(h) = <<c, e>>
    <3>1. ~ (pc[h] = "accept" /\ caller[h] \in accounts)
      <4>1. pc[h] = "accept" => target[h][1] = c /\ target[h][2] = e
          BY <2>2 DEF Row
      <4> QED
          BY <4>1 DEF AcceptsInTime
    <3> QED
        BY <1>1, <1>4, <2>2, <3>1 DEF Update, UpdateShareStatus, Ended, TypeOK
  <2> QED
      BY <2>1, <2>2
<1>5. ASSUME NEW h \in Calls, NEW a, StartCall(h, a)
      PROVE  UNCHANGED tables
    BY <1>5 DEF StartCall, CreateShare, RevokeShare, AcceptShare, DeclineShare,
                LeaveShare, Answer, Begin
<1>6. ASSUME NEW h \in Calls, ReadInvitee(h) \/ Fails(h)
      PROVE  UNCHANGED tables
    BY <1>6 DEF ReadInvitee, Fails
<1>7. shares'[<<c, e>>] = row \/ Ended(c, e)'
    BY <1>2, <1>3, <1>4, <1>5, <1>6 DEF Next, Register, NewCar, vars
<1> QED
    BY <1>1, <1>7 DEF Stranded

\* An accepted share of nobody is left by the deletion of the account that had it, and
\* stays one until it is ended.
THEOREM StrandedByDeletion == Spec => StrandedOnlyByDeletion
<1>1. Init => AcceptsInTime
    BY DEF Init, AcceptsInTime
<1>2. IInv /\ AcceptsInTime /\ [Next]_vars =>
        [\A c \in Cars, e \in Emails :
           /\ Stranded(c, e)' =>
                \/ Stranded(c, e)
                \/ /\ shares[<<c, e>>] # NoShare
                   /\ shares[<<c, e>>].status = "accepted"
                   /\ shares[<<c, e>>].with \in accounts \ accounts'
           /\ Stranded(c, e) => Stranded(c, e)' \/ Ended(c, e)']_vars
  <2> SUFFICES ASSUME IInv, AcceptsInTime, [Next]_vars, NEW c \in Cars, NEW e \in Emails
               PROVE  /\ Stranded(c, e)' =>
                           \/ Stranded(c, e)
                           \/ /\ shares[<<c, e>>] # NoShare
                              /\ shares[<<c, e>>].status = "accepted"
                              /\ shares[<<c, e>>].with \in accounts \ accounts'
                      /\ Stranded(c, e) => Stranded(c, e)' \/ Ended(c, e)'
      OBVIOUS
  <2>1. ASSUME Stranded(c, e)', ~ Stranded(c, e)
        PROVE  /\ shares[<<c, e>>] # NoShare /\ shares[<<c, e>>].status = "accepted"
               /\ shares[<<c, e>>].with \in accounts \ accounts'
      BY <2>1, StrandedFrom DEF DeleteMe
  <2>2. ASSUME Stranded(c, e), shares'[<<c, e>>] # NoShare
        PROVE  Stranded(c, e)' \/ Ended(c, e)'
      BY <2>2, StrandedStays
  <2> QED
      BY <2>1, <2>2 DEF Ended
<1> QED
    BY <1>1, <1>2, AcceptsKept, Invariant, PTL DEF Spec, StrandedOnlyByDeletion

\* A share that is settled, with no accept on its way, stays settled.
LEMMA SettledKept ==
    ASSUME TypeOK, [Next]_vars, NEW c \in Cars, NEW e \in Emails, Settled(c, e)
    PROVE  Settled(c, e)' \/ shares'[<<c, e>>] = NoShare
<1> USE DEF calls, tables
<1> DEFINE row == shares[<<c, e>>]
<1>1. row # NoShare /\ row.status \in {"declined", "revoked"} /\ ~ Accepting(c, e)
    BY DEF Settled
<1>2. row \in Share
    BY <1>1 DEF TypeOK
<1>3. ASSUME shares'[<<c, e>>] # NoShare
      PROVE  /\ shares'[<<c, e>>].by = row.by
             /\ shares'[<<c, e>>].status \in {"declined", "revoked"}
  <2>1. CASE shares' = shares
      BY <1>1, <2>1
  <2>2. ASSUME NEW a \in accounts, DeleteMe(a)
        PROVE  /\ shares'[<<c, e>>].by = row.by
               /\ shares'[<<c, e>>].status \in {"declined", "revoked"}
      BY <1>1, <1>2, <1>3, <2>2 DEF DeleteMe, AfterDeletion, Share, TypeOK
  <2>3. ASSUME NEW h \in Calls, Insert(h)
        PROVE  shares'[<<c, e>>] = row
      BY <1>1, <2>3 DEF Insert, TypeOK
  <2>4. ASSUME NEW h \in Calls, Update(h)
        PROVE  /\ shares'[<<c, e>>].by = row.by
               /\ shares'[<<c, e>>].status \in {"declined", "revoked"}
    <3>1. CASE Row(h) # <<c, e>>
        BY <1>1, <2>4, <3>1 DEF Update, UpdateShareStatus, TypeOK
    <3>2. CASE Row(h) = <<c, e>> /\ target[h][3] = row.by
      <4>1. target[h] = <<c, e, row.by>>
          BY <2>4, <3>2 DEF Update, Row, TypeOK
      <4>2. pc[h] # "accept"
          BY <1>1, <4>1 DEF Accepting
      <4> QED
          BY <1>1, <2>4, <3>2, <4>2 DEF Update, UpdateShareStatus, TypeOK
    <3>3. CASE Row(h) = <<c, e>> /\ target[h][3] # row.by
        BY <1>1, <2>4, <3>3 DEF Update, UpdateShareStatus
    <3> QED
        BY <3>1, <3>2, <3>3
  <2>5. ASSUME NEW h \in Calls, NEW a, StartCall(h, a)
        PROVE  shares' = shares
      BY <2>5 DEF StartCall, CreateShare, RevokeShare, AcceptShare, DeclineShare,
                  LeaveShare, Answer, Begin
  <2>6. ASSUME NEW h \in Calls, ReadInvitee(h) \/ Fails(h)
        PROVE  shares' = shares
      BY <2>6 DEF ReadInvitee, Fails
  <2> QED
      BY <1>1, <2>1, <2>2, <2>3, <2>4, <2>5, <2>6 DEF Next, Register, NewCar, vars
<1>4. ASSUME shares'[<<c, e>>].by = row.by
      PROVE  ~ Accepting(c, e)'
  <2> SUFFICES ASSUME NEW h \in Calls, pc'[h] = "accept", target'[h] = <<c, e, row.by>>
               PROVE  FALSE
      BY <1>4 DEF Accepting
  <2>1. ~ (pc[h] = "accept" /\ target[h] = <<c, e, row.by>>)
      BY <1>1 DEF Accepting
  <2>2. PICK d \in Cars, f \in Emails, n \in Nat : AcceptShare(h, <<f, n>>, d)
    <3>1. ASSUME NEW q \in Calls, NEW a, StartCall(q, a), \A d \in Cars : ~ AcceptShare(q, a, d)
          PROVE  FALSE
        BY <2>1, <3>1 DEF StartCall, CreateShare, RevokeShare, DeclineShare, LeaveShare,
                          Answer, Begin, TypeOK
    <3>2. ASSUME NEW q \in Calls, NEW a, NEW d \in Cars, AcceptShare(q, a, d)
          PROVE  q = h
        BY <2>1, <3>2 DEF AcceptShare, Answer, Begin, TypeOK
    <3>3. ASSUME NEW q \in Calls, ReadInvitee(q) \/ Insert(q) \/ Update(q) \/ Fails(q)
          PROVE  FALSE
        BY <2>1, <3>3 DEF ReadInvitee, Insert, Update, Fails, Finish, TypeOK
    <3>4. ASSUME NEW q \in Calls, NEW f \in Emails, NEW n \in 1 .. gen[f],
                 StartCall(q, <<f, n>>)
          PROVE  \E d \in Cars : AcceptShare(h, <<f, n>>, d)
      <4>1. PICK d \in Cars : AcceptShare(q, <<f, n>>, d)
          BY <3>1, <3>4
      <4> QED
          BY <3>2, <4>1
    <3>5. \A f \in Emails : 1 .. gen[f] \subseteq Nat
        BY DEF TypeOK
    <3>6. ~ UNCHANGED <<pc, target>>
        BY <2>1
    <3> QED
        BY <3>3, <3>4, <3>5, <3>6 DEF Next, Register, NewCar, DeleteMe, vars
  <2>3. MayAccept(shares[<<d, f>>]) /\ target'[h] = <<d, f, shares[<<d, f>>].by>>
      BY <2>2 DEF AcceptShare, Answer, Begin, TypeOK
  <2> QED
      BY <1>1, <2>3 DEF MayAccept
<1> QED
    BY <1>3, <1>4 DEF Settled

\* Once it is revoked or declined, and no call is about to accept it, a share is
\* not accepted again.
THEOREM SettledForGood == Spec => SettledStaysSettled
<1>1. TypeOK /\ [Next]_vars =>
        [\A c \in Cars, e \in Emails :
           Settled(c, e) => Settled(c, e)' \/ shares'[<<c, e>>] = NoShare]_vars
    BY SettledKept
<1> QED
    BY <1>1, TypeCorrect, PTL DEF Spec, SettledStaysSettled
=============================================================================
