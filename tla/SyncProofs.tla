----------------------------- MODULE SyncProofs -----------------------------
(***************************************************************************)
(* Proofs about Sync.  That a row is missed only if it was overtaken is    *)
(* not inductive: an answer moves a device's cursor past everything that   *)
(* its queries did not bring.  So the invariant is also about the answers  *)
(* that are being gathered: what one lacks, up to the time it will set the *)
(* cursor to, was overtaken while it was gathered.  That holds because the *)
(* queries start at the cursor of the device that waits, because pushed    *)
(* cars are among the accessible ones when services are read, and because  *)
(* nothing is stored of a car that is not.                                 *)
(*                                                                         *)
(* That a device's own edits are not lost rests on the last two facts.     *)
(*                                                                         *)
(* Last, Sync implements LwwStore, as SyncPush does (SyncPushProofs).      *)
(***************************************************************************)
EXTENDS Sync, TLAPS

\* No sync and no cursor is ahead of the clock.
TimesArePast ==
    /\ \A r \in Requests : stamp[r] <= clock
    /\ \A d \in Devices : cursor[d] <= clock

\* A device waits for a request of its own that is in progress, that asks for
\* what is newer than the device's cursor and will not set it back.
WaitsForItsOwn ==
    \A d \in Devices : waits[d] # NoRequest =>
        /\ pc[waits[d]] # "idle"
        /\ device[waits[d]] = d
        /\ since[waits[d]] <= cursor[d]
        /\ cursor[d] <= stamp[waits[d]]

\* What is stored of a car is stored after the car, and accessible cars are stored.
CarsComeFirst ==
    /\ \A k \in Key : db[k] # 0 => db[CarFor(k)] # 0
    /\ \A r \in Requests : \A c \in access[r] : db[c] # 0

\* After the push its cars count as accessible.
PushedIsAccessible ==
    \A r \in Requests :
        pc[r] \in {"cars", "services", "answer"} => PushedCars(r) \subseteq access[r]

\* What an answer lacks although its query has run, and although it is not newer
\* than the cursor that the answer brings, was overtaken.
AnswerOnlyLacksOvertaken ==
    \A d \in Devices, k \in Key :
        /\ waits[d] # NoRequest
        /\ PastQueryFor(waits[d], k)
        /\ Visible(UserOf[d], k)
        /\ known[d][k] < db[k]
        /\ got[waits[d]][k] < db[k]
        /\ db[k] <= stamp[waits[d]]
        => <<d, k, db[k]>> \in overtaken

\* The car belongs to the device's user.
IsOwn(d, k) == Owner[CarFor(k)] = UserOf[d]

\* What a device has edited belongs to a car it knows.
EditsHaveCars ==
    \A d \in Devices : \A k \in dirty[d] : known[d][CarFor(k)] # 0

\* An edit that is pushed by the owner of its car comes with the car or finds it
\* stored, then accessible, and is stored in the end.
OwnPushIsAccepted ==
    \A r \in Requests, k \in Key :
        IsOwn(device[r], k) /\ changes[r][k] # 0 =>
            /\ pc[r] = "access" => changes[r][CarFor(k)] # 0 \/ db[CarFor(k)] # 0
            /\ pc[r] = "commit" => changes[r][CarFor(k)] # 0 \/ CarFor(k) \in access[r]
            /\ pc[r] \in {"cars", "services", "answer"} => changes[r][k] <= db[k]

\* An answer holds nothing that is newer than what is stored.
PulledIsStored ==
    \A r \in Requests, k \in Key : got[r][k] <= db[k]

\* The invariant about edits.
EditsInv == EditsHaveCars /\ OwnPushIsAccepted /\ PulledIsStored /\ OwnEditsAreKept

\* The invariant about missed rows.
Inv ==
    /\ TimesArePast /\ WaitsForItsOwn /\ CarsComeFirst /\ PushedIsAccessible
    /\ AnswerOnlyLacksOvertaken /\ MissedOnlyIfOvertaken

-----------------------------------------------------------------------------

\* Instants are numbers, and 0 is one.
LEMMA TimeIsNat == Time \subseteq Nat /\ 0 \in Time
    BY SyncAssumption DEF Time

\* Merged rows are rows.
LEMMA MergeTyped ==
    ASSUME NEW old \in [Key -> Time], NEW new \in [Key -> Time]
    PROVE  Merge(old, new) \in [Key -> Time]
    BY DEF Merge, Max2

\* What a push accepts are rows.
LEMMA AcceptingTyped ==
    ASSUME TypeOK, NEW r \in Requests
    PROVE  Accepting(r) \in [Key -> Time]
<1>1. changes[r] \in [Key -> Time]
    BY DEF TypeOK
<1>2. QED
    BY <1>1, TimeIsNat DEF Accepting

\* Overtake records devices, keys and instants.
LEMMA OvertakeTyped ==
    ASSUME TypeOK, NEW K \in SUBSET Key, NEW newdb \in [Key -> Time], NEW granted,
           Overtake(K, newdb, granted)
    PROVE  overtaken' \subseteq Devices \X Key \X Time
<1> SUFFICES ASSUME NEW x \in overtaken', x \notin overtaken
             PROVE  x \in Devices \X Key \X Time
    BY DEF TypeOK
<1>1. PICK p \in Devices \X K : x = <<p[1], p[2], newdb[p[2]]>>
    BY DEF Overtake
<1>2. p[1] \in Devices /\ p[2] \in Key
    OBVIOUS
<1>3. QED
    BY <1>1, <1>2

\* Overtake forgets nothing, and records every row of K that a device may see, lacks
\* and will not ask for.
LEMMA OvertakeFacts ==
    ASSUME NEW K, NEW newdb, NEW granted, Overtake(K, newdb, granted)
    PROVE  /\ overtaken \subseteq overtaken'
           /\ \A d \in Devices, k \in K :
                /\ Shared(UserOf[d], CarFor(k), granted)
                /\ known[d][k] < newdb[k]
                /\ newdb[k] <= Horizon(d, k)
                => <<d, k, newdb[k]>> \in overtaken'
<1>1. overtaken \subseteq overtaken'
    BY DEF Overtake
<1>2. ASSUME NEW d \in Devices, NEW k \in K,
             Shared(UserOf[d], CarFor(k), granted),
             known[d][k] < newdb[k],
             newdb[k] <= Horizon(d, k)
      PROVE  <<d, k, newdb[k]>> \in overtaken'
    <2> DEFINE P == {q \in Devices \X K :
                        /\ Shared(UserOf[q[1]], CarFor(q[2]), granted)
                        /\ known[q[1]][q[2]] < newdb[q[2]]
                        /\ newdb[q[2]] <= Horizon(q[1], q[2])}
    <2>1. <<d, k>> \in P
        BY <1>2
    <2>2. <<d, k, newdb[k]>> \in {<<p[1], p[2], newdb[p[2]]>> : p \in P}
        BY <2>1
    <2>3. QED
        BY <2>2 DEF Overtake
<1>3. QED
    BY <1>1, <1>2

\* The end of a handler keeps the types.
LEMMA FinishTyped ==
    ASSUME TypeOK, NEW r \in Requests, Finish(r)
    PROVE  /\ pc' \in [Requests -> {"idle", "access", "commit", "cars", "services", "answer"}]
           /\ device' \in [Requests -> Devices]
           /\ changes' \in [Requests -> [Key -> Time]]
           /\ since' \in [Requests -> Time]
           /\ stamp' \in [Requests -> Time]
           /\ access' \in [Requests -> SUBSET Cars]
           /\ got' \in [Requests -> [Key -> Time]]
<1>1. Nothing \in [Key -> Time]
    BY TimeIsNat DEF Nothing
<1>2. QED
    BY <1>1, TimeIsNat DEF Finish, TypeOK

\* The next instant is one.
LEMMA TickTyped == TypeOK /\ Tick => clock' \in Time /\ clock + 1 \in Time
    BY SyncAssumption DEF TypeOK, Tick, Time

\* Faults stay within their bound.
LEMMA FaultTyped == TypeOK /\ Fault => faults' \in 0 .. MaxFaults
    BY SyncAssumption DEF TypeOK, Fault

\* The initial state has the types.
LEMMA InitTyped == Init => TypeOK
<1> SUFFICES ASSUME Init PROVE TypeOK
    OBVIOUS
<1>1. Nothing \in [Key -> Time]
    BY TimeIsNat DEF Nothing
<1>2. (CHOOSE d \in Devices : TRUE) \in Devices
    BY SyncAssumption
<1>3. 0 \in 0 .. MaxFaults
    BY SyncAssumption
<1>4. QED
    BY <1>1, <1>2, <1>3, TimeIsNat DEF Init, TypeOK

\* A commit keeps the types.
LEMMA CommitTyped ==
    ASSUME TypeOK, NEW r \in Requests, db' = Merge(db, Accepting(r)),
           Overtake({k \in Key : db'[k] # db[k]}, db', shares)
    PROVE  db' \in [Key -> Time] /\ overtaken' \subseteq Devices \X Key \X Time
<1>1. db' \in [Key -> Time]
    BY AcceptingTyped, MergeTyped DEF TypeOK
<1>2. QED
    BY <1>1, OvertakeTyped

\* A query keeps the types.
LEMMA PullTyped ==
    ASSUME TypeOK, NEW r \in Requests, NEW K, Pull(r, K)
    PROVE  got' \in [Requests -> [Key -> Time]]
<1>1. [k \in Key |-> IF k \in K THEN db[k] ELSE got[r][k]] \in [Key -> Time]
    BY DEF TypeOK
<1>2. QED
    BY <1>1 DEF TypeOK, Pull

\* Each step of a handler keeps the types.
LEMMA HandleTyped ==
    ASSUME TypeOK, NEW r \in Requests, Handle(r)
    PROVE  TypeOK'
<1>1. CASE ReadAccess(r)
    BY <1>1 DEF ReadAccess, TypeOK, AccessibleCars, clients
<1>2. CASE CommitPush(r)
    <2>1. db' \in [Key -> Time] /\ overtaken' \subseteq Devices \X Key \X Time
        BY <1>2, CommitTyped DEF CommitPush
    <2>2. PushedCars(r) \subseteq Cars
        BY DEF PushedCars
    <2>3. QED
        BY <1>2, <2>1, <2>2 DEF CommitPush, TypeOK, clients
<1>3. CASE Fails(r)
    <2>1. db' \in [Key -> Time] /\ overtaken' \subseteq Devices \X Key \X Time
        BY <1>3, CommitTyped DEF Fails, TypeOK
    <2>2. faults' \in 0 .. MaxFaults
        BY <1>3, FaultTyped DEF Fails
    <2>3. waits' \in [Devices -> Requests \union {NoRequest}]
        BY <1>3 DEF Fails, TypeOK
    <2>4. QED
        BY <1>3, <2>1, <2>2, <2>3, FinishTyped DEF Fails, TypeOK
<1>4. CASE PullCars(r)
    BY <1>4, PullTyped DEF PullCars, TypeOK, clients
<1>5. CASE PullServices(r)
    BY <1>5, PullTyped DEF PullServices, TypeOK, clients
<1>6. CASE PullFails(r)
    <2>1. overtaken' \subseteq Devices \X Key \X Time
        <3>1. device[r] \in Devices /\ \A k \in Key : db[k] \in Time
            BY DEF TypeOK
        <3>2. QED
            BY <1>6, <3>1 DEF PullFails, TypeOK, Key
    <2>2. faults' \in 0 .. MaxFaults
        BY <1>6, FaultTyped DEF PullFails
    <2>3. QED
        BY <1>6, <2>1, <2>2 DEF PullFails, TypeOK, clients
<1>7. CASE Answer(r)
    <2>1. device[r] \in Devices /\ SyncedAt(r) \in Time
        BY DEF TypeOK, SyncedAt
    <2>2. Merge(known[device[r]], got[r]) \in [Key -> Time]
        BY <2>1, MergeTyped DEF TypeOK
    <2>3. /\ known' \in [Devices -> [Key -> Time]]
          /\ dirty' \in [Devices -> SUBSET Key]
          /\ cursor' \in [Devices -> Time]
          /\ waits' \in [Devices -> Requests \union {NoRequest}]
        <3>1. CASE waits[device[r]] = r
            <4>1. /\ known' = [known EXCEPT ![device[r]] = Merge(known[device[r]], got[r])]
                  /\ cursor' = [cursor EXCEPT ![device[r]] = SyncedAt(r)]
                  /\ waits' = [waits EXCEPT ![device[r]] = NoRequest]
                  /\ dirty' = [dirty EXCEPT ![device[r]] =
                                 {k \in @ : known[device[r]][k] # changes[r][k]}]
                BY <1>7, <3>1 DEF Answer
            <4>2. dirty' \in [Devices -> SUBSET Key]
                BY <2>1, <4>1 DEF TypeOK
            <4>3. QED
                BY <2>1, <2>2, <4>1, <4>2 DEF TypeOK
        <3>2. CASE waits[device[r]] # r
            BY <1>7, <3>2 DEF Answer, TypeOK, clients
        <3>3. QED
            BY <3>1, <3>2
    <2>4. QED
        BY <1>7, <2>3, FinishTyped DEF Answer, TypeOK
<1>8. QED
    BY <1>1, <1>2, <1>3, <1>4, <1>5, <1>6, <1>7, Zenon DEF Handle

\* Each step keeps the types.
LEMMA StepTyped == TypeOK /\ [Next]_vars => TypeOK'
<1> SUFFICES ASSUME TypeOK, [Next]_vars PROVE TypeOK'
    OBVIOUS
<1>1. ASSUME NEW d \in Devices, NEW k \in Key, Edit(d, k)
      PROVE  TypeOK'
    <2>1. clock' \in Time /\ clock + 1 \in Time
        BY <1>1, TickTyped DEF Edit
    <2>2. QED
        BY <1>1, <2>1 DEF Edit, TypeOK, handlers
<1>2. ASSUME NEW d \in Devices, NEW r \in Requests, Send(d, r)
      PROVE  TypeOK'
    <2>1. clock' \in Time
        BY <1>2, TickTyped DEF Send, TypeOK
    <2>2. [k \in Key |-> IF k \in dirty[d] THEN known[d][k] ELSE 0] \in [Key -> Time]
        BY TimeIsNat DEF TypeOK
    <2>3. (IF Incremental THEN cursor[d] ELSE 0) \in Time
        BY TimeIsNat DEF TypeOK
    <2>4. QED
        BY <1>2, <2>1, <2>2, <2>3 DEF Send, TypeOK
<1>3. ASSUME NEW d \in Devices, GiveUp(d)
      PROVE  TypeOK'
    BY <1>3, FaultTyped DEF GiveUp, TypeOK, handlers
<1>4. ASSUME NEW u \in Users, NEW c \in Cars, AcceptShare(u, c)
      PROVE  TypeOK'
    <2>1. overtaken' \subseteq Devices \X Key \X Time
        BY <1>4, OvertakeTyped DEF AcceptShare, TypeOK
    <2>2. QED
        BY <1>4, <2>1 DEF AcceptShare, TypeOK, handlers, clients
<1>5. ASSUME NEW u \in Users, NEW c \in Cars, RevokeShare(u, c)
      PROVE  TypeOK'
    BY <1>5, FaultTyped DEF RevokeShare, TypeOK, handlers, clients
<1>6. CASE UNCHANGED vars
    BY <1>6 DEF vars, handlers, clients, TypeOK
<1>7. QED
    BY <1>1, <1>2, <1>3, <1>4, <1>5, <1>6, HandleTyped, Zenon DEF Next

\* Every variable has its type, whatever devices send and handlers answer
\* (sync.go, 27-247).
THEOREM TypeCorrect == Spec => []TypeOK
    BY InitTyped, StepTyped, PTL DEF Spec

-----------------------------------------------------------------------------

\* All times are numbers, as the provers want to be told.
LEMMA AllNats ==
    ASSUME TypeOK
    PROVE  /\ clock \in Nat
           /\ \A r \in Requests : stamp[r] \in Nat /\ since[r] \in Nat
           /\ \A r \in Requests, k \in Key : got[r][k] \in Nat /\ changes[r][k] \in Nat
           /\ \A d \in Devices : cursor[d] \in Nat
           /\ \A d \in Devices, k \in Key : known[d][k] \in Nat
           /\ \A k \in Key : db[k] \in Nat
    BY TimeIsNat DEF TypeOK

\* Merge takes one of both rows, and the newer one.
LEMMA MergeFacts ==
    ASSUME NEW old \in [Key -> Nat], NEW new \in [Key -> Nat], NEW k \in Key
    PROVE  /\ Merge(old, new)[k] \in {old[k], new[k]}
           /\ old[k] <= Merge(old, new)[k]
           /\ new[k] <= Merge(old, new)[k]
    BY DEF Merge, Max2

\* Every row belongs to a car, which is a row.
LEMMA CarForTyped == \A k \in Key : CarFor(k) \in Cars /\ CarFor(k) \in Key
    BY SyncAssumption DEF CarFor, Key

\* The clock is ahead of every step's new times.
LEMMA TimesStep == TypeOK /\ TimesArePast /\ [Next]_vars => TimesArePast'
<1> SUFFICES ASSUME TypeOK, TimesArePast, [Next]_vars PROVE TimesArePast'
    OBVIOUS
<1> USE AllNats
<1>1. ASSUME NEW r \in Requests, Finish(r), clock' = clock
      PROVE  \A q \in Requests : stamp'[q] <= clock'
    BY <1>1 DEF TimesArePast, Finish, TypeOK
<1>2. ASSUME NEW d \in Devices, NEW k \in Key, Edit(d, k)
      PROVE  TimesArePast'
    BY <1>2 DEF Edit, Tick, TimesArePast, handlers
<1>3. ASSUME NEW d \in Devices, NEW r \in Requests, Send(d, r)
      PROVE  TimesArePast'
    BY <1>3 DEF Send, Tick, TimesArePast, TypeOK
<1>4. ASSUME NEW d \in Devices, GiveUp(d)
      PROVE  TimesArePast'
    BY <1>4 DEF GiveUp, TimesArePast, handlers
<1>5. ASSUME NEW r \in Requests, Handle(r)
      PROVE  TimesArePast'
    <2>1. CASE ReadAccess(r)
        BY <2>1 DEF ReadAccess, TimesArePast, clients
    <2>2. CASE CommitPush(r)
        BY <2>2 DEF CommitPush, TimesArePast, clients
    <2>3. CASE Fails(r)
        BY <1>1, <2>3 DEF Fails, TimesArePast
    <2>4. CASE PullCars(r)
        BY <2>4 DEF PullCars, TimesArePast, clients
    <2>5. CASE PullServices(r)
        BY <2>5 DEF PullServices, TimesArePast, clients
    <2>6. CASE PullFails(r)
        BY <2>6 DEF PullFails, TimesArePast, clients
    <2>7. CASE Answer(r)
        <3>1. \A q \in Requests : stamp'[q] <= clock'
            BY <1>1, <2>7 DEF Answer
        <3>2. cursor' = cursor \/ cursor' = [cursor EXCEPT ![device[r]] = stamp[r]]
            BY <2>7 DEF Answer, clients, SyncedAt
        <3>3. clock' = clock
            BY <2>7 DEF Answer
        <3>4. QED
            BY <3>1, <3>2, <3>3 DEF TimesArePast, TypeOK
    <2>8. QED
        BY <1>5, <2>1, <2>2, <2>3, <2>4, <2>5, <2>6, <2>7, Zenon DEF Handle
<1>6. ASSUME NEW u \in Users, NEW c \in Cars, AcceptShare(u, c) \/ RevokeShare(u, c)
      PROVE  TimesArePast'
    BY <1>6 DEF AcceptShare, RevokeShare, TimesArePast, handlers, clients
<1>7. CASE UNCHANGED vars
    BY <1>7 DEF vars, handlers, clients, TimesArePast
<1>8. QED
    BY <1>2, <1>3, <1>4, <1>5, <1>6, <1>7, Zenon DEF Next

\* An answer reaches the one device that waits for it, or nobody.
LEMMA AnswerCases ==
    ASSUME TypeOK, WaitsForItsOwn, NEW r \in Requests, Answer(r)
    PROVE  \/ /\ waits[device[r]] = r
              /\ known' = [known EXCEPT ![device[r]] = Merge(known[device[r]], got[r])]
              /\ cursor' = [cursor EXCEPT ![device[r]] = stamp[r]]
              /\ waits' = [waits EXCEPT ![device[r]] = NoRequest]
              /\ \A e \in Devices : e # device[r] => waits[e] # r
           \/ /\ UNCHANGED clients
              /\ \A e \in Devices : waits[e] # r
<1>1. \A e \in Devices : waits[e] = r => e = device[r]
    BY SyncAssumption DEF WaitsForItsOwn
<1>2. CASE waits[device[r]] = r
    BY <1>1, <1>2 DEF Answer, SyncedAt
<1>3. CASE waits[device[r]] # r
    BY <1>1, <1>3 DEF Answer
<1>4. QED
    BY <1>2, <1>3

\* Only a new request, which takes the device's cursor and the time, and the end of one
\* change whom a device waits for.
LEMMA WaitsStep == TypeOK /\ TimesArePast /\ WaitsForItsOwn /\ [Next]_vars => WaitsForItsOwn'
<1> SUFFICES ASSUME TypeOK, TimesArePast, WaitsForItsOwn, [Next]_vars,
                    NEW e \in Devices, waits'[e] # NoRequest
             PROVE  /\ pc'[waits'[e]] # "idle"
                    /\ device'[waits'[e]] = e
                    /\ since'[waits'[e]] <= cursor'[e]
                    /\ cursor'[e] <= stamp'[waits'[e]]
    BY DEF WaitsForItsOwn
<1> DEFINE Own == /\ pc'[waits'[e]] # "idle"
                  /\ device'[waits'[e]] = e
                  /\ since'[waits'[e]] <= cursor'[e]
                  /\ cursor'[e] <= stamp'[waits'[e]]
<1>0. waits[e] \in Requests \union {NoRequest}
    BY DEF TypeOK
<1>1. ASSUME waits'[e] = waits[e], cursor'[e] = cursor[e],
             UNCHANGED <<device, since, stamp>>,
             pc'[waits[e]] = pc[waits[e]] \/ pc'[waits[e]] # "idle"
      PROVE  Own
    BY <1>1 DEF WaitsForItsOwn
<1>2. ASSUME waits'[e] = waits[e], cursor'[e] = cursor[e],
             NEW r \in Requests, waits[e] # r, Finish(r)
      PROVE  Own
    BY <1>0, <1>2 DEF WaitsForItsOwn, Finish, TypeOK
<1>3. ASSUME NEW d \in Devices, NEW k \in Key, Edit(d, k)
      PROVE  Own
    BY <1>1, <1>3 DEF Edit, handlers
<1>4. ASSUME NEW d \in Devices, NEW r \in Requests, Send(d, r)
      PROVE  Own
    <2>1. CASE e = d
        <3>1. waits'[e] = r /\ pc'[r] = "access" /\ device'[r] = e
            BY <1>4, <2>1 DEF Send, TypeOK
        <3>2. since'[r] <= cursor[e] /\ cursor'[e] = cursor[e]
            BY <1>4, <2>1, AllNats DEF Send, TypeOK
        <3>3. stamp'[r] = clock' /\ clock <= clock'
            BY <1>4, AllNats DEF Send, Tick, TypeOK
        <3>4. cursor[e] <= clock /\ clock \in Nat /\ clock' \in Nat /\ cursor[e] \in Nat
            BY <1>4, AllNats, TickTyped, TimeIsNat DEF TimesArePast, Send
        <3>5. cursor[e] <= stamp'[r]
            BY <3>3, <3>4
        <3>6. QED
            BY <3>1, <3>2, <3>5
    <2>2. CASE e # d
        <3>1. waits'[e] = waits[e] /\ cursor'[e] = cursor[e]
            BY <1>4, <2>2 DEF Send, TypeOK
        <3>2. waits[e] # r
            BY <1>4, <3>1 DEF Send, WaitsForItsOwn
        <3>3. QED
            BY <1>0, <1>4, <3>1, <3>2 DEF WaitsForItsOwn, Send, TypeOK
    <2>3. QED
        BY <2>1, <2>2
<1>5. ASSUME NEW d \in Devices, GiveUp(d)
      PROVE  Own
    <2>1. waits'[e] = waits[e]
        BY <1>5 DEF GiveUp, TypeOK
    <2>2. QED
        BY <1>1, <1>5, <2>1 DEF GiveUp, handlers
<1>6. ASSUME NEW r \in Requests, Handle(r)
      PROVE  Own
    <2>1. CASE ReadAccess(r)
        BY <1>0, <1>1, <2>1 DEF ReadAccess, TypeOK, clients
    <2>2. CASE CommitPush(r)
        BY <1>0, <1>1, <2>2 DEF CommitPush, TypeOK, clients
    <2>3. CASE Fails(r)
        <3>1. waits'[e] = waits[e] /\ waits[e] # r
            BY <2>3 DEF Fails
        <3>2. QED
            BY <1>2, <2>3, <3>1 DEF Fails
    <2>4. CASE PullCars(r)
        BY <1>0, <1>1, <2>4 DEF PullCars, TypeOK, clients
    <2>5. CASE PullServices(r)
        BY <1>0, <1>1, <2>5 DEF PullServices, TypeOK, clients
    <2>6. CASE PullFails(r)
        BY <1>0, <1>1, <2>6 DEF PullFails, TypeOK, clients
    <2>7. CASE Answer(r)
        <3>1. waits'[e] = waits[e] /\ waits[e] # r /\ cursor'[e] = cursor[e]
            BY <2>7, AnswerCases DEF TypeOK, clients
        <3>2. QED
            BY <1>2, <2>7, <3>1 DEF Answer
    <2>8. QED
        BY <1>6, <2>1, <2>2, <2>3, <2>4, <2>5, <2>6, <2>7, Zenon DEF Handle
<1>7. ASSUME NEW u \in Users, NEW c \in Cars, AcceptShare(u, c) \/ RevokeShare(u, c)
      PROVE  Own
    BY <1>1, <1>7 DEF AcceptShare, RevokeShare, handlers, clients
<1>8. CASE UNCHANGED vars
    BY <1>1, <1>8 DEF vars, handlers, clients
<1>9. Own
    BY <1>3, <1>4, <1>5, <1>6, <1>7, <1>8, Zenon DEF Next
<1>10. QED
    BY <1>9

\* A commit stores a service only where its car is stored already or comes with it.
LEMMA CommitKeepsCars ==
    ASSUME TypeOK, CarsComeFirst, NEW r \in Requests, db' = Merge(db, Accepting(r))
    PROVE  /\ \A k \in Key : db'[k] # 0 => db'[CarFor(k)] # 0
           /\ \A k \in Key : db[k] # 0 => db'[k] # 0
           /\ \A c \in PushedCars(r) : db'[c] # 0
<1>1. db \in [Key -> Nat] /\ Accepting(r) \in [Key -> Nat] /\ changes[r] \in [Key -> Nat]
    BY AcceptingTyped, TimeIsNat DEF TypeOK
<1>2. \A k \in Key : /\ db'[k] \in {db[k], Accepting(r)[k]}
                     /\ db[k] <= db'[k]
                     /\ Accepting(r)[k] <= db'[k]
    BY <1>1, MergeFacts
<1>3. \A k \in Key : db[k] # 0 => db'[k] # 0
    BY <1>1, <1>2
<1>4. \A k \in Key : Accepting(r)[k] # 0 => db'[k] # 0
    BY <1>1, <1>2
<1>5. \A c \in PushedCars(r) : db'[c] # 0
    <2>1. \A c \in PushedCars(r) : c \in Key /\ Accepting(r)[c] # 0
        BY DEF PushedCars, Accepting, Accepted, Key
    <2>2. QED
        BY <1>4, <2>1
<1>6. ASSUME NEW k \in Key, db'[k] # 0
      PROVE  db'[CarFor(k)] # 0
    <2>1. CASE db[k] # 0
        BY <1>3, <2>1, CarForTyped DEF CarsComeFirst
    <2>2. CASE Accepting(r)[k] # 0
        <3>1. CASE k \in Cars
            BY <1>6, <3>1 DEF CarFor
        <3>2. CASE k \notin Cars
            <4>1. CarFor(k) = CarOf[k] /\ CarOf[k] \in access[r] \union PushedCars(r)
                BY <2>2, <3>2 DEF CarFor, Accepting, Accepted
            <4>2. CarOf[k] \in access[r] => db[CarFor(k)] # 0
                BY <4>1 DEF CarsComeFirst
            <4>3. QED
                BY <1>3, <1>5, <4>1, <4>2, CarForTyped
        <3>3. QED
            BY <3>1, <3>2
    <2>3. QED
        BY <1>2, <1>6, <2>1, <2>2
<1>7. QED
    BY <1>3, <1>5, <1>6

\* Cars come first in every step.
LEMMA CarsStep == TypeOK /\ CarsComeFirst /\ [Next]_vars => CarsComeFirst'
<1> SUFFICES ASSUME TypeOK, CarsComeFirst, [Next]_vars PROVE CarsComeFirst'
    OBVIOUS
<1>1. ASSUME UNCHANGED <<db, access>>
      PROVE  CarsComeFirst'
    BY <1>1 DEF CarsComeFirst, CarFor
<1>2. ASSUME NEW d \in Devices, NEW k \in Key, Edit(d, k)
      PROVE  CarsComeFirst'
    BY <1>1, <1>2 DEF Edit, handlers
<1>3. ASSUME NEW d \in Devices, NEW r \in Requests, Send(d, r)
      PROVE  CarsComeFirst'
    BY <1>1, <1>3 DEF Send
<1>4. ASSUME NEW d \in Devices, GiveUp(d)
      PROVE  CarsComeFirst'
    BY <1>1, <1>4 DEF GiveUp, handlers
<1>5. ASSUME NEW r \in Requests, Handle(r)
      PROVE  CarsComeFirst'
    <2>1. CASE ReadAccess(r)
        BY <2>1 DEF ReadAccess, CarsComeFirst, CarFor, AccessibleCars, TypeOK
    <2>2. CASE CommitPush(r)
        <3>1. /\ \A k \in Key : db'[k] # 0 => db'[CarFor(k)] # 0
              /\ \A k \in Key : db[k] # 0 => db'[k] # 0
              /\ \A c \in PushedCars(r) : db'[c] # 0
            BY <2>2, CommitKeepsCars DEF CommitPush
        <3>2. ASSUME NEW q \in Requests, NEW c \in access'[q]
              PROVE  db'[c] # 0
            <4>1. c \in access[q] \/ c \in PushedCars(r)
                BY <2>2, <3>2 DEF CommitPush, TypeOK
            <4>2. c \in access[q] => db[c] # 0 /\ c \in Key
                BY DEF CarsComeFirst, TypeOK, Key
            <4>3. QED
                BY <3>1, <4>1, <4>2
        <3>3. QED
            BY <3>1, <3>2 DEF CarsComeFirst, CarFor
    <2>3. CASE Fails(r)
        <3>1. \A q \in Requests : access'[q] \subseteq access[q]
            BY <2>3 DEF Fails, Finish, TypeOK
        <3>2. \A q \in Requests : access[q] \subseteq Key
            BY DEF TypeOK, Key
        <3>3. CASE db' = db
            BY <3>1, <3>3 DEF CarsComeFirst, CarFor
        <3>4. CASE db' = Merge(db, Accepting(r))
            <4>1. /\ \A k \in Key : db'[k] # 0 => db'[CarFor(k)] # 0
                  /\ \A k \in Key : db[k] # 0 => db'[k] # 0
                BY <3>4, CommitKeepsCars
            <4>2. QED
                BY <3>1, <3>2, <4>1 DEF CarsComeFirst, CarFor
        <3>5. QED
            BY <2>3, <3>3, <3>4 DEF Fails
    <2>4. CASE PullCars(r)
        BY <1>1, <2>4 DEF PullCars
    <2>5. CASE PullServices(r)
        BY <1>1, <2>5 DEF PullServices
    <2>6. CASE PullFails(r)
        BY <1>1, <2>6 DEF PullFails
    <2>7. CASE Answer(r)
        BY <2>7 DEF Answer, Finish, CarsComeFirst, CarFor, TypeOK
    <2>8. QED
        BY <1>5, <2>1, <2>2, <2>3, <2>4, <2>5, <2>6, <2>7, Zenon DEF Handle
<1>6. ASSUME NEW u \in Users, NEW c \in Cars, AcceptShare(u, c) \/ RevokeShare(u, c)
      PROVE  CarsComeFirst'
    BY <1>1, <1>6 DEF AcceptShare, RevokeShare, handlers
<1>7. CASE UNCHANGED vars
    BY <1>1, <1>7 DEF vars, handlers
<1>8. QED
    BY <1>2, <1>3, <1>4, <1>5, <1>6, <1>7, Zenon DEF Next

\* The commit makes the pushed cars accessible, and they stay so.
LEMMA PushedStep == TypeOK /\ PushedIsAccessible /\ [Next]_vars => PushedIsAccessible'
<1> SUFFICES ASSUME TypeOK, PushedIsAccessible, [Next]_vars, NEW q \in Requests,
                    pc'[q] \in {"cars", "services", "answer"}
             PROVE  {c \in Cars : changes'[q][c] # 0} \subseteq access'[q]
    BY DEF PushedIsAccessible, PushedCars
<1> DEFINE Good == {c \in Cars : changes'[q][c] # 0} \subseteq access'[q]
<1>1. ASSUME pc[q] \in {"cars", "services", "answer"},
             changes'[q] = changes[q], access'[q] = access[q]
      PROVE  Good
    BY <1>1 DEF PushedIsAccessible, PushedCars
<1>2. ASSUME NEW d \in Devices, NEW k \in Key, Edit(d, k)
      PROVE  Good
    BY <1>1, <1>2 DEF Edit, handlers
<1>3. ASSUME NEW d \in Devices, NEW r \in Requests, Send(d, r)
      PROVE  Good
    BY <1>1, <1>3 DEF Send, TypeOK
<1>4. ASSUME NEW d \in Devices, GiveUp(d)
      PROVE  Good
    BY <1>1, <1>4 DEF GiveUp, handlers
<1>5. ASSUME NEW r \in Requests, Handle(r)
      PROVE  Good
    <2>1. CASE ReadAccess(r)
        BY <1>1, <2>1 DEF ReadAccess, TypeOK
    <2>2. CASE CommitPush(r)
        <3>1. CASE q = r
            BY <2>2, <3>1 DEF CommitPush, PushedCars, TypeOK
        <3>2. CASE q # r
            BY <1>1, <2>2, <3>2 DEF CommitPush, TypeOK
        <3>3. QED
            BY <3>1, <3>2
    <2>3. CASE Fails(r)
        BY <1>1, <2>3 DEF Fails, Finish, TypeOK
    <2>4. CASE PullCars(r)
        BY <1>1, <2>4 DEF PullCars, TypeOK
    <2>5. CASE PullServices(r)
        BY <1>1, <2>5 DEF PullServices, TypeOK
    <2>6. CASE PullFails(r)
        BY <1>1, <2>6 DEF PullFails, TypeOK
    <2>7. CASE Answer(r)
        BY <1>1, <2>7 DEF Answer, Finish, TypeOK
    <2>8. QED
        BY <1>5, <2>1, <2>2, <2>3, <2>4, <2>5, <2>6, <2>7, Zenon DEF Handle
<1>6. ASSUME NEW u \in Users, NEW c \in Cars, AcceptShare(u, c) \/ RevokeShare(u, c)
      PROVE  Good
    BY <1>1, <1>6 DEF AcceptShare, RevokeShare, handlers
<1>7. CASE UNCHANGED vars
    BY <1>1, <1>7 DEF vars, handlers
<1>8. Good
    BY <1>2, <1>3, <1>4, <1>5, <1>6, <1>7, Zenon DEF Next
<1>9. QED
    BY <1>8

-----------------------------------------------------------------------------

\* The horizon is the cursor, or the later time of a request whose query has run.
LEMMA HorizonIs ==
    ASSUME TypeOK, WaitsForItsOwn, NEW d \in Devices, NEW k \in Key
    PROVE  /\ cursor[d] <= Horizon(d, k)
           /\ waits[d] # NoRequest /\ PastQueryFor(waits[d], k) =>
                Horizon(d, k) = stamp[waits[d]]
           /\ Horizon(d, k) \in Nat
<1>1. waits[d] \in Requests \union {NoRequest}
    BY DEF TypeOK
<1>2. QED
    BY <1>1, AllNats DEF Horizon, WaitsForItsOwn

\* A step that records in overtaken what it stores or makes visible behind a device's
\* horizon, and that neither moves a cursor nor changes an answer, keeps both parts.
LEMMA CoveredStep ==
    ASSUME TypeOK, WaitsForItsOwn, AnswerOnlyLacksOvertaken, MissedOnlyIfOvertaken,
           NEW K \in SUBSET Key,
           db' \in [Key -> Nat],
           overtaken \subseteq overtaken',
           \A d \in Devices, k \in K :
                /\ Shared(UserOf[d], CarFor(k), shares')
                /\ known[d][k] < db'[k]
                /\ db'[k] <= Horizon(d, k)
                => <<d, k, db'[k]>> \in overtaken',
           \A k \in Key \ K : db'[k] = db[k],
           \A k \in Key \ K, d \in Devices :
                Shared(UserOf[d], CarFor(k), shares') => Visible(UserOf[d], k),
           known' = known, cursor' = cursor,
           \A d \in Devices : waits'[d] # NoRequest =>
                /\ waits'[d] = waits[d]
                /\ stamp'[waits[d]] = stamp[waits[d]]
                /\ got'[waits[d]] = got[waits[d]]
                /\ \A k \in Key : PastQueryFor(waits[d], k)' => PastQueryFor(waits[d], k)
    PROVE  AnswerOnlyLacksOvertaken' /\ MissedOnlyIfOvertaken'
<1>1. \A d \in Devices, k \in Key :
        Visible(UserOf[d], k)' <=> Shared(UserOf[d], CarFor(k), shares')
    BY DEF Visible, CarFor, Shared
<1>2. ASSUME NEW d \in Devices, NEW k \in Key,
             Shared(UserOf[d], CarFor(k), shares'),
             known[d][k] < db'[k],
             db'[k] <= cursor[d]
      PROVE  <<d, k, db'[k]>> \in overtaken'
    <2>1. CASE k \in K
        <3>1. db'[k] <= Horizon(d, k)
            BY <1>2, HorizonIs, AllNats
        <3>2. QED
            BY <1>2, <2>1, <3>1
    <2>2. CASE k \notin K
        <3>1. Missed(d, k)
            BY <1>2, <2>2 DEF Missed
        <3>2. QED
            BY <2>2, <3>1 DEF MissedOnlyIfOvertaken
    <2>3. QED
        BY <2>1, <2>2
<1>3. MissedOnlyIfOvertaken'
    BY <1>1, <1>2 DEF MissedOnlyIfOvertaken, Missed
<1>4. ASSUME NEW d \in Devices, NEW k \in Key,
             waits'[d] # NoRequest,
             PastQueryFor(waits[d], k)',
             Shared(UserOf[d], CarFor(k), shares'),
             known[d][k] < db'[k],
             got'[waits'[d]][k] < db'[k],
             db'[k] <= stamp'[waits'[d]]
      PROVE  <<d, k, db'[k]>> \in overtaken'
    <2>1. /\ waits[d] # NoRequest /\ PastQueryFor(waits[d], k)
          /\ got[waits[d]][k] < db'[k]
          /\ db'[k] <= stamp[waits[d]]
        BY <1>4
    <2>2. CASE k \in K
        BY <1>4, <2>1, <2>2, HorizonIs
    <2>3. CASE k \notin K
        BY <1>4, <2>1, <2>3 DEF AnswerOnlyLacksOvertaken
    <2>4. QED
        BY <2>2, <2>3
<1>5. AnswerOnlyLacksOvertaken'
    BY <1>1, <1>4 DEF AnswerOnlyLacksOvertaken
<1>6. QED
    BY <1>3, <1>5

\* The start or the end of one request leaves the others alone.
LEMMA Untouched ==
    ASSUME TypeOK, NEW r \in Requests, NEW q \in Requests, q # r,
           \/ Finish(r)
           \/ \E d \in Devices : Send(d, r)
    PROVE  /\ stamp'[q] = stamp[q] /\ got'[q] = got[q] /\ pc'[q] = pc[q]
           /\ access'[q] = access[q] /\ changes'[q] = changes[q]
    BY DEF Finish, Send, TypeOK

\* An edit only makes what the device has newer than all that is stored.
LEMMA EditMissed ==
    ASSUME TypeOK, TimesArePast, WaitsForItsOwn, AnswerOnlyLacksOvertaken,
           MissedOnlyIfOvertaken, NEW e \in Devices, NEW h \in Key, Edit(e, h)
    PROVE  AnswerOnlyLacksOvertaken' /\ MissedOnlyIfOvertaken'
<1>1. /\ clock' = clock + 1
      /\ known' = [known EXCEPT ![e][h] = clock + 1]
      /\ UNCHANGED <<db, shares, cursor, waits, overtaken, stamp, got, pc, access, changes>>
    BY DEF Edit, Tick, handlers
<1>2. \A d \in Devices, k \in Key : known'[d][k] = known[d][k] \/ known'[d][k] = clock + 1
    BY <1>1 DEF TypeOK
<1>3. ASSUME NEW d \in Devices, NEW k \in Key, known'[d][k] < db[k]
      PROVE  /\ db[k] <= cursor[d] => known[d][k] < db[k]
             /\ waits[d] # NoRequest /\ db[k] <= stamp[waits[d]] => known[d][k] < db[k]
    <2>1. cursor[d] <= clock /\ (waits[d] # NoRequest => stamp[waits[d]] <= clock)
        BY DEF TimesArePast, TypeOK
    <2>2. waits[d] # NoRequest => stamp[waits[d]] \in Nat
        BY AllNats DEF TypeOK
    <2>3. QED
        BY <1>2, <1>3, <2>1, <2>2, AllNats
<1>4. \A d \in Devices, k \in Key : Visible(UserOf[d], k)' <=> Visible(UserOf[d], k)
    BY <1>1 DEF Visible, Shared, CarFor
<1>5. MissedOnlyIfOvertaken'
    BY <1>1, <1>3, <1>4 DEF MissedOnlyIfOvertaken, Missed
<1>6. \A d \in Devices, k \in Key :
        PastQueryFor(waits[d], k)' <=> PastQueryFor(waits[d], k)
    BY <1>1 DEF PastQueryFor, PushedCars
<1>7. AnswerOnlyLacksOvertaken'
    BY <1>1, <1>3, <1>4, <1>6 DEF AnswerOnlyLacksOvertaken
<1>8. QED
    BY <1>5, <1>7

\* A new request has not run any query.
LEMMA SendMissed ==
    ASSUME TypeOK, WaitsForItsOwn, AnswerOnlyLacksOvertaken, MissedOnlyIfOvertaken,
           NEW e \in Devices, NEW r \in Requests, Send(e, r)
    PROVE  AnswerOnlyLacksOvertaken' /\ MissedOnlyIfOvertaken'
<1>1. /\ UNCHANGED <<db, shares, known, cursor, overtaken, got, access>>
      /\ pc'[r] = "access" /\ pc[r] = "idle" /\ waits'[e] = r
      /\ \A d \in Devices \ {e} : waits'[d] = waits[d]
    BY DEF Send, TypeOK
<1>2. \A d \in Devices, k \in Key : Visible(UserOf[d], k)' <=> Visible(UserOf[d], k)
    BY <1>1 DEF Visible, Shared, CarFor
<1>3. MissedOnlyIfOvertaken'
    BY <1>1, <1>2 DEF MissedOnlyIfOvertaken, Missed
<1>4. ASSUME NEW k \in Key
      PROVE  ~ PastQueryFor(waits[e], k)'
    BY <1>1 DEF PastQueryFor
<1>5. ASSUME NEW d \in Devices, d # e, waits[d] # NoRequest, NEW k \in Key
      PROVE  /\ PastQueryFor(waits[d], k)' => PastQueryFor(waits[d], k)
             /\ stamp'[waits[d]] = stamp[waits[d]]
    <2>1. waits[d] \in Requests /\ waits[d] # r /\ waits'[d] = waits[d]
        BY <1>1, <1>5 DEF TypeOK, WaitsForItsOwn
    <2>2. /\ stamp'[waits[d]] = stamp[waits[d]] /\ pc'[waits[d]] = pc[waits[d]]
          /\ changes'[waits[d]] = changes[waits[d]]
        BY <2>1, Untouched
    <2>3. QED
        BY <1>1, <2>1, <2>2 DEF PastQueryFor, PushedCars
<1>6. AnswerOnlyLacksOvertaken'
    <2> SUFFICES ASSUME NEW d \in Devices, NEW k \in Key,
                        waits'[d] # NoRequest,
                        PastQueryFor(waits[d], k)',
                        Visible(UserOf[d], k)',
                        known'[d][k] < db'[k],
                        got'[waits'[d]][k] < db'[k],
                        db'[k] <= stamp'[waits'[d]]
                 PROVE  <<d, k, db'[k]>> \in overtaken'
        BY DEF AnswerOnlyLacksOvertaken
    <2>1. d # e
        BY <1>4
    <2>2. waits'[d] = waits[d]
        BY <1>1, <2>1
    <2>3. QED
        BY <1>1, <1>2, <1>5, <2>1, <2>2 DEF AnswerOnlyLacksOvertaken
<1>7. QED
    BY <1>3, <1>6

\* Who gives up loses the answer but keeps the cursor.
LEMMA GiveUpMissed ==
    ASSUME TypeOK, WaitsForItsOwn, AnswerOnlyLacksOvertaken, MissedOnlyIfOvertaken,
           NEW e \in Devices, GiveUp(e)
    PROVE  AnswerOnlyLacksOvertaken' /\ MissedOnlyIfOvertaken'
<1>1. /\ UNCHANGED <<db, shares, known, cursor, overtaken, stamp, got, pc, access, changes>>
      /\ \A d \in Devices : waits'[d] # NoRequest => waits'[d] = waits[d]
    BY DEF GiveUp, handlers, TypeOK
<1>2. \A d \in Devices, k \in Key : waits'[d] = waits[d] =>
        (PastQueryFor(waits[d], k)' <=> PastQueryFor(waits[d], k))
    BY <1>1 DEF PastQueryFor, PushedCars
<1>3. \A d \in Devices, k \in Key :
        Shared(UserOf[d], CarFor(k), shares') => Visible(UserOf[d], k)
    BY <1>1 DEF Visible
<1>4. db' \in [Key -> Nat]
    BY <1>1, TimeIsNat DEF TypeOK
<1>5. {} \in SUBSET Key
    OBVIOUS
<1>6. QED
    BY <1>1, <1>2, <1>3, <1>4, <1>5, CoveredStep

\* A new share shows rows that may be behind the horizon; a revoked one hides rows.
LEMMA ShareMissed ==
    ASSUME TypeOK, WaitsForItsOwn, AnswerOnlyLacksOvertaken, MissedOnlyIfOvertaken,
           NEW u \in Users, NEW c \in Cars, AcceptShare(u, c) \/ RevokeShare(u, c)
    PROVE  AnswerOnlyLacksOvertaken' /\ MissedOnlyIfOvertaken'
<1>1. UNCHANGED <<db, known, cursor, waits, stamp, got, pc, access, changes>>
    BY DEF AcceptShare, RevokeShare, handlers, clients
<1>2. \A d \in Devices, k \in Key :
        PastQueryFor(waits[d], k)' <=> PastQueryFor(waits[d], k)
    BY <1>1 DEF PastQueryFor, PushedCars
<1>3. db' \in [Key -> Nat]
    BY <1>1, TimeIsNat DEF TypeOK
<1>4. CASE AcceptShare(u, c)
    <2> DEFINE K == {k \in Key : CarFor(k) = c}
    <2>1. Overtake(K, db', shares')
        BY <1>1, <1>4 DEF AcceptShare
    <2>2. \A k \in Key \ K, d \in Devices :
            Shared(UserOf[d], CarFor(k), shares') => Visible(UserOf[d], k)
        BY <1>4 DEF AcceptShare, Shared, Visible
    <2>3. K \in SUBSET Key
        OBVIOUS
    <2>4. /\ overtaken \subseteq overtaken'
          /\ \A d \in Devices, k \in K :
                /\ Shared(UserOf[d], CarFor(k), shares')
                /\ known[d][k] < db'[k]
                /\ db'[k] <= Horizon(d, k)
                => <<d, k, db'[k]>> \in overtaken'
        BY <2>1, OvertakeFacts
    <2> HIDE DEF K
    <2>5. QED
        BY <1>1, <1>2, <1>3, <2>2, <2>3, <2>4, CoveredStep
<1>5. CASE RevokeShare(u, c)
    <2>1. overtaken' = overtaken
        BY <1>5 DEF RevokeShare
    <2>2. \A d \in Devices, k \in Key :
            Shared(UserOf[d], CarFor(k), shares') => Visible(UserOf[d], k)
        BY <1>5 DEF RevokeShare, Shared, Visible
    <2>3. {} \in SUBSET Key
        OBVIOUS
    <2>4. QED
        BY <1>1, <1>2, <1>3, <2>1, <2>2, <2>3, CoveredStep
<1>6. QED
    BY <1>4, <1>5

\* Of a car that is not accessible when access is read, nothing visible is stored.
LEMMA ReadAccessMissed ==
    ASSUME TypeOK, WaitsForItsOwn, CarsComeFirst, AnswerOnlyLacksOvertaken,
           MissedOnlyIfOvertaken, NEW r \in Requests, ReadAccess(r)
    PROVE  AnswerOnlyLacksOvertaken' /\ MissedOnlyIfOvertaken'
<1>1. /\ UNCHANGED <<db, shares, known, cursor, waits, overtaken, stamp, got, changes>>
      /\ pc'[r] = "commit" /\ access'[r] = AccessibleCars(UserOf[device[r]])
      /\ \A q \in Requests \ {r} : pc'[q] = pc[q] /\ access'[q] = access[q]
    BY DEF ReadAccess, clients, TypeOK
<1>2. \A d \in Devices, k \in Key : Visible(UserOf[d], k)' <=> Visible(UserOf[d], k)
    BY <1>1 DEF Visible, Shared, CarFor
<1>3. MissedOnlyIfOvertaken'
    BY <1>1, <1>2 DEF MissedOnlyIfOvertaken, Missed
<1>4. ASSUME NEW d \in Devices, NEW k \in Key,
             waits[d] # NoRequest,
             PastQueryFor(waits[d], k)',
             Visible(UserOf[d], k),
             known[d][k] < db[k],
             got[waits[d]][k] < db[k],
             db[k] <= stamp[waits[d]]
      PROVE  <<d, k, db[k]>> \in overtaken
    <2>1. CASE waits[d] = r
        <3>1. device[r] = d
            BY <1>4, <2>1 DEF WaitsForItsOwn
        <3>2. k \notin Cars /\ CarOf[k] \notin AccessibleCars(UserOf[d])
            BY <1>1, <1>4, <2>1, <3>1 DEF PastQueryFor
        <3>3. CarFor(k) = CarOf[k] /\ CarOf[k] \in Cars
            BY <3>2, CarForTyped DEF CarFor
        <3>4. db[CarFor(k)] = 0
            BY <1>4, <3>2, <3>3 DEF AccessibleCars, Visible
        <3>5. db[k] = 0
            BY <3>4 DEF CarsComeFirst
        <3>6. QED
            BY <1>4, <3>5, AllNats
    <2>2. CASE waits[d] # r
        <3>1. waits[d] \in Requests \ {r}
            BY <1>4, <2>2 DEF TypeOK
        <3>2. PastQueryFor(waits[d], k)
            BY <1>1, <1>4, <3>1 DEF PastQueryFor, PushedCars
        <3>3. QED
            BY <1>4, <3>2 DEF AnswerOnlyLacksOvertaken
    <2>3. QED
        BY <2>1, <2>2
<1>5. AnswerOnlyLacksOvertaken'
    BY <1>1, <1>2, <1>4 DEF AnswerOnlyLacksOvertaken
<1>6. QED
    BY <1>3, <1>5

\* A commit records the rows it stores behind somebody's horizon.
LEMMA CommitMissed ==
    ASSUME TypeOK, WaitsForItsOwn, AnswerOnlyLacksOvertaken, MissedOnlyIfOvertaken,
           NEW r \in Requests, CommitPush(r) \/ Fails(r)
    PROVE  AnswerOnlyLacksOvertaken' /\ MissedOnlyIfOvertaken'
<1> DEFINE K == {k \in Key : db'[k] # db[k]}
<1>1. /\ UNCHANGED <<shares, known, cursor>>
      /\ UNCHANGED <<db, overtaken>> \/ (db' = Merge(db, Accepting(r)) /\ Overtake(K, db', shares))
    BY DEF CommitPush, Fails, clients
<1>2. db' \in [Key -> Nat]
    <2>1. Merge(db, Accepting(r)) \in [Key -> Time] /\ db \in [Key -> Time]
        BY AcceptingTyped, MergeTyped DEF TypeOK
    <2>2. QED
        BY <1>1, <2>1, TimeIsNat
<1>3. /\ overtaken \subseteq overtaken'
      /\ \A d \in Devices, k \in K :
            /\ Shared(UserOf[d], CarFor(k), shares')
            /\ known[d][k] < db'[k]
            /\ db'[k] <= Horizon(d, k)
            => <<d, k, db'[k]>> \in overtaken'
    <2>1. CASE UNCHANGED <<db, overtaken>>
        BY <2>1
    <2>2. CASE Overtake(K, db', shares)
        BY <1>1, <2>2, OvertakeFacts
    <2>3. QED
        BY <1>1, <2>1, <2>2
<1>4. \A k \in Key \ K, d \in Devices :
        Shared(UserOf[d], CarFor(k), shares') => Visible(UserOf[d], k)
    BY <1>1 DEF Visible
<1>5. ASSUME NEW d \in Devices, waits'[d] # NoRequest
      PROVE  /\ waits'[d] = waits[d]
             /\ stamp'[waits[d]] = stamp[waits[d]]
             /\ got'[waits[d]] = got[waits[d]]
             /\ \A k \in Key : PastQueryFor(waits[d], k)' => PastQueryFor(waits[d], k)
    <2>1. CASE CommitPush(r)
        <3>1. UNCHANGED <<waits, stamp, got, changes>>
            BY <2>1 DEF CommitPush, clients
        <3>2. waits[d] \in Requests
            BY <1>5, <3>1 DEF TypeOK
        <3>3. \A k \in Key : PastQueryFor(waits[d], k)' => PastQueryFor(waits[d], k)
            BY <2>1, <3>1, <3>2 DEF CommitPush, PastQueryFor, PushedCars, TypeOK
        <3>4. QED
            BY <3>1, <3>3
    <2>2. CASE Fails(r)
        <3>1. waits'[d] = waits[d] /\ waits[d] # r /\ waits[d] \in Requests /\ Finish(r)
            BY <1>5, <2>2 DEF Fails, TypeOK
        <3>2. /\ stamp'[waits[d]] = stamp[waits[d]] /\ got'[waits[d]] = got[waits[d]]
              /\ pc'[waits[d]] = pc[waits[d]] /\ access'[waits[d]] = access[waits[d]]
              /\ changes'[waits[d]] = changes[waits[d]]
            BY <3>1, Untouched
        <3>3. \A k \in Key : PastQueryFor(waits[d], k)' => PastQueryFor(waits[d], k)
            BY <3>1, <3>2 DEF PastQueryFor, PushedCars
        <3>4. QED
            BY <3>1, <3>2, <3>3
    <2>3. QED
        BY <2>1, <2>2
<1>6. K \in SUBSET Key /\ \A k \in Key \ K : db'[k] = db[k]
    OBVIOUS
<1> HIDE DEF K
<1>7. QED
    BY <1>1, <1>2, <1>3, <1>4, <1>5, <1>6, CoveredStep

\* A query brings what is newer than the cursor; the rest was missed before. A query
\* that fails records what it should have brought.
LEMMA PullMissed ==
    ASSUME TypeOK, WaitsForItsOwn, PushedIsAccessible, AnswerOnlyLacksOvertaken,
           MissedOnlyIfOvertaken,
           NEW r \in Requests, PullCars(r) \/ PullServices(r) \/ PullFails(r)
    PROVE  AnswerOnlyLacksOvertaken' /\ MissedOnlyIfOvertaken'
<1>1. /\ UNCHANGED <<db, shares, known, cursor, waits, stamp, access, changes, device, since>>
      /\ overtaken \subseteq overtaken'
      /\ \A q \in Requests \ {r} : pc'[q] = pc[q] /\ got'[q] = got[q]
    BY DEF PullCars, PullServices, PullFails, Pull, clients, TypeOK
<1>2. \A d \in Devices, k \in Key : Visible(UserOf[d], k)' <=> Visible(UserOf[d], k)
    BY <1>1 DEF Visible, Shared, CarFor
<1>3. MissedOnlyIfOvertaken'
    BY <1>1, <1>2 DEF MissedOnlyIfOvertaken, Missed
<1>4. ASSUME NEW d \in Devices, NEW k \in Key,
             waits[d] # NoRequest,
             PastQueryFor(waits[d], k)',
             Visible(UserOf[d], k),
             known[d][k] < db[k],
             got'[waits[d]][k] < db[k],
             db[k] <= stamp[waits[d]]
      PROVE  <<d, k, db[k]>> \in overtaken'
    <2>1. CASE waits[d] # r
        <3>1. waits[d] \in Requests \ {r}
            BY <1>4, <2>1 DEF TypeOK
        <3>2. PastQueryFor(waits[d], k)
            BY <1>1, <1>4, <3>1 DEF PastQueryFor, PushedCars
        <3>3. QED
            BY <1>1, <1>4, <3>1, <3>2 DEF AnswerOnlyLacksOvertaken
    <2>2. CASE waits[d] = r
        <3>1. device[r] = d /\ since[r] <= cursor[d]
            BY <1>4, <2>2 DEF WaitsForItsOwn
        <3>2. ASSUME db[k] <= since[r]
              PROVE  <<d, k, db[k]>> \in overtaken'
            <4>1. db[k] <= cursor[d]
                BY <3>1, <3>2, AllNats
            <4>2. QED
                BY <1>1, <1>4, <4>1 DEF MissedOnlyIfOvertaken, Missed
        <3>3. ASSUME PastQueryFor(r, k), got[r][k] < db[k]
              PROVE  <<d, k, db[k]>> \in overtaken'
            BY <1>1, <1>4, <2>2, <3>3 DEF AnswerOnlyLacksOvertaken
        <3>4. CASE PullCars(r)
            <4>1. pc[r] = "cars" /\ pc'[r] = "services"
                BY <3>4 DEF PullCars, TypeOK
            <4>2. got'[r][k] = IF k \in Cars /\ CarMatches(r, k) THEN db[k] ELSE got[r][k]
                BY <3>4 DEF PullCars, Pull, TypeOK
            <4>3. CASE k \in Cars
                <5>1. ~ (db[k] > since[r])
                    BY <1>4, <2>2, <3>1, <4>2, <4>3, AllNats
                    DEF CarMatches, Visible, CarFor
                <5>2. QED
                    BY <3>2, <5>1, AllNats
            <4>4. CASE k \notin Cars
                <5>1. PastQueryFor(r, k)
                    BY <1>1, <1>4, <2>2, <4>1, <4>4 DEF PastQueryFor, PushedCars
                <5>2. QED
                    BY <1>4, <2>2, <3>3, <4>2, <4>4, <5>1
            <4>5. QED
                BY <4>3, <4>4
        <3>5. CASE PullServices(r)
            <4>1. pc[r] = "services" /\ pc'[r] = "answer"
                BY <3>5 DEF PullServices, TypeOK
            <4>2. got'[r][k] = IF k \in Services /\ ServiceMatches(r, k)
                               THEN db[k] ELSE got[r][k]
                BY <3>5 DEF PullServices, Pull, TypeOK
            <4>3. ~ (k \in Services /\ ServiceMatches(r, k)) /\ got[r][k] < db[k]
                BY <1>4, <2>2, <4>2, AllNats
            <4>4. CASE PastQueryFor(r, k)
                BY <3>3, <4>3, <4>4
            <4>5. CASE ~ PastQueryFor(r, k)
                <5>1. k \in Services /\ CarOf[k] \in access[r] \union PushedCars(r)
                    BY <4>1, <4>5 DEF PastQueryFor, Key
                <5>2. CarOf[k] \in access[r]
                    BY <4>1, <5>1 DEF PushedIsAccessible
                <5>3. QED
                    BY <3>2, <4>3, <5>1, <5>2, AllNats DEF ServiceMatches
            <4>6. QED
                BY <4>4, <4>5
        <3>6. CASE PullFails(r)
            <4>1. got' = got /\ pc[r] \in {"cars", "services"}
                BY <3>6 DEF PullFails
            <4>2. pc'[r] = IF pc[r] = "cars" THEN "services" ELSE "answer"
                BY <3>6 DEF PullFails, TypeOK
            <4>3. CASE PastQueryFor(r, k)
                BY <1>4, <2>2, <3>3, <4>1, <4>3
            <4>4. CASE ~ PastQueryFor(r, k)
                <5>1. k \in IF pc[r] = "cars" THEN Cars ELSE Services
                    BY <1>1, <1>4, <2>2, <4>1, <4>2, <4>4 DEF PastQueryFor, PushedCars, Key
                <5>2. QED
                    BY <1>4, <2>2, <3>1, <3>6, <5>1 DEF PullFails
            <4>5. QED
                BY <4>3, <4>4
        <3>7. QED
            BY <3>4, <3>5, <3>6
    <2>3. QED
        BY <2>1, <2>2
<1>5. AnswerOnlyLacksOvertaken'
    BY <1>1, <1>2, <1>4 DEF AnswerOnlyLacksOvertaken
<1>6. QED
    BY <1>3, <1>5

\* A new cursor comes with the rows that the answer has gathered.
LEMMA AnswerMissed ==
    ASSUME TypeOK, WaitsForItsOwn, AnswerOnlyLacksOvertaken, MissedOnlyIfOvertaken,
           NEW r \in Requests, Answer(r)
    PROVE  AnswerOnlyLacksOvertaken' /\ MissedOnlyIfOvertaken'
<1>1. UNCHANGED <<db, shares, overtaken>> /\ Finish(r) /\ pc[r] = "answer"
    BY DEF Answer
<1>2. \A d \in Devices, k \in Key : Visible(UserOf[d], k)' <=> Visible(UserOf[d], k)
    BY <1>1 DEF Visible, Shared, CarFor
<1>3. device[r] \in Devices
    BY DEF TypeOK
<1>4. ASSUME NEW d \in Devices
      PROVE  \/ /\ d = device[r] /\ waits[d] = r
                /\ known'[d] = Merge(known[d], got[r]) /\ cursor'[d] = stamp[r]
                /\ waits'[d] = NoRequest
             \/ /\ waits[d] # r
                /\ known'[d] = known[d] /\ cursor'[d] = cursor[d] /\ waits'[d] = waits[d]
    <2>1. CASE UNCHANGED clients /\ \A e \in Devices : waits[e] # r
        BY <2>1 DEF clients
    <2>2. CASE /\ waits[device[r]] = r
               /\ known' = [known EXCEPT ![device[r]] = Merge(known[device[r]], got[r])]
               /\ cursor' = [cursor EXCEPT ![device[r]] = stamp[r]]
               /\ waits' = [waits EXCEPT ![device[r]] = NoRequest]
               /\ \A e \in Devices : e # device[r] => waits[e] # r
        <3>1. CASE d = device[r]
            BY <1>3, <2>2, <3>1 DEF TypeOK
        <3>2. CASE d # device[r]
            BY <1>3, <2>2, <3>2 DEF TypeOK
        <3>3. QED
            BY <3>1, <3>2
    <2>3. QED
        BY <2>1, <2>2, AnswerCases
<1>5. ASSUME NEW d \in Devices, NEW k \in Key,
             Visible(UserOf[d], k), known'[d][k] < db[k], db[k] <= cursor'[d]
      PROVE  <<d, k, db[k]>> \in overtaken
    <2>1. CASE waits[d] = r
        <3>1. known'[d] = Merge(known[d], got[r]) /\ cursor'[d] = stamp[r]
            BY <1>4, <2>1
        <3>2. known[d] \in [Key -> Nat] /\ got[r] \in [Key -> Nat]
            BY TimeIsNat DEF TypeOK
        <3>3. known[d][k] <= known'[d][k] /\ got[r][k] <= known'[d][k] /\ known'[d][k] \in Nat
            BY <3>1, <3>2, MergeFacts
        <3>4. known[d][k] < db[k] /\ got[r][k] < db[k]
            BY <1>5, <3>2, <3>3, AllNats
        <3>5. PastQueryFor(r, k) /\ waits[d] # NoRequest
            BY <1>1, <2>1, SyncAssumption DEF PastQueryFor
        <3>6. QED
            BY <1>5, <2>1, <3>1, <3>4, <3>5 DEF AnswerOnlyLacksOvertaken
    <2>2. CASE waits[d] # r
        BY <1>4, <1>5, <2>2 DEF MissedOnlyIfOvertaken, Missed
    <2>3. QED
        BY <2>1, <2>2
<1>6. MissedOnlyIfOvertaken'
    BY <1>1, <1>2, <1>5 DEF MissedOnlyIfOvertaken, Missed
<1>7. ASSUME NEW d \in Devices, NEW k \in Key,
             waits'[d] # NoRequest,
             PastQueryFor(waits[d], k)',
             Visible(UserOf[d], k),
             known'[d][k] < db[k],
             got'[waits'[d]][k] < db[k],
             db[k] <= stamp'[waits'[d]]
      PROVE  <<d, k, db[k]>> \in overtaken
    <2>1. waits[d] \in Requests /\ waits[d] # r /\ waits'[d] = waits[d] /\ known'[d] = known[d]
        BY <1>4, <1>7 DEF TypeOK
    <2>2. /\ stamp'[waits[d]] = stamp[waits[d]] /\ got'[waits[d]] = got[waits[d]]
          /\ pc'[waits[d]] = pc[waits[d]] /\ access'[waits[d]] = access[waits[d]]
          /\ changes'[waits[d]] = changes[waits[d]]
        BY <1>1, <2>1, Untouched
    <2>3. PastQueryFor(waits[d], k)
        BY <1>7, <2>1, <2>2 DEF PastQueryFor, PushedCars
    <2>4. QED
        BY <1>7, <2>1, <2>2, <2>3 DEF AnswerOnlyLacksOvertaken
<1>8. AnswerOnlyLacksOvertaken'
    BY <1>1, <1>2, <1>7 DEF AnswerOnlyLacksOvertaken
<1>9. QED
    BY <1>6, <1>8

\* An edit is dirty.
LEMMA EditKeepsEdits ==
    ASSUME TypeOK, EditsHaveCars, OwnPushIsAccepted, PulledIsStored, OwnEditsAreKept,
           NEW e \in Devices, NEW h \in Key, Edit(e, h)
    PROVE  EditsInv'
<1>1. /\ UNCHANGED <<db, device, changes, pc, access, got>>
      /\ known' = [known EXCEPT ![e][h] = clock + 1]
      /\ dirty' = [dirty EXCEPT ![e] = @ \union {h}]
    BY DEF Edit, handlers
<1>2. clock + 1 # 0 /\ clock + 1 \in Nat
    BY AllNats
<1>3. \A d \in Devices, k \in Key :
        known'[d][k] = IF d = e /\ k = h THEN clock + 1 ELSE known[d][k]
    BY <1>1 DEF TypeOK
<1>4. \A d \in Devices : dirty'[d] = IF d = e THEN dirty[d] \union {h} ELSE dirty[d]
    BY <1>1 DEF TypeOK
<1>5. known'[e][CarFor(h)] # 0
    <2>1. CASE h \in Cars
        BY <1>2, <1>3, <2>1 DEF CarFor
    <2>2. CASE h \notin Cars
        <3>1. known[e][CarFor(h)] # 0
            BY <2>2 DEF Edit
        <3>2. QED
            BY <1>2, <1>3, <3>1, CarForTyped
    <2>3. QED
        BY <2>1, <2>2
<1>6. \A d \in Devices : \A k \in dirty'[d] : known'[d][CarFor(k)] # 0
    <2> SUFFICES ASSUME NEW d \in Devices, NEW k \in dirty'[d]
                 PROVE  known'[d][CarFor(k)] # 0
        OBVIOUS
    <2>1. CASE d = e /\ k = h
        BY <1>5, <2>1
    <2>2. CASE ~ (d = e /\ k = h)
        <3>1. k \in dirty[d] /\ k \in Key
            BY <1>4, <2>2 DEF TypeOK
        <3>2. known[d][CarFor(k)] # 0 /\ CarFor(k) \in Key
            BY <3>1, CarForTyped DEF EditsHaveCars
        <3>3. QED
            BY <1>2, <1>3, <3>2
    <2>3. QED
        BY <2>1, <2>2
<1>7. EditsHaveCars'
    BY <1>6 DEF EditsHaveCars, CarFor
<1>8. OwnEditsAreKept'
    BY <1>1, <1>3, <1>4 DEF OwnEditsAreKept, CarFor
<1>9. OwnPushIsAccepted' /\ PulledIsStored'
    BY <1>1 DEF OwnPushIsAccepted, PulledIsStored, IsOwn, CarFor
<1>10. QED
    BY <1>7, <1>8, <1>9 DEF EditsInv

\* A dirty row has its car among the dirty ones, or that one is stored.
LEMMA SendKeepsEdits ==
    ASSUME TypeOK, EditsHaveCars, OwnPushIsAccepted, PulledIsStored, OwnEditsAreKept,
           NEW e \in Devices, NEW r \in Requests, Send(e, r)
    PROVE  EditsInv'
<1>1. /\ UNCHANGED <<db, access, got, known, dirty>>
      /\ pc'[r] = "access" /\ device'[r] = e
      /\ changes'[r] = [k \in Key |-> IF k \in dirty[e] THEN known[e][k] ELSE 0]
      /\ \A q \in Requests \ {r} :
            pc'[q] = pc[q] /\ device'[q] = device[q] /\ changes'[q] = changes[q]
    BY DEF Send, TypeOK
<1>2. EditsHaveCars' /\ PulledIsStored' /\ OwnEditsAreKept'
    BY <1>1 DEF EditsHaveCars, PulledIsStored, OwnEditsAreKept, CarFor
<1>3. ASSUME NEW k \in Key, IsOwn(e, k), changes'[r][k] # 0
      PROVE  changes'[r][CarFor(k)] # 0 \/ db[CarFor(k)] # 0
    <2>1. k \in dirty[e]
        BY <1>1, <1>3
    <2>2. known[e][CarFor(k)] # 0 /\ CarFor(k) \in Key /\ CarFor(k) \in Cars
        BY <2>1, CarForTyped DEF EditsHaveCars
    <2>3. CASE CarFor(k) \in dirty[e]
        BY <1>1, <2>2, <2>3
    <2>4. CASE CarFor(k) \notin dirty[e]
        <3>1. CarFor(CarFor(k)) = CarFor(k)
            BY <2>2 DEF CarFor
        <3>2. ~ (db[CarFor(k)] < known[e][CarFor(k)])
            BY <1>3, <2>2, <2>4, <3>1 DEF OwnEditsAreKept, IsOwn
        <3>3. QED
            BY <2>2, <3>2, AllNats
    <2>5. QED
        BY <2>3, <2>4
<1>4. ASSUME NEW q \in Requests, NEW k \in Key,
             Owner[CarFor(k)] = UserOf[device'[q]], changes'[q][k] # 0
      PROVE  /\ pc'[q] = "access" => changes'[q][CarFor(k)] # 0 \/ db[CarFor(k)] # 0
             /\ pc'[q] = "commit" => changes'[q][CarFor(k)] # 0 \/ CarFor(k) \in access[q]
             /\ pc'[q] \in {"cars", "services", "answer"} => changes'[q][k] <= db[k]
    <2>1. CASE q = r
        BY <1>1, <1>3, <1>4, <2>1 DEF IsOwn
    <2>2. CASE q # r
        BY <1>1, <1>4, <2>2 DEF OwnPushIsAccepted, IsOwn
    <2>3. QED
        BY <2>1, <2>2
<1>5. OwnPushIsAccepted'
    BY <1>1, <1>4 DEF OwnPushIsAccepted, IsOwn, CarFor
<1>6. QED
    BY <1>2, <1>5 DEF EditsInv

\* A stored car of the user's own is accessible.
LEMMA ReadKeepsEdits ==
    ASSUME TypeOK, EditsHaveCars, OwnPushIsAccepted, PulledIsStored, OwnEditsAreKept,
           NEW r \in Requests, ReadAccess(r)
    PROVE  EditsInv'
<1>1. /\ UNCHANGED <<db, device, changes, got, known, dirty>>
      /\ pc[r] = "access" /\ pc'[r] = "commit"
      /\ access'[r] = AccessibleCars(UserOf[device[r]])
      /\ \A q \in Requests \ {r} : pc'[q] = pc[q] /\ access'[q] = access[q]
    BY DEF ReadAccess, clients, TypeOK
<1>2. EditsHaveCars' /\ PulledIsStored' /\ OwnEditsAreKept'
    BY <1>1 DEF EditsHaveCars, PulledIsStored, OwnEditsAreKept, CarFor
<1>3. ASSUME NEW q \in Requests, NEW k \in Key, IsOwn(device[q], k), changes[q][k] # 0
      PROVE  /\ pc'[q] = "access" => changes[q][CarFor(k)] # 0 \/ db[CarFor(k)] # 0
             /\ pc'[q] = "commit" => changes[q][CarFor(k)] # 0 \/ CarFor(k) \in access'[q]
             /\ pc'[q] \in {"cars", "services", "answer"} => changes[q][k] <= db[k]
    <2>1. CASE q = r
        <3>1. changes[r][CarFor(k)] # 0 \/ db[CarFor(k)] # 0
            BY <1>1, <1>3, <2>1 DEF OwnPushIsAccepted
        <3>2. db[CarFor(k)] # 0 => CarFor(k) \in access'[r]
            BY <1>1, <1>3, <2>1, CarForTyped DEF AccessibleCars, Shared, IsOwn
        <3>3. QED
            BY <1>1, <2>1, <3>1, <3>2
    <2>2. CASE q # r
        BY <1>1, <1>3, <2>2 DEF OwnPushIsAccepted
    <2>3. QED
        BY <2>1, <2>2
<1>4. OwnPushIsAccepted'
    BY <1>1, <1>3 DEF OwnPushIsAccepted, IsOwn, CarFor
<1>5. QED
    BY <1>2, <1>4 DEF EditsInv

\* A commit stores all that the owner pushed.
LEMMA CommitKeepsEdits ==
    ASSUME TypeOK, EditsHaveCars, OwnPushIsAccepted, PulledIsStored, OwnEditsAreKept,
           NEW r \in Requests, CommitPush(r) \/ Fails(r)
    PROVE  EditsInv'
<1>1. UNCHANGED <<device, known, dirty>>
    BY DEF CommitPush, Fails, Finish, clients
<1>2. db \in [Key -> Nat] /\ changes[r] \in [Key -> Nat] /\ Accepting(r) \in [Key -> Nat]
    BY AcceptingTyped, TimeIsNat DEF TypeOK
<1>3. db' = db \/ db' = Merge(db, Accepting(r))
    BY DEF CommitPush, Fails
<1>4. \A k \in Key : db[k] <= db'[k] /\ db'[k] \in Nat
    BY <1>2, <1>3, MergeFacts
<1>5. OwnEditsAreKept'
    <2>1. \A d \in Devices, k \in Key : db'[k] < known[d][k] => db[k] < known[d][k]
        BY <1>4, AllNats
    <2>2. QED
        BY <1>1, <2>1 DEF OwnEditsAreKept, CarFor
<1>6. EditsHaveCars'
    BY <1>1 DEF EditsHaveCars, CarFor
<1>7. PulledIsStored'
    <2>1. \A q \in Requests, k \in Key : got'[q][k] = got[q][k] \/ got'[q][k] = 0
        <3>1. CASE CommitPush(r)
            BY <3>1 DEF CommitPush
        <3>2. CASE Fails(r)
            BY <3>2 DEF Fails, Finish, Nothing, TypeOK
        <3>3. QED
            BY <3>1, <3>2
    <2>2. QED
        BY <1>4, <2>1, AllNats DEF PulledIsStored
<1>8. ASSUME NEW q \in Requests, NEW k \in Key, IsOwn(device[q], k), changes'[q][k] # 0
      PROVE  /\ pc'[q] = "access" => changes'[q][CarFor(k)] # 0 \/ db'[CarFor(k)] # 0
             /\ pc'[q] = "commit" => changes'[q][CarFor(k)] # 0 \/ CarFor(k) \in access'[q]
             /\ pc'[q] \in {"cars", "services", "answer"} => changes'[q][k] <= db'[k]
    <2>1. CASE q # r
        <3>1. pc'[q] = pc[q] /\ access'[q] = access[q] /\ changes'[q] = changes[q]
            BY <2>1 DEF CommitPush, Fails, Finish, TypeOK
        <3>2. db[CarFor(k)] # 0 => db'[CarFor(k)] # 0
            BY <1>4, CarForTyped, AllNats
        <3>3. changes[q][k] <= db[k] => changes[q][k] <= db'[k]
            BY <1>4, AllNats
        <3>4. QED
            BY <1>8, <3>1, <3>2, <3>3 DEF OwnPushIsAccepted
    <2>2. CASE q = r /\ CommitPush(r)
        <3>1. /\ pc[r] = "commit" /\ pc'[r] = "cars" /\ changes' = changes
              /\ db' = Merge(db, Accepting(r))
            BY <2>2 DEF CommitPush, TypeOK
        <3>2. changes[r][CarFor(k)] # 0 \/ CarFor(k) \in access[r]
            BY <1>8, <2>2, <3>1 DEF OwnPushIsAccepted
        <3>3. Accepted(r, k)
            BY <3>2, CarForTyped DEF Accepted, PushedCars, CarFor
        <3>4. Accepting(r)[k] = changes[r][k]
            BY <3>3 DEF Accepting
        <3>5. changes[r][k] <= db'[k]
            BY <1>2, <3>1, <3>4, MergeFacts
        <3>6. QED
            BY <2>2, <3>1, <3>5
    <2>3. CASE q = r /\ Fails(r)
        BY <1>8, <2>3 DEF Fails, Finish, Nothing, TypeOK
    <2>4. QED
        BY <2>1, <2>2, <2>3
<1>9. OwnPushIsAccepted'
    BY <1>1, <1>8 DEF OwnPushIsAccepted, IsOwn, CarFor
<1>10. QED
    BY <1>5, <1>6, <1>7, <1>9 DEF EditsInv

\* Queries store nothing.
LEMMA PullKeepsEdits ==
    ASSUME TypeOK, EditsHaveCars, OwnPushIsAccepted, PulledIsStored, OwnEditsAreKept,
           NEW r \in Requests, PullCars(r) \/ PullServices(r) \/ PullFails(r)
    PROVE  EditsInv'
<1>1. /\ UNCHANGED <<db, device, changes, access, known, dirty>>
      /\ \A q \in Requests : pc'[q] = pc[q] \/
            (pc[q] \in {"cars", "services"} /\ pc'[q] \in {"services", "answer"})
    BY DEF PullCars, PullServices, PullFails, clients, TypeOK
<1>2. \A q \in Requests, k \in Key : got'[q][k] = got[q][k] \/ got'[q][k] = db[k]
    BY DEF PullCars, PullServices, PullFails, Pull, TypeOK
<1>3. EditsHaveCars' /\ OwnEditsAreKept'
    BY <1>1 DEF EditsHaveCars, OwnEditsAreKept, CarFor
<1>4. PulledIsStored'
    BY <1>1, <1>2, AllNats DEF PulledIsStored
<1>5. OwnPushIsAccepted'
    BY <1>1 DEF OwnPushIsAccepted, IsOwn, CarFor
<1>6. QED
    BY <1>3, <1>4, <1>5 DEF EditsInv

\* An answer takes from the dirty rows only those that were stored as they are.
LEMMA AnswerKeepsEdits ==
    ASSUME TypeOK, WaitsForItsOwn, EditsHaveCars, OwnPushIsAccepted, PulledIsStored,
           OwnEditsAreKept, NEW r \in Requests, Answer(r)
    PROVE  EditsInv'
<1> DEFINE e == device[r]
<1>1. /\ UNCHANGED <<db, device>> /\ Finish(r) /\ pc[r] = "answer"
      /\ e \in Devices
    BY DEF Answer, Finish, TypeOK
<1>2. \/ UNCHANGED <<known, dirty>>
      \/ /\ known' = [known EXCEPT ![e] = Merge(known[e], got[r])]
         /\ dirty' = [dirty EXCEPT ![e] = {k \in @ : known[e][k] # changes[r][k]}]
    BY DEF Answer, clients
<1>3. \A k \in Key : /\ Merge(known[e], got[r])[k] \in {known[e][k], got[r][k]}
                     /\ known[e][k] <= Merge(known[e], got[r])[k]
                     /\ Merge(known[e], got[r])[k] \in Nat
    <2>1. known[e] \in [Key -> Nat] /\ got[r] \in [Key -> Nat]
        BY <1>1, TimeIsNat DEF TypeOK
    <2>2. QED
        BY <2>1, MergeFacts
<1>4. \A d \in Devices, k \in Key :
        /\ known[d][k] <= known'[d][k]
        /\ known'[d][k] \in Nat
        /\ known'[d][k] = known[d][k] \/ (d = e /\ known'[d][k] = got[r][k])
    <2>1. CASE known' = known
        BY <2>1, AllNats
    <2>2. CASE known' = [known EXCEPT ![e] = Merge(known[e], got[r])]
        <3>1. known'[e] = Merge(known[e], got[r]) /\ \A d \in Devices \ {e} : known'[d] = known[d]
            BY <1>1, <2>2 DEF TypeOK
        <3>2. QED
            BY <1>3, <3>1, AllNats
    <2>3. QED
        BY <1>2, <2>1, <2>2
<1>5. ASSUME NEW d \in Devices
      PROVE  /\ dirty'[d] \subseteq dirty[d]
             /\ \A k \in dirty[d] \ dirty'[d] : d = e /\ known[d][k] = changes[r][k]
    BY <1>1, <1>2 DEF TypeOK
<1>6. EditsHaveCars'
    <2>1. ASSUME NEW d \in Devices, NEW k \in dirty'[d]
          PROVE  known'[d][CarFor(k)] # 0
        <3>1. k \in dirty[d] /\ k \in Key
            BY <1>5, <2>1 DEF TypeOK
        <3>2. known[d][CarFor(k)] # 0 /\ CarFor(k) \in Key
            BY <3>1, CarForTyped DEF EditsHaveCars
        <3>3. QED
            BY <1>4, <3>2, AllNats
    <2>2. QED
        BY <2>1 DEF EditsHaveCars, CarFor
<1>7. ASSUME NEW d \in Devices, NEW k \in Key, IsOwn(d, k), db[k] < known'[d][k]
      PROVE  k \in dirty'[d]
    <2>1. known'[d][k] = known[d][k]
        <3>1. got[r][k] <= db[k]
            BY DEF PulledIsStored
        <3>2. QED
            BY <1>4, <1>7, <3>1, AllNats
    <2>2. k \in dirty[d]
        BY <1>7, <2>1 DEF OwnEditsAreKept, IsOwn
    <2>3. ASSUME k \notin dirty'[d]
          PROVE  FALSE
        <3>1. d = e /\ known[d][k] = changes[r][k]
            BY <1>5, <2>2, <2>3
        <3>2. changes[r][k] # 0
            BY <1>7, <2>1, <3>1, AllNats
        <3>3. changes[r][k] <= db[k]
            BY <1>1, <1>7, <3>1, <3>2 DEF OwnPushIsAccepted
        <3>4. QED
            BY <1>7, <2>1, <3>1, <3>3, AllNats
    <2>4. QED
        BY <2>3
<1>8. OwnEditsAreKept'
    BY <1>1, <1>7 DEF OwnEditsAreKept, IsOwn, CarFor
<1>9. PulledIsStored'
    <2>1. \A q \in Requests, k \in Key : got'[q][k] = got[q][k] \/ got'[q][k] = 0
        BY <1>1 DEF Finish, Nothing, TypeOK
    <2>2. QED
        BY <1>1, <2>1, AllNats DEF PulledIsStored
<1>10. OwnPushIsAccepted'
    <2>1. \A q \in Requests \ {r} :
            pc'[q] = pc[q] /\ access'[q] = access[q] /\ changes'[q] = changes[q]
        BY <1>1, Untouched
    <2>2. \A k \in Key : changes'[r][k] = 0
        BY <1>1 DEF Finish, Nothing, TypeOK
    <2>3. QED
        BY <1>1, <2>1, <2>2 DEF OwnPushIsAccepted, IsOwn, CarFor
<1>11. QED
    BY <1>6, <1>8, <1>9, <1>10 DEF EditsInv

\* Each step keeps the invariant about edits.
LEMMA EditsStep ==
    TypeOK /\ WaitsForItsOwn /\ TimesArePast /\ EditsInv /\ [Next]_vars => EditsInv'
<1> SUFFICES ASSUME TypeOK, WaitsForItsOwn, TimesArePast, EditsInv, [Next]_vars
             PROVE  EditsInv'
    OBVIOUS
<1>0. EditsHaveCars /\ OwnPushIsAccepted /\ PulledIsStored /\ OwnEditsAreKept
    BY DEF EditsInv
<1>1. ASSUME NEW d \in Devices, NEW k \in Key, Edit(d, k)
      PROVE  EditsInv'
    BY <1>0, <1>1, EditKeepsEdits
<1>2. ASSUME NEW d \in Devices, NEW r \in Requests, Send(d, r)
      PROVE  EditsInv'
    BY <1>0, <1>2, SendKeepsEdits
<1>3. ASSUME NEW r \in Requests, Handle(r)
      PROVE  EditsInv'
    <2>1. CASE ReadAccess(r)
        BY <1>0, <2>1, ReadKeepsEdits
    <2>2. CASE CommitPush(r) \/ Fails(r)
        BY <1>0, <2>2, CommitKeepsEdits
    <2>3. CASE PullCars(r) \/ PullServices(r) \/ PullFails(r)
        BY <1>0, <2>3, PullKeepsEdits
    <2>4. CASE Answer(r)
        BY <1>0, <2>4, AnswerKeepsEdits
    <2>5. QED
        BY <1>3, <2>1, <2>2, <2>3, <2>4, Zenon DEF Handle
<1>4. ASSUME UNCHANGED <<db, handlers, known, dirty>>
      PROVE  EditsInv'
    BY <1>0, <1>4 DEF EditsInv, EditsHaveCars, OwnPushIsAccepted, PulledIsStored,
        OwnEditsAreKept, IsOwn, CarFor, handlers
<1>5. ASSUME NEW d \in Devices, GiveUp(d)
      PROVE  EditsInv'
    BY <1>4, <1>5 DEF GiveUp
<1>6. ASSUME NEW u \in Users, NEW c \in Cars, AcceptShare(u, c) \/ RevokeShare(u, c)
      PROVE  EditsInv'
    BY <1>4, <1>6 DEF AcceptShare, RevokeShare, clients
<1>7. CASE UNCHANGED vars
    BY <1>4, <1>7 DEF vars, clients
<1>8. QED
    BY <1>1, <1>2, <1>3, <1>5, <1>6, <1>7, Zenon DEF Next

\* Each step keeps the invariant about missed rows.
LEMMA InvStep == TypeOK /\ Inv /\ [Next]_vars => Inv'
<1> SUFFICES ASSUME TypeOK, Inv, [Next]_vars PROVE Inv'
    OBVIOUS
<1> DEFINE Good == AnswerOnlyLacksOvertaken' /\ MissedOnlyIfOvertaken'
<1>0. /\ TimesArePast /\ WaitsForItsOwn /\ CarsComeFirst /\ PushedIsAccessible
      /\ AnswerOnlyLacksOvertaken /\ MissedOnlyIfOvertaken
    BY DEF Inv
<1>1. TimesArePast' /\ WaitsForItsOwn' /\ CarsComeFirst' /\ PushedIsAccessible'
    BY <1>0, TimesStep, WaitsStep, CarsStep, PushedStep
<1>2. ASSUME NEW d \in Devices, NEW k \in Key, Edit(d, k)
      PROVE  Good
    BY <1>0, <1>2, EditMissed
<1>3. ASSUME NEW d \in Devices, NEW r \in Requests, Send(d, r)
      PROVE  Good
    BY <1>0, <1>3, SendMissed
<1>4. ASSUME NEW d \in Devices, GiveUp(d)
      PROVE  Good
    BY <1>0, <1>4, GiveUpMissed
<1>5. ASSUME NEW r \in Requests, Handle(r)
      PROVE  Good
    <2>1. CASE ReadAccess(r)
        BY <1>0, <2>1, ReadAccessMissed
    <2>2. CASE CommitPush(r) \/ Fails(r)
        BY <1>0, <2>2, CommitMissed
    <2>3. CASE PullCars(r) \/ PullServices(r) \/ PullFails(r)
        BY <1>0, <2>3, PullMissed
    <2>4. CASE Answer(r)
        BY <1>0, <2>4, AnswerMissed
    <2>5. QED
        BY <1>5, <2>1, <2>2, <2>3, <2>4, Zenon DEF Handle
<1>6. ASSUME NEW u \in Users, NEW c \in Cars, AcceptShare(u, c) \/ RevokeShare(u, c)
      PROVE  Good
    BY <1>0, <1>6, ShareMissed
<1>7. ASSUME UNCHANGED vars
      PROVE  Good
    BY <1>0, <1>7 DEF vars, handlers, clients, AnswerOnlyLacksOvertaken, MissedOnlyIfOvertaken,
        Missed, Visible, Shared, CarFor, PastQueryFor, PushedCars
<1>8. Good
    BY <1>2, <1>3, <1>4, <1>5, <1>6, <1>7, Zenon DEF Next
<1>9. QED
    BY <1>1, <1>8 DEF Inv

\* What devices and the answers on their way to them lack is what was overtaken
\* (sync.go, 42-176).
THEOREM Invariant == Spec => []Inv
<1>1. Init => Inv
    <2> SUFFICES ASSUME Init PROVE Inv
        OBVIOUS
    <2>1. TimesArePast /\ WaitsForItsOwn /\ CarsComeFirst /\ PushedIsAccessible
        BY CarForTyped
        DEF Init, TimesArePast, WaitsForItsOwn, CarsComeFirst, PushedIsAccessible, Nothing
    <2>2. \A d \in Devices, k \in Key : waits[d] = NoRequest /\ known[d][k] = 0 /\ db[k] = 0
        BY DEF Init, Nothing
    <2>3. AnswerOnlyLacksOvertaken /\ MissedOnlyIfOvertaken
        BY <2>2 DEF AnswerOnlyLacksOvertaken, MissedOnlyIfOvertaken, Missed
    <2>4. QED
        BY <2>1, <2>3 DEF Inv
<1>2. QED
    BY <1>1, InvStep, TypeCorrect, PTL DEF Spec

\* Any number of devices, users and requests, with lost answers and failed
\* queries: a device loses a row only in the ways that overtaken records
\* (sync.go, 42-176).
THEOREM MissedIsOvertaken == Spec => []MissedOnlyIfOvertaken
<1>1. Inv => MissedOnlyIfOvertaken
    BY DEF Inv
<1>2. QED
    BY <1>1, Invariant, PTL

\* No edit of an owner is forgotten by the device before it has been stored
\* (sync.go, 82-135).
THEOREM EditsAreKept == Spec => []OwnEditsAreKept
<1>1. Init => EditsInv
    <2> SUFFICES ASSUME Init PROVE EditsInv
        OBVIOUS
    <2>1. /\ \A d \in Devices : dirty[d] = {} /\ \A k \in Key : known[d][k] = 0
          /\ \A r \in Requests, k \in Key : changes[r][k] = 0 /\ got[r][k] = 0
          /\ \A k \in Key : db[k] = 0
        BY DEF Init, Nothing
    <2>2. QED
        BY <2>1 DEF EditsInv, EditsHaveCars, OwnPushIsAccepted, PulledIsStored, OwnEditsAreKept
<1>2. Inv => WaitsForItsOwn /\ TimesArePast
    BY DEF Inv
<1>3. EditsInv => OwnEditsAreKept
    BY DEF EditsInv
<1>4. QED
    BY <1>1, <1>2, <1>3, EditsStep, Invariant, TypeCorrect, PTL DEF Spec

-----------------------------------------------------------------------------
(* A push, which is one step here, is a batch of LwwStore, as it is        *)
(* statement by statement in SyncPush.                                     *)

\* A row as LwwStore has it.  In Sync nothing is deleted and no parent changes.
RowAt(k, t) ==
    [parent |-> IF k \in Cars THEN Owner[k] ELSE CarOf[k], at |-> t, deleted |-> FALSE]

Absent == [parent |-> {}, at |-> 0, deleted |-> FALSE]

WriteAt(k, t) ==
    [key |-> k, parent |-> RowAt(k, t).parent, at |-> t, deleted |-> FALSE]

RowOf(k, t) == IF t = 0 THEN Absent ELSE RowAt(k, t)

StoredRows == [k \in Key |-> RowOf(k, db[k])]

\* The accepted rows of a push as writes.
Batch(new) == {WriteAt(k, new[k]) : k \in {q \in Key : new[q] # 0}}

Lww == INSTANCE LwwStore WITH
    store   <- StoredRows,
    NoRow   <- Absent,
    Row     <- {RowAt(k, t) : k \in Key, t \in Time \ {0}},
    Batches <- {Batch(new) : new \in [Key -> Time]}

\* The later of two instants is what the rule of LwwStore chooses.
LEMMA MergeIsNewestWins ==
    ASSUME NEW old \in Time, NEW new \in [Key -> Time], NEW k \in Key
    PROVE  Lww!Merges(RowOf(k, old), Batch(new), k, RowOf(k, Max2(old, new[k])))
<1>t. old \in Nat /\ new[k] \in Nat
    BY TimeIsNat
<1>1. \A w \in Batch(new) : w.key = k => w = WriteAt(k, new[k]) /\ new[k] # 0
    BY DEF Batch, WriteAt
<1>2. new[k] # 0 => WriteAt(k, new[k]) \in Batch(new)
    BY DEF Batch
<1>3. RowOf(k, old).at = old /\ (RowOf(k, old) = Absent <=> old = 0)
    BY <1>t DEF RowOf, Absent, RowAt
<1>4. CASE new[k] <= old
    <2>1. Max2(old, new[k]) = old
        BY <1>4, <1>t DEF Max2
    <2>2. \A w \in Batch(new) : w.key = k => ~ Lww!Newer(RowOf(k, old), w)
        BY <1>1, <1>3, <1>4, <1>t DEF Lww!Newer, WriteAt
    <2>3. QED
        BY <2>1, <2>2 DEF Lww!Merges
<1>5. CASE old < new[k]
    <2> DEFINE w0 == WriteAt(k, new[k])
    <2>1. Max2(old, new[k]) = new[k] /\ new[k] # 0
        BY <1>5, <1>t DEF Max2
    <2>2. w0 \in Batch(new) /\ w0.key = k /\ w0.at = new[k]
        BY <1>2, <2>1 DEF WriteAt
    <2>3. Lww!Newer(RowOf(k, old), w0)
        BY <1>3, <1>5, <2>2 DEF Lww!Newer
    <2>4. w0 \in Lww!Newest(Batch(new), k)
        BY <1>1, <1>t, <2>2 DEF Lww!Newest
    <2>5. RowAt(k, new[k]).parent \in Lww!Parents(RowOf(k, old), Batch(new), k)
        <3>1. CASE old = 0
            BY <1>3, <2>2, <3>1 DEF Lww!Parents, WriteAt
        <3>2. CASE old # 0
            BY <1>3, <3>2 DEF Lww!Parents, RowOf, RowAt
        <3>3. QED
            BY <3>1, <3>2
    <2>6. RowOf(k, new[k]) =
            [parent |-> RowAt(k, new[k]).parent, at |-> w0.at, deleted |-> w0.deleted]
        BY <2>1 DEF RowOf, RowAt, WriteAt
    <2>7. QED
        BY <2>1, <2>2, <2>3, <2>4, <2>5, <2>6 DEF Lww!Merges
<1>6. QED
    BY <1>4, <1>5, <1>t

\* Committing a push applies the batch of its accepted rows.
LEMMA CommitIsBatch ==
    ASSUME TypeOK, NEW r \in Requests, db' = Merge(db, Accepting(r))
    PROVE  Lww!Next
<1>1. Accepting(r) \in [Key -> Time]
    BY AcceptingTyped
<1>2. \A k \in Key : db[k] \in Time /\ db'[k] = Max2(db[k], Accepting(r)[k])
    BY DEF TypeOK, Merge
<1>3. \A k \in Key : StoredRows[k] = RowOf(k, db[k]) /\ StoredRows'[k] = RowOf(k, db'[k])
    BY DEF StoredRows
<1>4. \A k \in Key :
        Lww!Merges(StoredRows[k], Batch(Accepting(r)), k, StoredRows'[k])
    BY <1>1, <1>2, <1>3, MergeIsNewestWins
<1>5. StoredRows' = [k \in Key |-> StoredRows'[k]]
    BY DEF StoredRows
<1>6. Lww!Apply(Batch(Accepting(r)))
    BY <1>4, <1>5 DEF Lww!Apply
<1>7. QED
    BY <1>1, <1>6 DEF Lww!Next

PushesAreBatches == Lww!Spec

\* Whatever else a sync does, taken as one step its push is no more than
\* LwwStore promises: the later edit of a row wins, and a request that its device
\* has given up and that commits after a newer one takes nothing back
\* (sync.go, 66-135; cars.go, 19).
THEOREM SyncRefinesStore == Spec => PushesAreBatches
<1>1. Init => Lww!Init
    BY DEF Init, Lww!Init, StoredRows, RowOf, Nothing
<1>2. ASSUME TypeOK, [Next]_vars
      PROVE  [Lww!Next]_StoredRows
    <2>1. UNCHANGED db => UNCHANGED StoredRows
        BY DEF StoredRows
    <2>2. UNCHANGED db \/ \E r \in Requests : db' = Merge(db, Accepting(r))
        BY <1>2, Zenon DEF Next, vars, handlers, clients, Edit, Send, GiveUp, Handle,
            ReadAccess, CommitPush, Fails, PullCars, PullServices, PullFails, Answer,
            AcceptShare, RevokeShare
    <2>3. QED
        BY <1>2, <2>1, <2>2, CommitIsBatch
<1>3. QED
    BY <1>1, <1>2, TypeCorrect, PTL DEF Spec, PushesAreBatches, Lww!Spec
=============================================================================
