--------------------------- MODULE SyncPushProofs ---------------------------
(* What SyncPush guarantees for any users, cars, rows, requests and pushes.  *)
EXTENDS SyncPush, TLAPS

-----------------------------------------------------------------------------
(* Facts about the data.                                                   *)

\* A pushed list is a finite list of items.
LEMMA PushLists ==
    ASSUME NEW p \in Pushes
    PROVE  /\ Len(p) \in Nat
           /\ \A n \in 1 .. Len(p) : p[n] \in Item
BY PushesAssumption

\* The key and the parent of a pushed row are of the kinds the tables hold.
LEMMA WriteTyped ==
    ASSUME NEW u \in Users, NEW i \in Item, IsCar(i) => i.car = i.id,
           NEW mine
    PROVE  /\ RowKey(u, i) \in Key
           /\ Write(u, i, mine).key = RowKey(u, i)
           /\ Write(u, i, mine).parent \in Users \union Cars
           /\ Write(u, i, mine).at \in Times
           /\ Write(u, i, mine).deleted \in BOOLEAN
<1>1. RowKey(u, i) \in Key
    BY DEF RowKey, Key, Item, Ids
<1>2. (i.deleted /\ (IsCar(i) \/ i.car \in mine)) \in BOOLEAN
    OBVIOUS
<1> QED
    BY <1>1, <1>2 DEF Write, Item, IsCar

\* An upsert leaves a row, not older than the row before it and than what it carries.
LEMMA UpsertTyped ==
    ASSUME NEW old \in Rows, NEW w,
           w.parent \in Users \union Cars, w.at \in Times, w.deleted \in BOOLEAN
    PROVE  Upsert(old, w) \in Row
BY NullAssumption DEF Upsert, Rows, Row

-----------------------------------------------------------------------------
(* Type correctness.                                                       *)

\* A handler that returns leaves its request typed (Finish).
LEMMA FinishTyped ==
    ASSUME TypeOK, NEW r \in Requests, Finish(r), users' \subseteq Users,
           db' \in [Key -> Rows], shares' \subseteq Users \X Cars
    PROVE  TypeOK'
<1>1. NoWrites \in [Key -> Rows]
    BY DEF NoWrites, Rows
<1> QED
    BY <1>1 DEF TypeOK, Finish, States

\* The initial state is typed.
LEMMA InitTyped == Init => TypeOK
<1>1. NoWrites \in [Key -> Rows]
    BY DEF NoWrites, Rows
<1> QED
    BY <1>1 DEF Init, TypeOK, States

\* What a transaction sees of a row, and what it stores, is a row or none.
LEMMA SeenTyped ==
    ASSUME TypeOK, NEW r \in Requests, NEW k \in Key
    PROVE  Seen(r, k) \in Rows
BY DEF TypeOK, Seen

\* The item that a pushing request is at.
LEMMA NextItemTyped ==
    ASSUME TypeOK, NEW r \in Requests, Pushing(r)
    PROVE  /\ user[r] \in Users
           /\ push[r] \in Pushes
           /\ pos[r] \in 1 .. Len(push[r])
           /\ Len(push[r]) \in Nat
           /\ NextItem(r) \in Item
           /\ IsCar(NextItem(r)) => NextItem(r).car = NextItem(r).id
           /\ NextKey(r) \in Key
<1>1. user[r] \in Users /\ push[r] \in Pushes /\ pos[r] \in Nat \ {0}
    BY DEF TypeOK, Pushing
<1>2. Len(push[r]) \in Nat /\ \A n \in 1 .. Len(push[r]) : push[r][n] \in Item
    BY <1>1, PushLists
<1>3. pos[r] \in 1 .. Len(push[r])
    BY <1>1, <1>2 DEF Pushing
<1>4. IsCar(NextItem(r)) => NextItem(r).car = NextItem(r).id
    BY <1>1, <1>3, PushesAssumption DEF NextItem
<1>5. NextItem(r) \in Item
    BY <1>2, <1>3 DEF NextItem
<1>6. NextKey(r) \in Key
    BY <1>1, <1>4, <1>5, WriteTyped DEF NextKey
<1> QED
    BY <1>1, <1>2, <1>3, <1>4, <1>5, <1>6

\* Every step keeps the types, one step of the proof for each action.
LEMMA NextTyped == TypeOK /\ [Next]_vars => TypeOK'
<1> SUFFICES ASSUME TypeOK, [Next]_vars PROVE TypeOK'
    OBVIOUS
<1> USE DEF store
<1>nw. NoWrites \in [Key -> Rows]
    BY DEF NoWrites, Rows
<1>1. CASE \E r \in Requests, u \in Users, p \in Pushes : Receive(r, u, p)
  <2> PICK r \in Requests, u \in Users, p \in Pushes : Receive(r, u, p)
      BY <1>1
  <2>1. pos'[r] \in 1 .. Len(push'[r]) + 1
    <3>1. Len(p) \in Nat
        BY PushLists
    <3>2. pos[r] = 1 /\ pos' = pos
        BY DEF Receive, TypeOK
    <3> QED
        BY <3>1, <3>2 DEF Receive, TypeOK
  <2> QED
      BY <2>1 DEF Receive, TypeOK, States
<1>2. ASSUME NEW r \in Requests, Handle(r)
      PROVE  TypeOK'
  <2>1. CASE ReadOwned(r)
      BY <2>1 DEF ReadOwned, OwnedCars, TypeOK, States
  <2>2. CASE ReadAccessible(r)
      BY <2>2 DEF ReadAccessible, AccessibleCars, OwnedCars, TypeOK, States
  <2>3. CASE ReadFails(r)
      BY <2>3, FinishTyped DEF ReadFails, TypeOK
  <2>4. CASE SkipItem(r)
    <3>1. pos[r] \in 1 .. Len(push[r]) /\ Len(push[r]) \in Nat /\ pc[r] = "push"
        BY <2>4, NextItemTyped DEF SkipItem, Pushing
    <3> QED
        BY <2>4, <3>1 DEF SkipItem, TypeOK
  <2>5. CASE UpsertItem(r)
    <3> DEFINE i == NextItem(r)
               k == NextKey(r)
               w == Write(user[r], i, owned[r])
               row == Upsert(Seen(r, k), w)
               new == IF IsCar(i) THEN {i.car} ELSE {}
    <3>1. /\ pos[r] \in 1 .. Len(push[r]) /\ Len(push[r]) \in Nat
          /\ i \in Item /\ k \in Key /\ user[r] \in Users
          /\ IsCar(i) => i.car = i.id
          /\ pc[r] = "push"
        BY <2>5, NextItemTyped DEF UpsertItem, Pushing
    <3>2. row \in Rows
        BY <3>1, WriteTyped, UpsertTyped, SeenTyped DEF Rows
    <3>3. new \subseteq Cars
        BY <3>1 DEF Item
    <3>4. tx' = [tx EXCEPT ![r][k] = row] /\ held' = [held EXCEPT ![r] = @ \union {k}]
        BY <2>5 DEF UpsertItem
    <3>5. /\ owned' = [owned EXCEPT ![r] = @ \union new]
          /\ access' = [access EXCEPT ![r] = @ \union new]
        BY <2>5 DEF UpsertItem
    <3>6. /\ pos' = [pos EXCEPT ![r] = @ + 1]
          /\ UNCHANGED <<store, pc, user, push>>
        BY <2>5 DEF UpsertItem
    <3> HIDE DEF i, k, w, row, new
    <3>7. tx' \in [Requests -> [Key -> Rows]] /\ held' \in [Requests -> SUBSET Key]
        BY <3>1, <3>2, <3>4 DEF TypeOK
    <3>8. owned' \in [Requests -> SUBSET Cars] /\ access' \in [Requests -> SUBSET Cars]
        BY <3>3, <3>5 DEF TypeOK
    <3>9. /\ pos' \in [Requests -> Nat \ {0}]
          /\ \A q \in Requests : pos'[q] \in 1 .. Len(push'[q]) + 1
        BY <3>1, <3>6 DEF TypeOK
    <3> QED
        BY <3>1, <3>6, <3>7, <3>8, <3>9 DEF TypeOK
  <2>6. CASE StatementFails(r) \/ ForeignKeyFails(r) \/ DeadlockVictim(r)
    <3>1. Doom(r) /\ (pc[r] # "idle")
      <4>1. CASE DeadlockVictim(r)
        <5>1. \E q \in Requests : WaitsFor(r, q)
            BY <4>1 DEF DeadlockVictim, Deadlocked
        <5> QED
            BY <4>1, <5>1 DEF DeadlockVictim, WaitsFor, Pushing
      <4>2. CASE StatementFails(r) \/ ForeignKeyFails(r)
          BY <4>2 DEF StatementFails, ForeignKeyFails, Pushing
      <4> QED
          BY <2>6, <4>1, <4>2
    <3> QED
        BY <3>1, <1>nw DEF Doom, TypeOK, States
  <2>7. ASSUME StoreWrites(r) PROVE db' \in [Key -> Rows]
      BY <2>7, SeenTyped DEF StoreWrites
  <2>8. CASE Commit(r)
    <3>1. db' \in [Key -> Rows] /\ UNCHANGED <<users, shares>>
        BY <2>7, <2>8 DEF Commit, StoreWrites
    <3> QED
        BY <2>8, <3>1, <1>nw DEF Commit, AtCommit, TypeOK, States
  <2>9. CASE CommitLost(r)
      BY <2>7, <2>9, FinishTyped DEF CommitLost, StoreWrites, TypeOK
  <2>10. CASE CommitFails(r) \/ Respond(r)
      BY <2>10, FinishTyped DEF CommitFails, Respond, TypeOK
  <2> QED
      BY <1>2, <2>1, <2>2, <2>3, <2>4, <2>5, <2>6, <2>8, <2>9, <2>10 DEF Handle
<1>3. ASSUME NEW u \in Users, NEW c \in Cars, Share(u, c) \/ Unshare(u, c)
      PROVE  TypeOK'
    BY <1>3 DEF Share, Unshare, TypeOK, request
<1>4. ASSUME NEW u \in Users, DeleteMe(u)
      PROVE  TypeOK'
  <2>1. db' \in [Key -> Rows]
      BY <1>4 DEF DeleteMe, TypeOK, Rows
  <2> QED
      BY <1>4, <2>1 DEF DeleteMe, TypeOK, request
<1>5. CASE UNCHANGED vars
    BY <1>5 DEF vars, request, TypeOK
<1> QED
    BY <1>1, <1>2, <1>3, <1>4, <1>5 DEF Next

\* Every variable keeps its type, for any constants.
THEOREM TypeCorrect == Spec => []TypeOK
BY InitTyped, NextTyped, PTL DEF Spec

-----------------------------------------------------------------------------
(* Merging one write after the other is merging them all.                  *)

\* A write that an upsert may carry.
AnyWrite == [key : Key, parent : Users \union Cars, at : Times, deleted : BOOLEAN]

\* One more write to the key of a row merges into what the others had left.
LEMMA MergeExtends ==
    ASSUME NEW old \in Rows, NEW k, NEW W \in SUBSET AnyWrite,
           NEW w \in AnyWrite, w.key = k,
           NEW row, Lww!Merges(old, W, k, row)
    PROVE  Lww!Merges(old, W \union {w}, k, Upsert(row, w))
<1> DEFINE All == W \union {w}
           Stale(V) == \A v \in V : v.key = k => ~ Lww!Newer(old, v)
<1>t. /\ w.at \in Nat /\ \A v \in W : v.at \in Nat
      /\ old # NoRow => old \in Row /\ old.at \in Nat
    BY TimesAssumption DEF Rows, Row, AnyWrite
<1>1. ASSUME ~ Stale(All), NEW p \in Lww!Parents(old, All, k), NEW v \in Lww!Newest(All, k),
             NEW new, new = [parent |-> p, at |-> v.at, deleted |-> v.deleted]
      PROVE  Lww!Merges(old, All, k, new)
    BY <1>1 DEF Lww!Merges
<1>2. CASE Stale(W)
  <2>1. row = old
      BY <1>2 DEF Lww!Merges
  <2>2. CASE ~ Lww!Newer(old, w)
    <3>1. Stale(All) /\ Upsert(old, w) = old
        BY <1>2, <1>t, <2>2 DEF Upsert, Lww!Newer
    <3> QED
        BY <2>1, <3>1 DEF Lww!Merges
  <2>3. CASE Lww!Newer(old, w)
    <3>1. w \in Lww!Newest(All, k) /\ ~ Stale(All)
        BY <1>2, <1>t, <2>3 DEF Lww!Newest, Lww!Newer
    <3>2. CASE old = NoRow
      <4>1. w.parent \in Lww!Parents(old, All, k)
          BY <3>2 DEF Lww!Parents
      <4>2. Upsert(row, w) = [parent |-> w.parent, at |-> w.at, deleted |-> w.deleted]
          BY <2>1, <3>2 DEF Upsert
      <4> QED
          BY <1>1, <3>1, <4>1, <4>2
    <3>3. CASE old # NoRow
      <4>1. Upsert(row, w) = [parent |-> old.parent, at |-> w.at, deleted |-> w.deleted]
          BY <1>t, <2>1, <2>3, <3>3 DEF Upsert, Lww!Newer, Row
      <4>2. old.parent \in Lww!Parents(old, All, k)
          BY <3>3 DEF Lww!Parents
      <4> QED
          BY <1>1, <3>1, <4>1, <4>2
    <3> QED
        BY <3>2, <3>3
  <2> QED
      BY <2>2, <2>3
<1>3. CASE ~ Stale(W)
  <2>1. PICK p \in Lww!Parents(old, W, k), v \in Lww!Newest(W, k) :
            row = [parent |-> p, at |-> v.at, deleted |-> v.deleted]
      BY <1>3 DEF Lww!Merges
  <2>2. v \in W /\ v.key = k /\ ~ Stale(All)
      BY <1>3 DEF Lww!Newest
  <2>3. p \in Lww!Parents(old, All, k) /\ p \in Users \union Cars
      BY <1>t DEF Lww!Parents, AnyWrite, Row
  <2>4. row \in Row /\ row # NoRow /\ row.parent = p /\ row.at = v.at
      BY NullAssumption, <2>1, <2>2, <2>3 DEF Row, AnyWrite
  <2>5. Upsert(row, w) =
            IF v.at < w.at THEN [parent |-> p, at |-> w.at, deleted |-> w.deleted] ELSE row
      BY <2>4 DEF Upsert
  <2>6. CASE v.at < w.at
    <3>1. w \in Lww!Newest(All, k)
        BY <1>t, <2>1, <2>2, <2>6 DEF Lww!Newest
    <3> QED
        BY <1>1, <2>2, <2>3, <2>5, <2>6, <3>1
  <2>7. CASE ~ (v.at < w.at)
    <3>1. v \in Lww!Newest(All, k)
        BY <1>t, <2>1, <2>2, <2>7 DEF Lww!Newest
    <3> QED
        BY <1>1, <2>1, <2>2, <2>3, <2>5, <2>7, <3>1
  <2> QED
      BY <2>6, <2>7
<1> QED
    BY <1>2, <1>3

\* A write to another key leaves a row as it was.
LEMMA MergeOther ==
    ASSUME NEW old, NEW k, NEW W, NEW w, w.key # k,
           NEW row, Lww!Merges(old, W, k, row)
    PROVE  Lww!Merges(old, W \union {w}, k, row)
<1>1. Lww!Newest(W \union {w}, k) = Lww!Newest(W, k)
    BY DEF Lww!Newest
<1>2. Lww!Parents(old, W \union {w}, k) = Lww!Parents(old, W, k)
  <2>1. {v \in W \union {w} : v.key = k} = {v \in W : v.key = k}
      OBVIOUS
  <2> QED
      BY <2>1 DEF Lww!Parents
<1> QED
    BY <1>1, <1>2 DEF Lww!Merges

-----------------------------------------------------------------------------
(* Isolation: an inductive invariant.                                      *)

\* The items upserted so far are typed writes of this push.
LEMMA DoneTyped ==
    ASSUME TypeOK, NEW r \in Requests, pc[r] # "idle"
    PROVE  /\ Done(r) \in SUBSET AnyWrite
           /\ \A n \in 1 .. pos[r] - 1 : n \in 1 .. Len(push[r])
<1>1. /\ user[r] \in Users /\ push[r] \in Pushes
      /\ pos[r] \in 1 .. Len(push[r]) + 1 /\ Len(push[r]) \in Nat
    BY PushLists DEF TypeOK
<1>2. \A n \in 1 .. pos[r] - 1 : n \in 1 .. Len(push[r])
    BY <1>1
<1>3. ASSUME NEW n \in 1 .. Len(push[r])
      PROVE  Write(user[r], push[r][n], owned[r]) \in AnyWrite
  <2>1. push[r][n] \in Item /\ (IsCar(push[r][n]) => push[r][n].car = push[r][n].id)
      BY <1>1, PushLists, PushesAssumption
  <2> DEFINE w == Write(user[r], push[r][n], owned[r])
  <2>2. w.key \in Key /\ w.parent \in Users \union Cars
        /\ w.at \in Times /\ w.deleted \in BOOLEAN
      BY <1>1, <2>1, WriteTyped
  <2>3. w = [key |-> w.key, parent |-> w.parent, at |-> w.at, deleted |-> w.deleted]
      BY DEF Write
  <2> QED
      BY <2>2, <2>3 DEF AnyWrite
<1> QED
    BY <1>2, <1>3 DEF Done

\* A request that does not move keeps its part of the invariant as long as the
\* rows it has locked stay as they are.
LEMMA MergedFrame ==
    ASSUME TypeOK, Isolation, NEW q \in Requests,
           pc'[q] = pc[q], user'[q] = user[q], push'[q] = push[q], pos'[q] = pos[q],
           owned'[q] = owned[q], access'[q] = access[q], held'[q] = held[q],
           tx'[q] = tx[q],
           \A k \in held[q] : db'[k] = db[k]
    PROVE  MergedSoFar(q)'
<1> SUFFICES ASSUME pc[q] = "push"
             PROVE  /\ \A w \in Done(q)' : w.key \in held[q]
                    /\ \A k \in Key : Lww!Merges(db'[k], Done(q)', k, Seen(q, k)')
    BY DEF MergedSoFar, Lww!Merges, Lww!Newest, Lww!Parents, Lww!Newer
<1>1. Done(q)' = Done(q)
    BY DEF Done, Write, RowKey, Accepted, IsCar
<1>2. \A w \in Done(q) : w.key \in held[q]
    BY DEF Isolation, MergedSoFar
<1>3. ASSUME NEW k \in Key
      PROVE  Lww!Merges(db'[k], Done(q), k, Seen(q, k)')
  <2>1. CASE k \in held[q]
      BY <2>1 DEF Isolation, MergedSoFar, Seen
  <2>2. CASE k \notin held[q]
    <3>1. Seen(q, k)' = db'[k]
        BY <2>2 DEF Isolation, OnlyLockedWritten, Seen
    <3>2. \A w \in Done(q) : w.key # k
        BY <1>2, <2>2
    <3> QED
        BY <3>1, <3>2 DEF Lww!Merges
  <2> QED
      BY <2>1, <2>2
<1> QED
    BY <1>1, <1>2, <1>3

\* A request that gives up its locks, or never had any, holds up nobody.
LEMMA ReleaseIsolated ==
    ASSUME TypeOK, Isolation, NEW r \in Requests,
           \A q \in Requests \ {r} :
               /\ pc'[q] = pc[q] /\ user'[q] = user[q] /\ push'[q] = push[q]
               /\ pos'[q] = pos[q] /\ owned'[q] = owned[q] /\ access'[q] = access[q]
               /\ held'[q] = held[q] /\ tx'[q] = tx[q]
               /\ \A k \in held[q] : db'[k] = db[k],
           held'[r] = {}, \A k \in Key : tx'[r][k] = NoRow,
           MergedSoFar(r)'
    PROVE  Isolation'
<1>1. LocksExclude'
    BY DEF Isolation, LocksExclude
<1>2. OnlyLockedWritten'
    BY DEF Isolation, OnlyLockedWritten
<1>3. \A q \in Requests : MergedSoFar(q)'
    BY MergedFrame
<1> QED
    BY <1>1, <1>2, <1>3 DEF Isolation

\* The items before a pushed car are cars too, so the cars that it adds to
\* ownedIDs and accessibleIDs change nothing for the items already upserted.
LEMMA UpsertDone ==
    ASSUME TypeOK, NEW r \in Requests, UpsertItem(r)
    PROVE  Done(r)' = Done(r) \union {Write(user[r], NextItem(r), owned[r])}
<1> DEFINE i == NextItem(r)
           w == Write(user[r], i, owned[r])
           n0 == pos[r]
<1>1. /\ push[r] \in Pushes /\ n0 \in 1 .. Len(push[r]) /\ Len(push[r]) \in Nat
      /\ IsCar(i) => i.car = i.id
    BY NextItemTyped DEF UpsertItem
<1>2. /\ pos'[r] = n0 + 1 /\ push' = push /\ user' = user
      /\ IsCar(i) => owned'[r] = owned[r] \union {i.car} /\ access'[r] = access[r] \union {i.car}
      /\ ~ IsCar(i) => owned'[r] = owned[r] /\ access'[r] = access[r]
    BY DEF UpsertItem, TypeOK
<1>3. \A m \in 1 .. n0 - 1 : IsCar(i) => IsCar(push[r][m])
    BY <1>1, PushesAssumption DEF NextItem
<1>4. ASSUME NEW m \in 1 .. n0
      PROVE  /\ Write(user[r], push[r][m], owned'[r]) = Write(user[r], push[r][m], owned[r])
             /\ Accepted(push[r][m], access'[r]) <=> Accepted(push[r][m], access[r])
  <2>1. CASE IsCar(i)
    <3>1. IsCar(push[r][m])
        BY <1>1, <1>3, <2>1 DEF NextItem
    <3> QED
        BY <3>1 DEF Write, Accepted
  <2>2. CASE ~ IsCar(i)
      BY <1>2, <2>2
  <2> QED
      BY <2>1, <2>2
<1>5. Accepted(push[r][n0], access[r])
    BY DEF UpsertItem, Skipped, NextItem
<1>6. Done(r)' = {Write(user[r], push[r][m], owned'[r]) :
                     m \in {n \in 1 .. n0 : Accepted(push[r][n], access'[r])}}
  <2>1. 1 .. pos'[r] - 1 = 1 .. n0
      BY <1>1, <1>2
  <2> QED
      BY <1>2, <2>1 DEF Done, Write, RowKey, Accepted, IsCar
<1>7. Done(r)' = {Write(user[r], push[r][m], owned[r]) :
                     m \in {n \in 1 .. n0 : Accepted(push[r][n], access[r])}}
    BY <1>4, <1>6
<1>8. {n \in 1 .. n0 : Accepted(push[r][n], access[r])} =
          {n \in 1 .. n0 - 1 : Accepted(push[r][n], access[r])} \union {n0}
    BY <1>1, <1>5
<1> QED
    BY <1>7, <1>8 DEF Done, NextItem

\* No request holds a lock or has written at first.
LEMMA InitIsolated == Init => Isolation
<1>1. ASSUME Init, NEW r \in Requests
      PROVE  MergedSoFar(r)
    BY <1>1 DEF Init, MergedSoFar
<1> QED
    BY <1>1 DEF Init, Isolation, LocksExclude, OnlyLockedWritten, NoWrites

\* A handler that returns gives up its locks and its writes, and so cannot
\* disturb the others.
LEMMA FinishIsolated ==
    ASSUME TypeOK, Isolation, NEW r \in Requests, Finish(r),
           \A q \in Requests \ {r} : \A k \in held[q] : db'[k] = db[k]
    PROVE  Isolation'
<1>1. pc'[r] = "idle" /\ held'[r] = {} /\ tx'[r] = NoWrites
    BY DEF Finish, TypeOK
<1>2. MergedSoFar(r)'
    BY <1>1 DEF MergedSoFar
<1>3. \A q \in Requests \ {r} :
          /\ pc'[q] = pc[q] /\ user'[q] = user[q] /\ push'[q] = push[q]
          /\ pos'[q] = pos[q] /\ owned'[q] = owned[q] /\ access'[q] = access[q]
          /\ held'[q] = held[q] /\ tx'[q] = tx[q]
    BY DEF Finish, TypeOK
<1> QED
    BY <1>1, <1>2, <1>3, ReleaseIsolated DEF NoWrites

\* A commit stores rows that no other request has locked.
LEMMA StoreFrame ==
    ASSUME TypeOK, Isolation, NEW r \in Requests, StoreWrites(r),
           NEW q \in Requests \ {r}, NEW k \in held[q]
    PROVE  db'[k] = db[k]
<1>1. k \in Key /\ k \notin held[r]
    BY DEF TypeOK, Isolation, LocksExclude
<1> QED
    BY <1>1 DEF StoreWrites, Seen, Isolation, OnlyLockedWritten

\* An upsert merges one more item into the row it has locked (UpsertItem).
LEMMA UpsertIsolated ==
    ASSUME TypeOK, Isolation, NEW r \in Requests, UpsertItem(r)
    PROVE  Isolation'
<1> DEFINE i == NextItem(r)
           k == NextKey(r)
           w == Write(user[r], i, owned[r])
           row == Upsert(Seen(r, k), w)
<1>1. /\ i \in Item /\ k \in Key /\ user[r] \in Users /\ pc[r] = "push"
      /\ IsCar(i) => i.car = i.id
    BY NextItemTyped DEF UpsertItem, Pushing
<1>2. /\ w.key = k /\ w \in AnyWrite /\ row \in Row
  <2>1. w.key = k /\ w.parent \in Users \union Cars /\ w.at \in Times /\ w.deleted \in BOOLEAN
      BY <1>1, WriteTyped DEF NextKey
  <2>2. w = [key |-> w.key, parent |-> w.parent, at |-> w.at, deleted |-> w.deleted]
      BY DEF Write
  <2> HIDE DEF w
  <2> QED
      BY <1>1, <2>1, <2>2, SeenTyped, UpsertTyped DEF AnyWrite
<1>3. /\ tx' = [tx EXCEPT ![r][k] = row] /\ held' = [held EXCEPT ![r] = @ \union {k}]
      /\ db' = db /\ pc' = pc
      /\ \A q \in Requests \ {r} : k \notin held[q]
    BY DEF UpsertItem, Locked, store
<1>4. \A q \in Requests \ {r} :
          /\ pc'[q] = pc[q] /\ user'[q] = user[q] /\ push'[q] = push[q]
          /\ pos'[q] = pos[q] /\ owned'[q] = owned[q] /\ access'[q] = access[q]
          /\ held'[q] = held[q] /\ tx'[q] = tx[q]
    BY DEF UpsertItem, TypeOK
<1>5. Done(r)' = Done(r) \union {w}
    BY UpsertDone
<1>6. Done(r) \in SUBSET AnyWrite
    BY <1>1, DoneTyped
<1> HIDE DEF i, k, w, row
<1>7. held'[r] = held[r] \union {k} /\ tx'[r] = [tx[r] EXCEPT ![k] = row]
      /\ tx[r] \in [Key -> Rows]
    BY <1>3 DEF TypeOK
<1>8. LocksExclude'
    BY <1>3, <1>4, <1>7 DEF Isolation, LocksExclude
<1>9. OnlyLockedWritten'
    BY <1>1, <1>3, <1>4, <1>7 DEF Isolation, OnlyLockedWritten
<1>10. MergedSoFar(r)'
  <2>1. ASSUME NEW v \in Done(r)' PROVE v.key \in held'[r]
      BY <1>1, <1>2, <1>5, <1>7, <2>1 DEF Isolation, MergedSoFar
  <2>2. ASSUME NEW j \in Key
        PROVE  Lww!Merges(db[j], Done(r) \union {w}, j, Seen(r, j)')
    <3>1. Lww!Merges(db[j], Done(r), j, Seen(r, j)) /\ db[j] \in Rows
        BY <1>1 DEF Isolation, MergedSoFar, TypeOK
    <3>2. CASE j = k
      <4>1. Seen(r, j)' = Upsert(Seen(r, j), w)
          BY <1>2, <1>7, <3>2, NullAssumption DEF Seen, row
      <4> QED
          BY <1>2, <1>6, <3>1, <3>2, <4>1, MergeExtends
    <3>3. CASE j # k
      <4>1. Seen(r, j)' = Seen(r, j)
          BY <1>3, <1>7, <3>3 DEF Seen
      <4> QED
          BY <1>2, <3>1, <3>3, <4>1, MergeOther
    <3> QED
        BY <3>2, <3>3
  <2> QED
      BY <1>3, <1>5, <2>1, <2>2
         DEF MergedSoFar, Lww!Merges, Lww!Newest, Lww!Parents, Lww!Newer
<1>11. \A q \in Requests \ {r} : MergedSoFar(q)'
    BY <1>3, <1>4, MergedFrame
<1> QED
    BY <1>8, <1>9, <1>10, <1>11 DEF Isolation

\* Every step keeps the isolation of the pushes in progress.
LEMMA NextIsolated == TypeOK /\ Isolation /\ [Next]_vars => Isolation'
<1> SUFFICES ASSUME TypeOK, Isolation, [Next]_vars PROVE Isolation'
    OBVIOUS
<1> DEFINE Still(q) == /\ pc'[q] = pc[q] /\ user'[q] = user[q] /\ push'[q] = push[q]
                       /\ pos'[q] = pos[q] /\ owned'[q] = owned[q] /\ access'[q] = access[q]
                       /\ held'[q] = held[q] /\ tx'[q] = tx[q]
                       /\ \A k \in held[q] : db'[k] = db[k]
<1>1. ASSUME NEW r \in Requests, NEW u \in Users, NEW p \in Pushes, Receive(r, u, p)
      PROVE  Isolation'
  <2>1. \A q \in Requests \ {r} : Still(q)
      BY <1>1 DEF Receive, store, TypeOK
  <2>2. held'[r] = {} /\ (\A k \in Key : tx'[r][k] = NoRow) /\ pc'[r] = "owned"
      BY <1>1 DEF Receive, Isolation, OnlyLockedWritten, TypeOK
  <2>3. MergedSoFar(r)'
      BY <2>2 DEF MergedSoFar
  <2> QED
      BY <2>1, <2>2, <2>3, ReleaseIsolated
<1>2. ASSUME NEW r \in Requests, Handle(r)
      PROVE  Isolation'
  <2>1. CASE ReadOwned(r)
    <3>1. \A q \in Requests \ {r} : Still(q)
        BY <2>1 DEF ReadOwned, store, TypeOK
    <3>2. held'[r] = {} /\ (\A k \in Key : tx'[r][k] = NoRow) /\ pc'[r] = "access"
        BY <2>1 DEF ReadOwned, Isolation, OnlyLockedWritten, TypeOK
    <3> QED
        BY <3>1, <3>2, ReleaseIsolated DEF MergedSoFar
  <2>2. CASE ReadAccessible(r)
    <3>1. \A q \in Requests \ {r} : Still(q)
        BY <2>2 DEF ReadAccessible, store, TypeOK
    <3>2. held'[r] = {} /\ (\A k \in Key : tx'[r][k] = NoRow) /\ pos'[r] = 1
        BY <2>2 DEF ReadAccessible, Isolation, OnlyLockedWritten, TypeOK
    <3>3. Done(r)' = {} /\ \A k \in Key : Seen(r, k)' = db'[k]
        BY <3>2 DEF Done, Seen
    <3>4. MergedSoFar(r)'
        BY <3>3 DEF MergedSoFar, Lww!Merges
    <3> QED
        BY <3>1, <3>2, <3>4, ReleaseIsolated
  <2>3. CASE ReadFails(r) \/ CommitFails(r) \/ Respond(r)
      BY <2>3, FinishIsolated DEF ReadFails, CommitFails, Respond, store
  <2>4. CASE SkipItem(r)
    <3>1. \A q \in Requests \ {r} : Still(q)
        BY <2>4 DEF SkipItem, store, TypeOK
    <3>2. Done(r)' = Done(r)
      <4>1. /\ pos[r] \in 1 .. Len(push[r]) /\ Len(push[r]) \in Nat
            /\ pos'[r] = pos[r] + 1
          BY <2>4, NextItemTyped DEF SkipItem, TypeOK
      <4>2. ~ Accepted(push[r][pos[r]], access[r])
          BY <2>4 DEF SkipItem, Skipped, NextItem
      <4>3. {n \in 1 .. pos'[r] - 1 : Accepted(push[r][n], access[r])} =
                {n \in 1 .. pos[r] - 1 : Accepted(push[r][n], access[r])}
          BY <4>1, <4>2
      <4>4. user' = user /\ push' = push /\ owned' = owned /\ access' = access
          BY <2>4 DEF SkipItem
      <4> QED
          BY <4>3, <4>4 DEF Done, Write, RowKey, Accepted, IsCar
    <3>3. /\ pc' = pc /\ held' = held /\ tx' = tx /\ db' = db
        BY <2>4 DEF SkipItem, store
    <3>4. MergedSoFar(r)'
      <4>1. \A k \in Key : Seen(r, k)' = Seen(r, k)
          BY <3>3 DEF Seen
      <4>2. pc[r] = "push" /\ MergedSoFar(r)
          BY <2>4 DEF SkipItem, Pushing, Isolation
      <4>3. \A k \in Key : Lww!Merges(db[k], Done(r), k, Seen(r, k))'
          BY <3>2, <3>3, <4>1, <4>2
             DEF MergedSoFar, Lww!Merges, Lww!Newest, Lww!Parents, Lww!Newer
      <4> QED
          BY <3>2, <3>3, <4>2, <4>3 DEF MergedSoFar
    <3>5. \A q \in Requests \ {r} : MergedSoFar(q)'
        BY <3>1, MergedFrame
    <3>6. LocksExclude' /\ OnlyLockedWritten'
        BY <3>3 DEF Isolation, LocksExclude, OnlyLockedWritten
    <3> QED
        BY <3>4, <3>5, <3>6 DEF Isolation
  <2>5. CASE UpsertItem(r)
      BY <2>5, UpsertIsolated
  <2>6. CASE StatementFails(r) \/ ForeignKeyFails(r) \/ DeadlockVictim(r)
    <3>1. Doom(r)
        BY <2>6 DEF StatementFails, ForeignKeyFails, DeadlockVictim
    <3>2. \A q \in Requests \ {r} : Still(q)
        BY <3>1 DEF Doom, store, TypeOK
    <3>3. held'[r] = {} /\ (\A k \in Key : tx'[r][k] = NoRow) /\ pc'[r] = "doomed"
        BY <3>1 DEF Doom, NoWrites, TypeOK
    <3> QED
        BY <3>2, <3>3, ReleaseIsolated DEF MergedSoFar
  <2>7. CASE Commit(r)
    <3>1. \A q \in Requests \ {r} : Still(q)
        BY <2>7, StoreFrame DEF Commit, TypeOK
    <3>2. held'[r] = {} /\ (\A k \in Key : tx'[r][k] = NoRow) /\ pc'[r] = "committed"
        BY <2>7 DEF Commit, NoWrites, TypeOK
    <3> QED
        BY <3>1, <3>2, ReleaseIsolated DEF MergedSoFar
  <2>8. CASE CommitLost(r)
      BY <2>8, StoreFrame, FinishIsolated DEF CommitLost
  <2> QED
      BY <1>2, <2>1, <2>2, <2>3, <2>4, <2>5, <2>6, <2>7, <2>8 DEF Handle
<1>3. ASSUME NEW u \in Users, NEW c \in Cars, Share(u, c) \/ Unshare(u, c)
      PROVE  Isolation'
  <2>1. UNCHANGED <<pc, user, push, pos, owned, access, held, tx, db>>
      BY <1>3 DEF Share, Unshare, request
  <2>2. \A q \in Requests : MergedSoFar(q)'
      BY <2>1, MergedFrame
  <2> QED
      BY <2>1, <2>2 DEF Isolation, LocksExclude, OnlyLockedWritten
<1>4. ASSUME NEW u \in Users, DeleteMe(u)
      PROVE  Isolation'
  <2>1. UNCHANGED <<pc, user, push, pos, owned, access, held, tx>>
      BY <1>4 DEF DeleteMe, request
  <2>2. \A q \in Requests : \A k \in held[q] : db'[k] = db[k]
      BY <1>4 DEF DeleteMe, Blocked, TypeOK
  <2>3. \A q \in Requests : MergedSoFar(q)'
      BY <2>1, <2>2, MergedFrame
  <2> QED
      BY <2>1, <2>3 DEF Isolation, LocksExclude, OnlyLockedWritten
<1>5. CASE UNCHANGED vars
  <2>1. UNCHANGED <<pc, user, push, pos, owned, access, held, tx, db>>
      BY <1>5 DEF vars, request, store
  <2>2. \A q \in Requests : MergedSoFar(q)'
      BY <2>1, MergedFrame
  <2> QED
      BY <2>1, <2>2 DEF Isolation, LocksExclude, OnlyLockedWritten
<1> QED
    BY <1>1, <1>2, <1>3, <1>4, <1>5 DEF Next

\* In the middle of any number of concurrent pushes, each transaction sees the
\* committed rows merged with exactly the items it has upserted so far.
THEOREM PushIsolation == Spec => []Isolation
<1>1. Init => TypeOK /\ Isolation
    BY InitTyped, InitIsolated
<1>2. TypeOK /\ Isolation /\ [Next]_vars => TypeOK' /\ Isolation'
    BY NextTyped, NextIsolated
<1> QED
    BY <1>1, <1>2, PTL DEF Spec

-----------------------------------------------------------------------------
(* What the isolation is for.                                              *)

\* When the last item is done, what the transaction sees is its batch merged.
LEMMA AllDone ==
    ASSUME TypeOK, NEW r \in Requests, AtCommit(r)
    PROVE  /\ Done(r) = Writes(user[r], push[r], owned[r], access[r])
           /\ Done(r) \in Batches
<1>1. /\ user[r] \in Users /\ push[r] \in Pushes
      /\ pos[r] \in 1 .. Len(push[r]) + 1 /\ Len(push[r]) \in Nat /\ pos[r] > Len(push[r])
    BY PushLists DEF TypeOK, AtCommit
<1>2. 1 .. pos[r] - 1 = 1 .. Len(push[r])
    BY <1>1
<1>3. Done(r) = Writes(user[r], push[r], owned[r], access[r])
    BY <1>2 DEF Done, Writes
<1> QED
    BY <1>1, <1>3 DEF Batches, TypeOK

\* A commit stores the rows that the batch of its push gives: one step of the
\* abstract store.
LEMMA StoreIsApply ==
    ASSUME TypeOK, Isolation, NEW r \in Requests, AtCommit(r), StoreWrites(r)
    PROVE  Lww!Apply(Writes(user[r], push[r], owned[r], access[r]))
<1>1. db' = [k \in Key |-> db'[k]]
    BY DEF StoreWrites
<1>2. \A k \in Key : Lww!Merges(db[k], Done(r), k, db'[k])
    BY DEF AtCommit, Isolation, MergedSoFar, StoreWrites
<1> QED
    BY <1>1, <1>2, AllDone DEF Lww!Apply

\* Every step is a step of the abstract store or leaves it alone.
LEMMA StepRefines == TypeOK /\ Isolation /\ [Next]_vars => [Lww!Next]_db
<1> SUFFICES ASSUME TypeOK, Isolation, [Next]_vars PROVE [Lww!Next]_db
    OBVIOUS
<1>1. ASSUME NEW r \in Requests, NEW u \in Users, NEW p \in Pushes, Receive(r, u, p)
      PROVE  db' = db
    BY <1>1 DEF Receive, store
<1>2. ASSUME NEW r \in Requests, Handle(r)
      PROVE  [Lww!Next]_db
  <2>1. CASE Commit(r) \/ CommitLost(r)
    <3>1. AtCommit(r) /\ StoreWrites(r)
        BY <2>1 DEF Commit, CommitLost
    <3>2. Writes(user[r], push[r], owned[r], access[r]) \in Batches
        BY <3>1, AllDone
    <3> QED
        BY <3>1, <3>2, StoreIsApply DEF Lww!Next
  <2>2. CASE ~ (Commit(r) \/ CommitLost(r))
    <3>1. db' = db
        BY <1>2, <2>2
           DEF Handle, ReadOwned, ReadAccessible, ReadFails, SkipItem, UpsertItem,
               StatementFails, ForeignKeyFails, DeadlockVictim, Doom, CommitFails,
               Respond, store
    <3> QED
        BY <3>1
  <2> QED
      BY <2>1, <2>2
<1>3. ASSUME NEW u \in Users, NEW c \in Cars, Share(u, c) \/ Unshare(u, c)
      PROVE  db' = db
    BY <1>3 DEF Share, Unshare
<1>4. ASSUME NEW u \in Users, DeleteMe(u)
      PROVE  Lww!Next
  <2>1. Doomed(u) \in SUBSET Key
      BY DEF Doomed, OwnedCars, Key
  <2>2. Lww!Purge(Doomed(u))
      BY <1>4 DEF DeleteMe, Lww!Purge
  <2> QED
      BY <2>1, <2>2 DEF Lww!Next
<1>5. CASE UNCHANGED vars
    BY <1>5 DEF vars, store
<1> QED
    BY <1>1, <1>2, <1>3, <1>4, <1>5 DEF Next

\* Concurrent pushes have the effect of whole batches, one after the other.
THEOREM PushRefinesStore == Spec => PushesAreSerial
<1>1. Init => Lww!Init
    BY DEF Init, Lww!Init, NoWrites
<1>2. TypeOK /\ Isolation /\ [Next]_vars => [Lww!Next]_db
    BY StepRefines
<1> QED
    BY <1>1, <1>2, TypeCorrect, PushIsolation, PTL DEF Spec, PushesAreSerial, Lww!Spec

\* Merging replaces a row only by a newer one, of the same owner or car.
LEMMA MergeOnlyNewer ==
    ASSUME NEW old \in Row, NEW W, \A w \in W : w.at \in Times,
           NEW k, NEW row, Lww!Merges(old, W, k, row)
    PROVE  /\ old.at <= row.at /\ row.parent = old.parent
           /\ old.at = row.at => row = old
<1>t. old.at \in Nat /\ old # NoRow /\ \A w \in W : w.at \in Nat
    BY TimesAssumption, NullAssumption DEF Row
<1>1. CASE \A w \in W : w.key = k => ~ Lww!Newer(old, w)
    BY <1>1, <1>t DEF Lww!Merges
<1>2. CASE ~ \A w \in W : w.key = k => ~ Lww!Newer(old, w)
  <2>1. PICK w \in Lww!Newest(W, k) :
            row = [parent |-> old.parent, at |-> w.at, deleted |-> w.deleted]
      BY <1>2, <1>t DEF Lww!Merges, Lww!Parents
  <2>2. old.at < w.at
      BY <1>2, <1>t DEF Lww!Newest, Lww!Newer
  <2> QED
      BY <1>t, <2>1, <2>2 DEF Lww!Newest
<1> QED
    BY <1>1, <1>2

\* The stored row of a synced row never goes back, whatever the clients' clocks.
THEOREM RowsNeverGoBack == Spec => RowsOnlyGetNewer
<1> DEFINE Newer(k) == db[k] # NoRow /\ db'[k] # NoRow =>
                          /\ db[k].at <= db'[k].at
                          /\ db'[k].parent = db[k].parent
                          /\ db[k].at = db'[k].at => db'[k] = db[k]
<1>1. ASSUME TypeOK, TypeOK', [Lww!Next]_db
      PROVE  \A k \in Key : Newer(k)
  <2> SUFFICES ASSUME NEW k \in Key, db[k] # NoRow, db'[k] # NoRow
               PROVE  /\ db[k].at <= db'[k].at
                      /\ db'[k].parent = db[k].parent
                      /\ db[k].at = db'[k].at => db'[k] = db[k]
      OBVIOUS
  <2>1. db[k] \in Row /\ db[k].at \in Nat
      BY <1>1, TimesAssumption DEF TypeOK, Rows, Row
  <2>2. ASSUME NEW W \in Batches, Lww!Apply(W)
        PROVE  Newer(k)
    <3>1. \A w \in W : w.at \in Times
      <4>1. PICK u \in Users, q \in Pushes, mine \in SUBSET Cars, cars \in SUBSET Cars :
                W = Writes(u, q, mine, cars)
          BY DEF Batches
      <4>2. \A n \in 1 .. Len(q) : q[n].at \in Times
          BY PushLists DEF Item
      <4> QED
          BY <4>1, <4>2 DEF Writes, Write
    <3>2. Lww!Merges(db[k], W, k, db'[k])
        BY <2>2 DEF Lww!Apply
    <3> QED
        BY <2>1, <3>1, <3>2, MergeOnlyNewer
  <2>3. ASSUME NEW K \in SUBSET Key, Lww!Purge(K)
        PROVE  Newer(k)
      BY <2>1, <2>3 DEF Lww!Purge
  <2>4. CASE db' = db
      BY <2>1, <2>4
  <2> QED
      BY <1>1, <2>2, <2>3, <2>4 DEF Lww!Next
<1>2. TypeOK /\ TypeOK' /\ [Lww!Next]_db => \A k \in Key : Newer(k)
    BY <1>1
<1>3. TypeOK /\ Isolation /\ [Next]_vars => [Lww!Next]_db
    BY StepRefines
<1> QED
    BY <1>2, <1>3, TypeCorrect, PushIsolation, PTL
       DEF Spec, RowsOnlyGetNewer, Lww!NewestWins

\* A merged batch is stored: every write of it, or something newer.
LEMMA MergedNotLost ==
    ASSUME NEW old \in Rows, NEW W \in SUBSET AnyWrite, NEW w \in W, NEW row,
           Lww!Merges(old, W, w.key, row), row \in Rows
    PROVE  row # NoRow /\ w.at <= row.at
<1>t. /\ \A v \in W : v.at \in Nat
      /\ old # NoRow => old.at \in Nat
    BY TimesAssumption DEF Rows, Row, AnyWrite
<1>1. CASE \A v \in W : v.key = w.key => ~ Lww!Newer(old, v)
    BY <1>1, <1>t DEF Lww!Merges, Lww!Newer
<1>2. CASE ~ \A v \in W : v.key = w.key => ~ Lww!Newer(old, v)
  <2>1. PICK p \in Lww!Parents(old, W, w.key), v \in Lww!Newest(W, w.key) :
            row = [parent |-> p, at |-> v.at, deleted |-> v.deleted]
      BY <1>2 DEF Lww!Merges
  <2>2. p \in Users \union Cars
      BY <1>t DEF Lww!Parents, AnyWrite, Rows, Row
  <2>3. row \in Row /\ row.at = v.at
      BY <2>1, <2>2 DEF Row, AnyWrite, Lww!Newest
  <2> QED
      BY <2>1, <2>3, NullAssumption DEF Lww!Newest
<1> QED
    BY <1>1, <1>2

\* A push that is answered with 200 has lost nothing.
THEOREM AckedIsStored == Spec => AckedPushStored
<1> DEFINE Stored(r) ==
        \A n \in 1 .. Len(push[r]) :
            LET i == push[r][n] IN
            Accepted(i, access[r]) =>
                /\ db'[RowKey(user[r], i)] # NoRow
                /\ i.at <= db'[RowKey(user[r], i)].at
<1>1. ASSUME TypeOK, TypeOK', Isolation, [Next]_vars, NEW r \in Requests, Committed(r)
      PROVE  Stored(r)
  <2>1. Commit(r)
    <3>1. ASSUME NEW q \in Requests, Handle(q) PROVE Commit(r)
      <4>1. q = r
        <5>1. pc' = pc \/ \E s \in States : pc' = [pc EXCEPT ![q] = s]
            BY <3>1 DEF Handle, ReadOwned, ReadAccessible, ReadFails, SkipItem, UpsertItem,
                        StatementFails, ForeignKeyFails, DeadlockVictim, Doom, Commit,
                        CommitLost, CommitFails, Respond, Finish, States
        <5>2. q # r => pc'[r] = pc[r]
            BY <1>1, <5>1 DEF TypeOK
        <5> QED
            BY <1>1, <5>2 DEF Committed
      <4> QED
          BY <1>1, <3>1, <4>1
             DEF Committed, Handle, ReadOwned, ReadAccessible, ReadFails, SkipItem,
                 UpsertItem, StatementFails, ForeignKeyFails, DeadlockVictim, Doom,
                 CommitLost, CommitFails, Respond, Finish, TypeOK
    <3>2. ASSUME NEW q \in Requests, NEW u \in Users, NEW p \in Pushes, Receive(q, u, p)
          PROVE  FALSE
        BY <1>1, <3>2 DEF Receive, Committed, TypeOK
    <3>3. ASSUME pc' = pc PROVE FALSE
        BY <1>1, <3>3 DEF Committed
    <3> QED
        BY <1>1, <3>1, <3>2, <3>3
           DEF Next, Share, Unshare, DeleteMe, request, vars
  <2>2. AtCommit(r) /\ StoreWrites(r)
      BY <2>1 DEF Commit
  <2>3. /\ \A k \in Key : Lww!Merges(db[k], Done(r), k, db'[k])
        /\ Done(r) = Writes(user[r], push[r], owned[r], access[r])
        /\ Done(r) \in SUBSET AnyWrite
      BY <1>1, <2>2, AllDone, StoreIsApply, DoneTyped DEF Lww!Apply, AtCommit
  <2>4. ASSUME NEW n \in 1 .. Len(push[r]), Accepted(push[r][n], access[r])
        PROVE  /\ db'[RowKey(user[r], push[r][n])] # NoRow
               /\ push[r][n].at <= db'[RowKey(user[r], push[r][n])].at
    <3> DEFINE w == Write(user[r], push[r][n], owned[r])
    <3>1. w \in Done(r)
        BY <2>3, <2>4 DEF Writes
    <3>2. w.key = RowKey(user[r], push[r][n]) /\ w.at = push[r][n].at
        BY DEF Write
    <3>3. w.key \in Key /\ db[w.key] \in Rows /\ db'[w.key] \in Rows
        BY <1>1, <2>3, <3>1 DEF AnyWrite, TypeOK
    <3>4. db'[w.key] # NoRow /\ w.at <= db'[w.key].at
        BY <2>3, <3>1, <3>3, MergedNotLost
    <3> QED
        BY <3>2, <3>4
  <2> QED
      BY <2>4
<1>2. TypeOK /\ TypeOK' /\ Isolation /\ [Next]_vars =>
          \A r \in Requests : Committed(r) => Stored(r)
    BY <1>1
<1> QED
    BY <1>2, TypeCorrect, PushIsolation, PTL DEF Spec, AckedPushStored

=============================================================================
