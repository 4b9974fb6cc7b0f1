-------------------------- MODULE RateLimiterProofs --------------------------
(* The rate limiter implements the token bucket, for any clients and numbers. *)
EXTENDS RateLimiter, TLAPS

-----------------------------------------------------------------------------

\* Products of naturals, which the provers do not expand by themselves.
LEMMA OneMore == \A n, r \in Nat : (n + 1) * r = n * r + r /\ n * r \in Nat
OBVIOUS

\* The initial state has the types.
LEMMA InitTyped == Init => TypeOK
BY DEF Init, TypeOK, Unasked

\* What a bucket holds after the time gone is a level of the bucket.
LEMMA RefilledIsLevel ==
    ASSUME Tuned, NEW b \in Bucket
    PROVE  Refilled(b) \in 0 .. Capacity
<1>1. b.tokens \in Nat /\ b.age * Rate \in Nat
    BY OneMore DEF Tuned, Bucket
<1> QED
    BY <1>1 DEF Refilled, Tuned

\* A bucket that has been idle for long is full.
LEMMA OldIsFull ==
    ASSUME Tuned, NEW b \in Bucket, b.age > MaxAge
    PROVE  Refilled(b) = Capacity
<1>1. /\ b.tokens \in Nat /\ b.age = MaxAge + 1
      /\ Capacity \in Nat /\ Rate \in Nat /\ MaxAge \in Nat /\ Capacity <= MaxAge * Rate
    BY DEF Tuned, Bucket
<1>2. PICK given \in Nat : given = MaxAge * Rate /\ b.age * Rate = given + Rate
    BY <1>1, OneMore
<1>3. PICK sum \in Nat : sum = b.tokens + b.age * Rate /\ sum >= Capacity
    BY <1>1, <1>2
<1> QED
    BY <1>1, <1>3 DEF Refilled

\* A tick later there is Rate more, up to the capacity, also where the age is no
\* longer counted: such a bucket is full.
LEMMA RefilledLater ==
    ASSUME Tuned, NEW b \in Bucket
    PROVE  LET later == [b EXCEPT !.age = IF @ > MaxAge THEN @ ELSE @ + 1]
               sum == Refilled(b) + Rate
           IN  /\ later \in Bucket
               /\ Refilled(later) = IF sum > Capacity THEN Capacity ELSE sum
<1> DEFINE later == [b EXCEPT !.age = IF @ > MaxAge THEN @ ELSE @ + 1]
<1>1. /\ b.tokens \in 0 .. Capacity /\ b.age \in 0 .. MaxAge + 1
      /\ Capacity \in Nat /\ Rate \in Nat /\ MaxAge \in Nat /\ Capacity <= MaxAge * Rate
    BY DEF Tuned, Bucket
<1>2. CASE b.age > MaxAge
  <2>1. later = b
      BY <1>2 DEF Bucket
  <2>2. Refilled(b) = Capacity
      BY <1>2, OldIsFull
  <2> QED
      BY <1>1, <2>1, <2>2
<1>3. CASE b.age <= MaxAge
  <2>1. later \in Bucket /\ later.tokens = b.tokens /\ later.age = b.age + 1
      BY <1>1, <1>3 DEF Bucket
  <2>2. later.age * Rate = b.age * Rate + Rate /\ b.age * Rate \in Nat
      BY <1>1, <2>1, OneMore
  <2> QED
      BY <1>1, <2>1, <2>2 DEF Refilled
<1> QED
    BY <1>1, <1>2, <1>3

\* A bucket that has just been used holds what was left in it.
LEMMA FreshIsItself ==
    ASSUME Tuned, NEW n \in 0 .. Capacity
    PROVE  /\ [tokens |-> n, age |-> 0] \in Bucket
           /\ Refilled([tokens |-> n, age |-> 0]) = n
<1>1. 0 * Rate = 0
    BY DEF Tuned
<1> QED
    BY <1>1 DEF Tuned, Bucket, Refilled

-----------------------------------------------------------------------------

\* Every step of the limiter keeps the types, and is one of the token bucket.
LEMMA StepsMap ==
    ASSUME Tuned, TypeOK, [Next]_vars
    PROVE  TypeOK' /\ [Bucketed!Next]_<<up, now, Level, answer>>
<1> USE DEF TypeOK
<1>1. \A k \in Clients : Level[k] = IF buckets[k] = None THEN Capacity ELSE Refilled(buckets[k])
    BY DEF Level
<1>2. \A k \in Clients :
         Level'[k] = IF buckets'[k] = None THEN Capacity ELSE Refilled(buckets'[k])
    BY DEF Level, Refilled
<1>3. ASSUME NEW k \in Clients, NEW n \in 0 .. Capacity,
             buckets' = [buckets EXCEPT ![k] = [tokens |-> n, age |-> 0]]
      PROVE  /\ buckets' \in [Clients -> Bucket \union {None}]
             /\ Level' = [Level EXCEPT ![k] = n]
  <2>1. [tokens |-> n, age |-> 0] # None
      BY FreshIsItself DEF Tuned
  <2>2. \A j \in Clients : Level'[j] = IF j = k THEN n ELSE Level[j]
      BY <1>1, <1>2, <1>3, <2>1, FreshIsItself
  <2>3. DOMAIN Level = Clients /\ DOMAIN Level' = Clients
      BY DEF Level
  <2> QED
      BY <1>3, <2>2, <2>3, FreshIsItself DEF Level
<1>4. ASSUME NEW k \in Clients, NewBucket(k), up, UNCHANGED <<up, now>>
      PROVE  TypeOK' /\ Bucketed!Next
  <2>1. /\ Capacity - Token \in 0 .. Capacity /\ Level[k] = Capacity /\ Capacity >= Token
        /\ answer' = [answer EXCEPT ![k] = TRUE]
      BY <1>1, <1>4 DEF NewBucket, Tuned
  <2>2. /\ buckets' \in [Clients -> Bucket \union {None}]
        /\ Level' = [Level EXCEPT ![k] = Capacity - Token]
      BY <1>3, <1>4, <2>1 DEF NewBucket
  <2> QED
      BY <1>4, <2>1, <2>2 DEF Bucketed!Next, Bucketed!Runs, Bucketed!Pass
<1>5. ASSUME NEW k \in Clients, UseBucket(k), up, UNCHANGED <<up, now>>
      PROVE  TypeOK' /\ Bucketed!Next
  <2> DEFINE level == Refilled(buckets[k])
  <2>1. buckets[k] \in Bucket /\ Level[k] = level /\ level \in 0 .. Capacity
      BY <1>1, <1>5, RefilledIsLevel DEF UseBucket
  <2>2. /\ answer' = [answer EXCEPT ![k] = level >= Token]
        /\ buckets' = [buckets EXCEPT ![k] =
                         [tokens |-> IF level >= Token THEN level - Token ELSE level, age |-> 0]]
      BY <1>5 DEF UseBucket
  <2>3. CASE level >= Token
    <3>1. /\ level - Token \in 0 .. Capacity
          /\ buckets' = [buckets EXCEPT ![k] = [tokens |-> level - Token, age |-> 0]]
          /\ answer' = [answer EXCEPT ![k] = TRUE]
      <4>1. level - Token \in 0 .. Capacity
          BY <2>1, <2>3 DEF Tuned
      <4>2. (level >= Token) = TRUE
          BY <2>3
      <4> QED
          BY <2>2, <4>1, <4>2
    <3>2. /\ buckets' \in [Clients -> Bucket \union {None}]
          /\ Level' = [Level EXCEPT ![k] = level - Token]
        BY <1>3, <3>1
    <3> QED
        BY <1>5, <2>1, <2>3, <3>1, <3>2 DEF Bucketed!Next, Bucketed!Runs, Bucketed!Pass
  <2>4. CASE level < Token
    <3>1. /\ buckets' = [buckets EXCEPT ![k] = [tokens |-> level, age |-> 0]]
          /\ answer' = [answer EXCEPT ![k] = FALSE]
      <4>1. (level >= Token) = FALSE
          BY <2>1, <2>4 DEF Tuned
      <4> QED
          BY <2>2, <4>1
    <3>2. /\ buckets' \in [Clients -> Bucket \union {None}]
          /\ Level' = [Level EXCEPT ![k] = level]
        BY <1>3, <2>1, <3>1
    <3>3. Level' = Level
        BY <2>1, <3>2 DEF Level
    <3> QED
        BY <1>5, <2>1, <2>4, <3>1, <3>2, <3>3 DEF Bucketed!Next, Bucketed!Runs, Bucketed!Refuse
  <2> QED
      BY <2>1, <2>3, <2>4 DEF Tuned
<1>6. ASSUME Tick, up, UNCHANGED up
      PROVE  TypeOK' /\ Bucketed!Next
  <2>1. \A k \in Clients :
           /\ buckets'[k] \in Bucket \union {None}
           /\ Level'[k] = IF Level[k] + Rate > Capacity THEN Capacity ELSE Level[k] + Rate
    <3> SUFFICES ASSUME NEW k \in Clients
                 PROVE  /\ buckets'[k] \in Bucket \union {None}
                        /\ Level'[k] = IF Level[k] + Rate > Capacity THEN Capacity
                                       ELSE Level[k] + Rate
        OBVIOUS
    <3>1. CASE buckets[k] = None
      <4>1. buckets'[k] = None
          BY <1>6, <3>1 DEF Tick
      <4>2. Level[k] = Capacity /\ Level'[k] = Capacity
          BY <1>1, <1>2, <3>1, <4>1
      <4> QED
          BY <4>1, <4>2 DEF Tuned
    <3>2. CASE buckets[k] # None
      <4> DEFINE later == [buckets[k] EXCEPT !.age = IF @ > MaxAge THEN @ ELSE @ + 1]
      <4>1. buckets[k] \in Bucket /\ buckets'[k] = later
          BY <1>6, <3>2 DEF Tick
      <4>2. /\ later \in Bucket
            /\ Refilled(later) = IF Refilled(buckets[k]) + Rate > Capacity THEN Capacity
                                 ELSE Refilled(buckets[k]) + Rate
          BY <4>1, RefilledLater
      <4>3. later # None
          BY <4>2 DEF Tuned
      <4> QED
          BY <1>1, <1>2, <3>2, <4>1, <4>2, <4>3
    <3> QED
        BY <3>1, <3>2
  <2>2. Level' = [k \in Clients |-> IF Level[k] + Rate > Capacity THEN Capacity ELSE Level[k] + Rate]
      BY <2>1 DEF Level
  <2>3. buckets' \in [Clients -> Bucket \union {None}]
      BY <1>6, <2>1 DEF Tick
  <2> QED
      BY <1>6, <2>2, <2>3 DEF Tick, Unasked, Bucketed!Next, Bucketed!Runs, Bucketed!Tick,
                              Bucketed!Unasked
<1>7. ASSUME Cleanup, UNCHANGED up
      PROVE  TypeOK' /\ UNCHANGED <<up, now, Level, answer>>
  <2>1. \A k \in Clients : buckets'[k] \in Bucket \union {None} /\ Level'[k] = Level[k]
      BY <1>1, <1>2, <1>7, OldIsFull DEF Cleanup
  <2>2. Level' = Level
      BY <2>1 DEF Level
  <2>3. buckets' \in [Clients -> Bucket \union {None}]
      BY <1>7, <2>1 DEF Cleanup
  <2> QED
      BY <1>7, <2>2, <2>3 DEF Cleanup
<1>8. CASE Stop
  <2>1. \A k \in Clients : Level'[k] = Capacity
      BY <1>2, <1>8 DEF Stop
  <2>2. Level' = [k \in Clients |-> Capacity]
      BY <2>1 DEF Level
  <2> QED
      BY <1>8, <2>2 DEF Stop, Unasked, Bucketed!Next, Bucketed!Stop, Bucketed!Full,
                        Bucketed!Unasked
<1>9. CASE Start
    BY <1>9 DEF Start, Level, Refilled, Bucketed!Next, Bucketed!Start
<1>10. CASE UNCHANGED vars
    BY <1>10 DEF vars, Level, Refilled
<1>11. CASE Runs
    BY <1>4, <1>5, <1>6, <1>7, <1>11 DEF Runs, Allow
<1> QED
    BY <1>8, <1>9, <1>10, <1>11 DEF Next

-----------------------------------------------------------------------------
(* The theorem.                                                            *)

\* Buckets made late, refilled late and deleted are a token bucket for each client.
THEOREM LimiterRefinesBucket == ASSUME Tuned PROVE Spec => ActsAsTokenBucket
<1>1. Init => Bucketed!Init
    BY DEF Init, Level, Unasked, Bucketed!Init, Bucketed!Full, Bucketed!Unasked
<1>2. TypeOK /\ [Next]_vars => TypeOK' /\ [Bucketed!Next]_<<up, now, Level, answer>>
    BY StepsMap
<1> QED
    BY <1>1, <1>2, InitTyped, PTL DEF Spec, ActsAsTokenBucket, Bucketed!Spec, Bucketed!vars
=============================================================================
