----------------------------- MODULE RateLimiter -----------------------------
(***************************************************************************)
(* The rate limiter (internal/middleware/ratelimit.go): a bucket is made   *)
(* with a client's first request, refilled only when the client comes      *)
(* again, by the time gone since then, and deleted when it has been idle   *)
(* for long.  The whole map is under one mutex, so a call of Allow and a   *)
(* clean-up are one step each.                                             *)
(*                                                                         *)
(* Time goes in ticks.  A bucket keeps how long ago lastCheck was, up to   *)
(* MaxAge + 1: beyond that a bucket is full and old, whatever its age.     *)
(* The code's numbers are fractions; here a token is a number of units.    *)
(***************************************************************************)
EXTENDS Naturals

CONSTANTS
    Clients,      \* the keys: remote addresses, with their ports
    Token, Capacity, Rate, \* units of a token, a full bucket, a tick
    MaxAge,       \* ticks after which an idle bucket is deleted
    None

Bucket == [tokens : 0 .. Capacity, age : 0 .. MaxAge + 1]

\* What the promise needs of the constants.  An idle bucket is full before it is old
\* (10 a second for 10 minutes, and 30).
Tuned ==
    /\ Token \in Nat \ {0}
    /\ Capacity \in Nat
    /\ Rate \in Nat
    /\ MaxAge \in Nat
    /\ Token <= Capacity
    /\ Capacity <= MaxAge * Rate
    /\ None \notin Bucket

VARIABLES
    up,           \* whether the process runs
    now,          \* time, modulo 2
    buckets,      \* of a client, None before its first request
    answer        \* what Allow last returned for a client in this tick, else TRUE

vars == <<up, now, buckets, answer>>

TypeOK ==
    /\ up \in BOOLEAN /\ now \in {0, 1}
    /\ buckets \in [Clients -> Bucket \union {None}]
    /\ answer \in [Clients -> BOOLEAN]

Unasked == [k \in Clients |-> TRUE]

Init ==
    /\ up = FALSE /\ now = 0
    /\ buckets = [k \in Clients |-> None]
    /\ answer = Unasked

-----------------------------------------------------------------------------

\* Mutant: no cap.
RefilledUncapped(b) == b.tokens + b.age * Rate

Refilled(b) ==
    LET tokens == b.tokens + b.age * Rate IN IF tokens > Capacity THEN Capacity ELSE tokens

\* The first request makes a bucket and takes a token of it.
NewBucket(k) ==
    /\ buckets[k] = None
    /\ buckets' = [buckets EXCEPT ![k] = [tokens |-> Capacity - Token, age |-> 0]]
    /\ answer' = [answer EXCEPT ![k] = TRUE]

UseBucket(k) ==
    LET tokens == Refilled(buckets[k])
        pass == tokens >= Token
    IN /\ buckets[k] # None
       /\ answer' = [answer EXCEPT ![k] = pass]
       /\ buckets' = [buckets EXCEPT ![k] =
                        [tokens |-> IF pass THEN tokens - Token ELSE tokens, age |-> 0]]

Allow(k) == (NewBucket(k) \/ UseBucket(k)) /\ UNCHANGED now

Tick ==
    /\ now' = 1 - now
    /\ buckets' = [k \in Clients |->
                     IF buckets[k] = None THEN None
                     ELSE [buckets[k] EXCEPT !.age = IF @ > MaxAge THEN @ ELSE @ + 1]]
    /\ answer' = Unasked

\* Mutant: the comparison is the wrong way round.
CleanupYoung ==
    /\ buckets' = [k \in Clients |->
                     IF buckets[k] # None /\ buckets[k].age <= MaxAge THEN None ELSE buckets[k]]
    /\ UNCHANGED <<now, answer>>

\* StartCleanup, at each tick of its ticker.
Cleanup ==
    /\ buckets' = [k \in Clients |->
                     IF buckets[k] # None /\ buckets[k].age > MaxAge THEN None ELSE buckets[k]]
    /\ UNCHANGED <<now, answer>>

Runs == up /\ UNCHANGED up /\ (Tick \/ Cleanup \/ \E k \in Clients : Allow(k))

\* NewRateLimiter, with an empty map.
Start == ~up /\ up' = TRUE /\ UNCHANGED <<now, buckets, answer>>

\* The buckets are in memory only.
Stop ==
    /\ up /\ up' = FALSE
    /\ buckets' = [k \in Clients |-> None]
    /\ answer' = Unasked
    /\ UNCHANGED now

Next == Runs \/ Start \/ Stop

Spec == Init /\ [][Next]_vars

-----------------------------------------------------------------------------

\* What a client has: a bucket that is not there is full, one that is there has
\* also what it will get for the time gone.
Level == [k \in Clients |-> IF buckets[k] = None THEN Capacity ELSE Refilled(buckets[k])]

Bucketed == INSTANCE TokenBucket WITH level <- Level

\* Whatever is refilled late, made late or deleted, each client sees one token
\* bucket: requests pass exactly as far as its burst and its rate go
\* (ratelimit.go, 29-66).
ActsAsTokenBucket == Bucketed!Spec
=============================================================================
