----------------------------- MODULE TokenBucket -----------------------------
(***************************************************************************)
(* What the rate limiter promises while the process is up: one bucket for  *)
(* every client, full at the start, that gets Rate units each tick up to   *)
(* its Capacity, and a request is let through exactly when a whole token   *)
(* is there, which it takes.  Nothing else fills a bucket but the end of   *)
(* the process.  Both the process and time are seen from outside, so that  *)
(* neither a tick nor a restart can be made up to explain a full bucket.   *)
(***************************************************************************)
EXTENDS Naturals

CONSTANTS
    Clients,
    Token,        \* units that make a token
    Capacity,     \* units in a full bucket
    Rate          \* units that a tick gives

VARIABLES
    up,           \* whether the process runs
    now,          \* time, of which only matters that it goes on: 0, 1, 0, ...
    level,        \* units in a client's bucket
    answer        \* what the client's last request in this tick was told, TRUE without one

vars == <<up, now, level, answer>>

Full == [k \in Clients |-> Capacity]
Unasked == [k \in Clients |-> TRUE]

Init ==
    /\ up = FALSE
    /\ now = 0
    /\ level = Full
    /\ answer = Unasked

Pass(k) ==
    /\ level[k] >= Token
    /\ level' = [level EXCEPT ![k] = @ - Token]
    /\ answer' = [answer EXCEPT ![k] = TRUE]
    /\ UNCHANGED now

Refuse(k) ==
    /\ level[k] < Token
    /\ answer' = [answer EXCEPT ![k] = FALSE]
    /\ UNCHANGED <<level, now>>

Tick ==
    /\ now' = 1 - now
    /\ level' = [k \in Clients |-> IF level[k] + Rate > Capacity THEN Capacity ELSE level[k] + Rate]
    /\ answer' = Unasked

Runs == up /\ UNCHANGED up /\ (Tick \/ \E k \in Clients : Pass(k) \/ Refuse(k))

Start == ~up /\ up' = TRUE /\ UNCHANGED <<now, level, answer>>

Stop == up /\ up' = FALSE /\ level' = Full /\ answer' = Unasked /\ UNCHANGED now

Next == Runs \/ Start \/ Stop

Spec == Init /\ [][Next]_vars
=============================================================================
