----------------------------- MODULE MCSyncPush -----------------------------
(* SyncPush for TLC: two accounts, two requests at a time, few change lists. *)
EXTENDS SyncPush, TLC

CONSTANTS u1, u2, c1, c2, s1, s2, r1, r2, settings

MCUsers == {u1, u2}
MCCars == {c1}
MCServices == {s1, s2}
MCTimes == 1 .. 2
MCRequests == {r1, r2}

Car(c, t) == [id |-> c, car |-> c, at |-> t, deleted |-> FALSE]
Svc(s, c, t, d) == [id |-> s, car |-> c, at |-> t, deleted |-> d]
Settings(c, t) == [id |-> settings, car |-> c, at |-> t, deleted |-> FALSE]

\* A car with its first service and settings; the car edited later; two services,
\* in both orders, one edited twice and one deleted.
MCPushes == {
    <<Car(c1, 1), Svc(s1, c1, 1, FALSE), Settings(c1, 1)>>,
    <<Car(c1, 2)>>,
    <<Svc(s1, c1, 1, FALSE), Svc(s2, c1, 1, FALSE), Svc(s1, c1, 2, FALSE)>>,
    <<Svc(s2, c1, 2, FALSE), Svc(s1, c1, 2, TRUE)>>}

\* For liveness: the devices of one account, two cars, locked in both orders, and a service that may be skipped,
\* stored, or refused because its car is gone.
LiveUsers == {u1}
LiveCars == {c1, c2}
LiveServices == {s1}
LivePushes == {
    <<Car(c1, 1), Car(c2, 1)>>,
    <<Car(c2, 1), Car(c1, 1)>>,
    <<Svc(s1, c1, 1, FALSE)>>}

Symmetry == Permutations(MCRequests) \union Permutations(MCUsers)
=============================================================================
