------------------------------- MODULE MCSync -------------------------------
(* Sync for TLC: an owner and somebody the car is shared with, a device each. *)
EXTENDS Sync, TLC

CONSTANTS u1, u2, c1, s1, d1, d2, r1, r2

MCUsers == {u1, u2}
MCCars == {c1}
MCServices == {s1}
MCOwner == c1 :> u1
MCCarOf == s1 :> c1
MCDevices == {d1, d2}
MCUserOf == d1 :> u1 @@ d2 :> u2
MCRequests == {r1, r2}

\* For liveness: two devices of the owner.
LiveUsers == {u1}
LiveUserOf == d1 :> u1 @@ d2 :> u1

Symmetry == Permutations(MCRequests)
=============================================================================
