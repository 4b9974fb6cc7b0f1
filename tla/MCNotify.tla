------------------------------ MODULE MCNotify ------------------------------
(* Notify for TLC: an owner and a user the car may be shared with, two       *)
(* devices, two tokens, and one slot that two jobs compete for.             *)
EXTENDS Notify

CONSTANTS u1, u2, d1, d2, t1, t2, c1, j1, j2

MCUsers == {u1, u2}
MCDevices == {d1, d2}
MCTokens == {t1, t2}
MCCars == {c1}
MCOwnerOf == [c \in MCCars |-> u1]
MCJobs == {j1, j2}
=============================================================================
