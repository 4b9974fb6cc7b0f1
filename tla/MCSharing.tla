----------------------------- MODULE MCSharing ------------------------------
(* Sharing for TLC: an owner and a guest, who may come back, and two calls.  *)
EXTENDS Sharing, TLC

CONSTANTS e1, e2, c1, h1, h2

MCEmails == {e1, e2}
MCCars == {c1}
MCCalls == {h1, h2}

Symmetry == Permutations(MCCalls)
=============================================================================
