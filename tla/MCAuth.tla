------------------------------- MODULE MCAuth -------------------------------
(* Auth for TLC: one account, the admin's, that logs in by one link and      *)
(* polls for it, two handlers at a time, a session and three tokens.         *)
EXTENDS Auth, TLC

CONSTANTS u1, x1, l1, t1, t2, t3, h1, h2

MCUsers == {u1}
MCAdminUsers == {u1}
MCSessions == {x1}
MCLinks == {l1}
MCTokens == {t1, t2, t3}
MCRequests == {h1, h2}

Symmetry == Permutations(MCTokens) \union Permutations(MCRequests)
=============================================================================
