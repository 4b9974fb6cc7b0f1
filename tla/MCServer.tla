------------------------------ MODULE MCServer ------------------------------
(* Server for TLC: two statements, of which the second makes the table, two keys, *)
(* two good forms, one without ids and one with an unusable key, two saves at a   *)
(* time, and one client of the limiter whose bucket holds one token of two units. *)
EXTENDS Server

CONSTANTS id, content, a, b, blank, s1, s2, k1

MCKeys == {id, content}
MCIdKeys == {id}
MCForms == {a, b, blank}
MCBlank == {blank}
MCUnusable == {blank}
MCSaves == {s1, s2}
MCClients == {k1}
=============================================================================
