---------------------------- MODULE MCDrafting ----------------------------
(* Instances of Drafting for TLC. *)
EXTENDS Drafting

CONSTANTS e1, e2, e3, w1, w2

MCEmails == {e1, e2, e3}
MCWaits == {w1, w2}
Empty == {<<>>}
Pair == {<<e1, w1, e2>>}
Both == Empty \cup Pair
=============================================================================
