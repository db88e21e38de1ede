---------------------------- MODULE MCMessaging -----------------------------
(* A conversation of two members, the first of whom may reply to a request of *)
(* the second.  Two texts, so that one member can post twice in a row.        *)
EXTENDS Messaging, TLC

CONSTANTS a, b, w1, w2, k1, k2, x, y

MCUsers == {a, b}
TwoTexts == {x, y}
Texts == {x, Markup}
SymmetricShows == Permutations({w1, w2})
=============================================================================
