------------------------------- MODULE MCApp -------------------------------
(***************************************************************************)
(* Two users and two processes; a conversation of a and b, a request and a   *)
(* comment of a, and a as a user to follow.                                  *)
(***************************************************************************)
EXTENDS App, TLC

CONSTANTS a, b, w1, w2

TwoUsers == {a, b}
TwoWorkers == {w1, w2}
SymmetricWorkers == Permutations(TwoWorkers)

All == {"talk", "post", "reply", "author"}
Kinds == [t \in All |-> CASE t = "talk" -> "conversation"
                         [] t = "post" -> "request"
                         [] t = "reply" -> "comment"
                         [] t = "author" -> "user"]
OwnersOf == [t \in All |-> IF t = "talk" THEN {a, b} ELSE {a}]
GivenTo == [t \in All |-> IF t = "talk" THEN {-1, 0, 1} ELSE {-2, 1}]
LikedBefore == {<<"talk", b>>, <<"post", b>>, <<"author", b>>}
=============================================================================
