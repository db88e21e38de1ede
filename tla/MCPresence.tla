----------------------------- MODULE MCPresence -----------------------------
(* Two users and three connections: two tabs of one user beside one of the   *)
(* other, or a refused connection beside an open one of the same user.       *)
EXTENDS Presence, TLC

CONSTANTS u1, u2, c1, c2, c3

MCUsers == {u1, u2}
MCConns == {c1, c2, c3}
Symmetry == Permutations(MCUsers) \cup Permutations(MCConns)
=============================================================================
