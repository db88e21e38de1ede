---------------------------- MODULE AbstractSet ----------------------------
(* What every container of distinct elements promises its callers: adding,  *)
(* removing and looking up answer as on a mathematical set, and nothing     *)
(* else the container does (moving entries between tables, splitting a      *)
(* node, changing an encoding) can be observed.                             *)
CONSTANT Elements
VARIABLES set, answer

Init == set = {} /\ answer = FALSE

Add(e) == set' = set \union {e} /\ answer' = (e \notin set)

Remove(e) == set' = set \ {e} /\ answer' = (e \in set)

Contains(e) == UNCHANGED set /\ answer' = (e \in set)

Clear == set' = {} /\ UNCHANGED answer

Next == Clear \/ \E e \in Elements : Add(e) \/ Remove(e) \/ Contains(e)

Spec == Init /\ [][Next]_<<set, answer>>
=============================================================================
