----------------------------- MODULE MCCluster -----------------------------
(* Three masters, one slot each; nodes 4 and 5 replicate node 1. *)
EXTENDS Cluster

MCMasterOf == [n \in Nodes |-> IF n \in {4, 5} THEN 1 ELSE None]
MCOwnerOf == <<1, 2, 3>>
MCEpochOf == [n \in Nodes |-> IF n <= 3 THEN n ELSE 0]
=============================================================================
