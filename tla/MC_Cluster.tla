----------------------------- MODULE MC_Cluster -----------------------------
(* Model-checking instance of Cluster: three nodes with ordered ids. *)
EXTENDS Cluster

MC_Nodes == {1, 2, 3}
MC_Limit == 4
=============================================================================
