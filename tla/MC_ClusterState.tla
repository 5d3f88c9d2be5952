-------------------------- MODULE MC_ClusterState --------------------------
(* Model-checking instance of ClusterState: three nodes with ordered ids,  *)
(* 1 s cluster ticks, the default 1/3 s main-loop sleep and 5 s timeout.   *)
EXTENDS ClusterState

MC_Nodes == {1, 2, 3}
MC_Limit == 4
=============================================================================
