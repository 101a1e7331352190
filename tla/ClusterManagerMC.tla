--------------------------- MODULE ClusterManagerMC ---------------------------
(* Instances of ClusterManager for TLC.                                     *)
EXTENDS ClusterManager

\* Hosts before, at and after the ID of the manager.
Hosts == {1, 2, 3}

\* Any node may bootstrap, and join by no, one or either of two addresses.
Configs == [bootstrap : BOOLEAN, joins : 0..2]
=============================================================================
