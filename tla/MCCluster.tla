------------------------------ MODULE MCCluster ------------------------------
(* Cluster with two nodes and one command. *)
EXTENDS Cluster
CONSTANTS c1, n1, n2
MCOneCommand == {c1}
MCTwoNodes == {n1, n2}
==============================================================================
