------------------------------ MODULE MCCluster ------------------------------
(* An instance of Cluster for TLC: two processors.                            *)
EXTENDS Cluster
CONSTANT r1
==============================================================================
