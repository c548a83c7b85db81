--------------------------- MODULE MCClusterJobs ---------------------------
(* Instances of ClusterJobs for TLC.                                       *)
EXTENDS ClusterJobs, TLC

Symmetry == Permutations(Node) \cup Permutations(Worker) \cup Permutations(Inventory)
=============================================================================
