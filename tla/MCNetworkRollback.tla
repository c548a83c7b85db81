------------------------- MODULE MCNetworkRollback -------------------------
(* Instances of NetworkRollback for TLC.                                   *)
EXTENDS NetworkRollback, TLC

Symmetry == Permutations(Worker)
=============================================================================
