--------------------------- MODULE MCProjectKeys ---------------------------
(* Instances of ProjectKeys for TLC.                                       *)
EXTENDS ProjectKeys, TLC

Symmetry == Permutations(Node) \cup Permutations(Worker)
=============================================================================
