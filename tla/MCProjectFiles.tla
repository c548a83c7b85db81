--------------------------- MODULE MCProjectFiles ---------------------------
(* Instances of ProjectFiles for TLC.                                      *)
EXTENDS ProjectFiles, TLC

Symmetry == Permutations(Worker)
=============================================================================
