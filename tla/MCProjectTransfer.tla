------------------------- MODULE MCProjectTransfer -------------------------
(* Instances of ProjectTransfer for TLC.                                   *)
EXTENDS ProjectTransfer, TLC

Symmetry ==
  Permutations(Worker) \cup Permutations(Node) \cup Permutations(Name)
    \cup Permutations(Address)
=============================================================================
