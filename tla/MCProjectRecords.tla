-------------------------- MODULE MCProjectRecords --------------------------
(* Instances of ProjectRecords for TLC.                                    *)
EXTENDS ProjectRecords, TLC

Symmetry == Permutations(Worker) \cup Permutations(Host) \cup Permutations(NodeId)
=============================================================================
