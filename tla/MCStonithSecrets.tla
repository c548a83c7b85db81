-------------------------- MODULE MCStonithSecrets --------------------------
(* Instances of StonithSecrets for TLC.                                    *)
EXTENDS StonithSecrets, TLC

Symmetry ==
  Permutations(Worker) \cup Permutations(Project) \cup Permutations(Target)
    \cup Permutations(Login)
=============================================================================
