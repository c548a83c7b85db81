----------------------------- MODULE MCAccounts -----------------------------
(* Instances of Accounts for TLC.                                          *)
EXTENDS Accounts, TLC

Symmetry ==
  Permutations(Worker) \cup Permutations(Account \ {Root})
=============================================================================
