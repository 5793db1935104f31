----------------------------- MODULE MCIdentity -----------------------------
(* Processes, aliases and keys are interchangeable in every property.      *)
EXTENDS Identity, TLC

Symmetry == Permutations(Proc) \cup Permutations(Alias) \cup Permutations(Key)
=============================================================================
