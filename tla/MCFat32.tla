------------------------------ MODULE MCFat32 ------------------------------
(* A small instance of Fat32 for the run that asks what a read gives.      *)
EXTENDS Fat32, TLC
Perms == Permutations(Names) \cup Permutations(Handles)
============================================================================
