------------------------------ MODULE MCClient ------------------------------
(* Instances of Client for TLC.                                              *)
EXTENDS Client, TLC

Symmetry == Permutations(Tab) \cup Permutations(Player) \cup Permutations(Request)
=============================================================================
