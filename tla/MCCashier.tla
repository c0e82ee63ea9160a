------------------------------ MODULE MCCashier ------------------------------
(* Instances of Cashier for TLC.                                             *)
EXTENDS Cashier, TLC

Symmetry == Permutations(Op) \cup Permutations(Spin)
=============================================================================
