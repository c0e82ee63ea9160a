------------------------------- MODULE MCSeeds -------------------------------
(* Instances of Seeds for TLC: three requests of one player and one of another *)
(* player's, of every kind.                                                   *)
EXTENDS Seeds

Owners == [r \in Request |-> IF r = "r4" THEN "p2" ELSE "p1"]
=============================================================================
