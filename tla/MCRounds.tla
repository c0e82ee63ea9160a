------------------------------ MODULE MCRounds ------------------------------
(* Instances of Rounds for TLC.                                              *)
EXTENDS Rounds, TLC

\* A loss, a win, a scatter with a win, and a scatter that wins nothing.
Evaluations ==
    {[payout |-> 0, spins |-> 0], [payout |-> 2, spins |-> 0],
     [payout |-> 1, spins |-> 1], [payout |-> 0, spins |-> 1]}

Symmetry == Permutations(Round) \cup Permutations(Claim)
=============================================================================
