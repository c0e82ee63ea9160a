------------------------------ MODULE MCLedger ------------------------------
(* Instances of Ledger for TLC: the commands the callers may send.           *)
EXTENDS Ledger, TLC

Op(op, name, player, amount) ==
    [op |-> op, key |-> CallerKey(name), player |-> player, amount |-> amount]
Rollback(nest, name) == [op |-> "rollback", key |-> <<nest, name>>]

\* One win pays for one of two bets; a bet of another player; every caller key
\* may be rolled back, and so may the reversal of a bet.
Commands ==
    {Op("win", "w1", "p1", 2), Op("bet", "b1", "p1", 2), Op("bet", "b2", "p1", 1),
     Rollback(0, "w1"), Rollback(0, "b1"), Rollback(1, "b1")}

\* Two bets and the one win that covers only one of them.
RacingBets ==
    {Op("win", "w1", "p1", 2), Op("bet", "b1", "p1", 2), Op("bet", "b2", "p1", 2)}

Symmetry == Permutations(Request)
=============================================================================
