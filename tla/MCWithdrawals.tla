--------------------------- MODULE MCWithdrawals ---------------------------
(* Instances of Withdrawals for TLC: two small withdrawals and a larger one, *)
(* together more than the balance; the vault covers the larger one alone.    *)
EXTENDS Withdrawals

Amounts == [w \in Withdrawal |-> IF w = "w3" THEN 3 ELSE 2]
=============================================================================
