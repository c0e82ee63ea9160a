----------------------------- MODULE MCDeposits -----------------------------
(* Instances of Deposits for TLC: two transactions with a Deposit log each,  *)
(* of different amounts, neither a whole number of CHIP.                     *)
EXTENDS Deposits

Logs == {<<"t1", 0>>, <<"t2", 0>>}
Amounts == [d \in Logs |-> IF d = <<"t1", 0>> THEN 25 ELSE 19]
=============================================================================
