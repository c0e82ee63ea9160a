----------------------------- MODULE MCServices -----------------------------
(* An instance of Services for TLC: a wallet with its file and two backends   *)
(* with two.                                                                 *)
EXTENDS Services

Files == [p \in Process |-> IF p \in Wallet THEN <<"0001">> ELSE <<"0002", "0003">>]
=============================================================================
