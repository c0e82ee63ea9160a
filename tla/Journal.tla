------------------------------ MODULE Journal ------------------------------
(***************************************************************************)
(* The ledger journal of the wallet service: what one row is, how a        *)
(* balance is derived from the rows, and the contract every writer of the  *)
(* journal keeps.  The specification at the end is the abstract one; the   *)
(* request handlers of module Ledger are shown to implement it.            *)
(***************************************************************************)
EXTENDS Integers, Sequences, FiniteSetsExt

CONSTANTS Player,     \* the player ids
          Name,       \* the idempotency keys the callers make up
          Amount,     \* the amounts, in minor units
          MaxNest     \* bound: how often "rollback:" may prefix a target key

ASSUME AmountsAreNatural == Amount \subseteq Nat
ASSUME MaxNestIsNatural == MaxNest \in Nat

VARIABLE journal

---------------------------------------------------------------------------
\* An idempotency key is a caller's name with "rollback:" in front of it some
\* number of times.  No caller's own key starts with that prefix: they are
\* "bet:", "win:", "deposit:", "withdraw:" and "withdraw-refund:" keys.
Key == (0 .. MaxNest + 1) \X Name
CallerKey(name) == <<0, name>>
ReversalKey(key) == <<key[1] + 1, key[2]>>

Direction == {"DEBIT", "CREDIT"}
Opposite(direction) == IF direction = "DEBIT" THEN "CREDIT" ELSE "DEBIT"

Entry == [key : Key, player : Player, direction : Direction, amount : Amount]

\* Mutant: the reversal keeps the direction and negates the amount.
ReversalNegates(entry) ==
    [entry EXCEPT !.key = ReversalKey(entry.key), !.amount = -entry.amount]

\* The compensating row of a row: same player and amount, opposite direction.
Reversal(entry) ==
    [key       |-> ReversalKey(entry.key),
     player    |-> entry.player,
     direction |-> Opposite(entry.direction),
     amount    |-> entry.amount]

---------------------------------------------------------------------------
\* HasOp: is the key in the journal?
HasOp(key) == \E i \in DOMAIN journal : journal[i].key = key

\* Credits less debits, before the floor.
RawBalance(rows, player) ==
    LET signed(i) == IF rows[i].direction = "CREDIT"
                     THEN rows[i].amount ELSE -rows[i].amount
    IN  MapThenSumSet(signed, {i \in DOMAIN rows : rows[i].player = player})

\* The balance a caller is shown is never negative.
Balance(rows, player) == Max({RawBalance(rows, player), 0})

---------------------------------------------------------------------------
\* The contract: the journal only grows, one row at a time, never by a key it
\* holds, and a reversal's key is used only for the mirror image of a row.
JournalInit == journal = <<>>

Post(entry) ==
    /\ ~HasOp(entry.key)
    /\ \/ entry.key[1] = 0
       \/ \E i \in DOMAIN journal : entry = Reversal(journal[i])
    /\ journal' = Append(journal, entry)

JournalNext == \E entry \in Entry : Post(entry)

JournalSpec == JournalInit /\ [][JournalNext]_journal
=============================================================================
