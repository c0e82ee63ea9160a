---------------------------- MODULE Withdrawals ----------------------------
(***************************************************************************)
(* The withdraw saga (apps/backend, modules/onchain): debit the ledger,    *)
(* write a row, send the vault's transaction, mark the row; on an          *)
(* exception mark it failed and refund the ledger.  Every withdraw call    *)
(* makes an id of its own, so a Withdrawal is one call.  Calls of one      *)
(* player interleave at every await and draw on one balance and one vault. *)
(*                                                                         *)
(* Each bet and win of the wallet is one step here: the interleaving of    *)
(* requests inside the wallet is module Ledger's subject.  The names that *)
(* Deposits, the other half of onchain, has as well begin with Saga here.  *)
(***************************************************************************)
EXTENDS Integers, Functions

CONSTANTS Withdrawal,   \* the withdraw calls of one player
          Chips,        \* the amount each asks for
          Funds,        \* the player's balance at the start
          VaultFunds    \* the CHIP in the vault at the start

FaultKind == {"debit",       \* the wallet's answer to the debit is an error
              "create",      \* the row cannot be inserted
              "rpc",         \* the node does not take the transaction
              "rpcAnswer",   \* the node takes it, and its answer is lost
              "markSent",    \* the row cannot be marked sent
              "markFailed",  \* the row cannot be marked failed
              "refund",      \* the wallet's answer to the refund is an error
              "restart"}     \* the backend stops

ASSUME ChipsArePositive == Chips \in [Withdrawal -> Nat \ {0}]
ASSUME FundsAreNatural == Funds \in Nat /\ VaultFunds \in Nat

VARIABLES call,       \* where each call is
          debited,    \* the withdrawals with a withdraw: row in the ledger
          refunded,   \* the withdrawals with a withdraw-refund: row
          row,        \* onchain_withdrawals.status
          tx,         \* what became of each transaction on the chain
          answer,     \* what the player was told
          met         \* history: the failures each call has met

sagaVars == <<call, debited, refunded, row, tx, answer, met>>

SagaPoint == {"debit", "create", "send", "markSent", "markFailed", "refund", "end"}

SagaTypeOK ==
    /\ call \in [Withdrawal -> SagaPoint]
    /\ debited \subseteq Withdrawal /\ refunded \subseteq Withdrawal
    /\ row \in [Withdrawal -> {"absent", "pending", "sent", "failed"}]
    /\ tx \in [Withdrawal -> {"none", "pooled", "paid", "reverted"}]
    /\ answer \in [Withdrawal -> {"none", "ok", "error", "refunded"}]
    /\ met \in [Withdrawal -> SUBSET FaultKind]

SagaInit ==
    /\ call = [w \in Withdrawal |-> "debit"]
    /\ debited = {} /\ refunded = {}
    /\ row = [w \in Withdrawal |-> "absent"]
    /\ tx = [w \in Withdrawal |-> "none"]
    /\ answer = [w \in Withdrawal |-> "none"]
    /\ met = [w \in Withdrawal |-> {}]

Balance ==
    Funds - SumFunctionOnSet(Chips, debited) + SumFunctionOnSet(Chips, refunded)

VaultBalance ==
    VaultFunds - SumFunctionOnSet(Chips, {w \in Withdrawal : tx[w] = "paid"})

---------------------------------------------------------------------------
Meet(w, fault) == met' = [met EXCEPT ![w] = @ \cup {fault}]

Proceed(w, point) ==
    /\ call' = [call EXCEPT ![w] = point]
    /\ UNCHANGED answer

Answer(w, what) ==
    /\ call' = [call EXCEPT ![w] = "end"]
    /\ answer' = [answer EXCEPT ![w] = what]

\* Mutant: the result of the debit is not looked at.
DebitUnchecked(w) ==
    /\ call[w] = "debit"
    /\ debited' = IF Chips[w] <= Balance THEN debited \cup {w} ELSE debited
    /\ Proceed(w, "create")
    /\ UNCHANGED <<refunded, row, tx, met>>

Debit(w) ==
    /\ call[w] = "debit"
    /\ IF Chips[w] <= Balance
       THEN debited' = debited \cup {w} /\ Proceed(w, "create")
       ELSE Answer(w, "error") /\ UNCHANGED debited
    /\ UNCHANGED <<refunded, row, tx, met>>

\* The wallet cannot be reached, or took the debit and its answer is lost.
DebitFails(w) ==
    /\ call[w] = "debit"
    /\ Meet(w, "debit")
    /\ \/ UNCHANGED debited
       \/ Chips[w] <= Balance /\ debited' = debited \cup {w}
    /\ Answer(w, "error")
    /\ UNCHANGED <<refunded, row, tx>>

CreateRow(w) ==
    /\ call[w] = "create"
    /\ row' = [row EXCEPT ![w] = "pending"]
    /\ Proceed(w, "send")
    /\ UNCHANGED <<debited, refunded, tx, met>>

\* Mutant: only a failed transaction is refunded, not a failed insert.
CreateFailsUnrefunded(w) ==
    /\ call[w] = "create"
    /\ Meet(w, "create")
    /\ Answer(w, "error")
    /\ UNCHANGED <<debited, refunded, row, tx>>

\* No row, or no owner key: thrown before the inner try, so no row is marked.
CreateFails(w) ==
    /\ call[w] = "create"
    /\ Meet(w, "create")
    /\ Proceed(w, "refund")
    /\ UNCHANGED <<debited, refunded, row, tx>>

\* writeContract: the gas estimate runs the call first and throws if the vault
\* cannot pay at this moment; otherwise the transaction is handed to the chain.
Send(w) ==
    /\ call[w] = "send"
    /\ IF Chips[w] <= VaultBalance
       THEN tx' = [tx EXCEPT ![w] = "pooled"] /\ Proceed(w, "markSent")
       ELSE Proceed(w, "markFailed") /\ UNCHANGED tx
    /\ UNCHANGED <<debited, refunded, row, met>>

SendFails(w) ==
    /\ call[w] = "send"
    /\ \/ Meet(w, "rpc") /\ UNCHANGED tx
       \/ /\ Meet(w, "rpcAnswer")
          /\ Chips[w] <= VaultBalance
          /\ tx' = [tx EXCEPT ![w] = "pooled"]
    /\ Proceed(w, "markFailed")
    /\ UNCHANGED <<debited, refunded, row>>

MarkSent(w) ==
    /\ call[w] = "markSent"
    /\ row' = [row EXCEPT ![w] = "sent"]
    /\ Answer(w, "ok")
    /\ UNCHANGED <<debited, refunded, tx, met>>

\* Inside the inner try: the transaction is out, and yet the call fails.
MarkSentFails(w) ==
    /\ call[w] = "markSent"
    /\ Meet(w, "markSent")
    /\ Proceed(w, "markFailed")
    /\ UNCHANGED <<debited, refunded, row, tx>>

\* Mutant: the inner catch does not throw on.
MarkFailedSwallows(w) ==
    /\ call[w] = "markFailed"
    /\ row' = [row EXCEPT ![w] = "failed"]
    /\ Answer(w, "error")
    /\ UNCHANGED <<debited, refunded, tx, met>>

\* Mutant: a status the table does not know.
MarkFailedUnknown(w) ==
    /\ call[w] = "markFailed"
    /\ row' = [row EXCEPT ![w] = "refunded"]
    /\ Proceed(w, "refund")
    /\ UNCHANGED <<debited, refunded, tx, met>>

\* The catch marks the row and throws on; if marking throws, that is thrown on.
MarkFailed(w) ==
    /\ call[w] = "markFailed"
    /\ \/ row' = [row EXCEPT ![w] = "failed"] /\ UNCHANGED met
       \/ Meet(w, "markFailed") /\ UNCHANGED row
    /\ Proceed(w, "refund")
    /\ UNCHANGED <<debited, refunded, tx>>

\* Mutant: the catch falls through to the answer of a sent withdrawal.
RefundAnswersOk(w) ==
    /\ call[w] = "refund"
    /\ refunded' = refunded \cup {w}
    /\ Answer(w, "ok")
    /\ UNCHANGED <<debited, row, tx, met>>

\* The refund's result is not looked at: the answer is the same either way.
Refund(w) ==
    /\ call[w] = "refund"
    /\ \/ refunded' = refunded \cup {w} /\ UNCHANGED met
       \/ Meet(w, "refund") /\ UNCHANGED refunded
    /\ Answer(w, "refunded")
    /\ UNCHANGED <<debited, row, tx>>

InService == {w \in Withdrawal : call[w] \notin {"debit", "end"}}

\* The backend stops: the calls in service end where they are, unanswered.
BackendStops ==
    /\ InService # {}
    /\ call' = [w \in Withdrawal |-> IF w \in InService THEN "end" ELSE call[w]]
    /\ met' = [w \in Withdrawal |->
                 IF w \in InService THEN met[w] \cup {"restart"} ELSE met[w]]
    /\ UNCHANGED <<debited, refunded, row, tx, answer>>

\* The chain executes a transaction: the vault pays, or reverts if it is short.
Execute(w) ==
    /\ tx[w] = "pooled"
    /\ tx' = [tx EXCEPT ![w] = IF Chips[w] <= VaultBalance THEN "paid" ELSE "reverted"]
    /\ UNCHANGED <<call, debited, refunded, row, answer, met>>

Step(w) ==
    \/ Debit(w) \/ DebitFails(w)
    \/ CreateRow(w) \/ CreateFails(w)
    \/ Send(w) \/ SendFails(w)
    \/ MarkSent(w) \/ MarkSentFails(w)
    \/ MarkFailed(w) \/ Refund(w)

SagaNext == BackendStops \/ \E w \in Withdrawal : Step(w) \/ Execute(w)

SagaSpec == SagaInit /\ [][SagaNext]_sagaVars

\* A call in service goes on, and the chain executes what it was handed.
SagaFairSpec ==
    SagaSpec /\ \A w \in Withdrawal : WF_sagaVars(Step(w)) /\ WF_sagaVars(Execute(w))

---------------------------------------------------------------------------
(* Properties.                                                             *)

\* Whatever fails, the vault pays nobody whose ledger was not debited, and a
\* refund gives back a debit that was taken.
PaidIsDebited ==
    \A w \in Withdrawal : tx[w] # "none" \/ w \in refunded => w \in debited

\* What the player is told is true: "ok" is on the chain, debited and never
\* refunded, and "refunded" is back in the ledger unless the refund itself
\* failed, whose result is not looked at.  The state is well typed.
AnswersAreTrue ==
    /\ SagaTypeOK
    /\ \A w \in Withdrawal :
        /\ answer[w] = "ok" => /\ w \in debited \ refunded
                               /\ row[w] = "sent" /\ tx[w] # "none"
        /\ answer[w] = "refunded" => w \in refunded \/ "refund" \in met[w]

\* The failures after which the ledger and the vault may disagree: the answer of
\* a debit, of a transaction or of marking it is lost, a refund fails, the
\* backend stops, or a transaction reverts that the gas estimate had passed.
Parting(w) ==
    \/ met[w] \cap {"debit", "rpcAnswer", "markSent", "refund", "restart"} # {}
    \/ tx[w] = "reverted"

\* "Money only leaves the ledger if it actually left the vault"
\* (onchain-withdraw.service.ts) after every other failure, in every order:
\* once a call has ended and its transaction is executed, the ledger is short
\* of the amount exactly if the vault paid it.  That it pays only what was debited
\* holds at every moment and after every failure.
LedgerMatchesVault ==
    /\ PaidIsDebited
    /\ \A w \in Withdrawal :
        call[w] = "end" /\ tx[w] # "pooled" /\ ~Parting(w) =>
            (w \in debited \ refunded <=> tx[w] = "paid")

\* Every debit is settled in the end, paid by the vault or refunded, unless it
\* met one of those failures.
EveryDebitSettles ==
    \A w \in Withdrawal :
        w \in debited ~> (tx[w] = "paid" \/ w \in refunded \/ Parting(w))
=============================================================================
