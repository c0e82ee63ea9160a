------------------------------ MODULE Deposits ------------------------------
(***************************************************************************)
(* The on-chain deposit listener (apps/backend, modules/onchain).  Two     *)
(* timers of one process run passes that interleave at every await: poll   *)
(* scans confirmed blocks for Deposit logs, records each log once and      *)
(* credits it; reconcile credits recorded deposits again.  The deposits    *)
(* table and the cursor survive a restart, a pass does not.                *)
(*                                                                         *)
(* The chain may drop blocks, to at most ReorgDepth below the tallest head *)
(* it ever had.  Calls to the wallet and to the database may fail, before  *)
(* or after they took effect, and the backend may restart.                 *)
(***************************************************************************)
EXTENDS Integers, FiniteSets

CONSTANTS Tx,             \* the deposit transactions
          Deposit,        \* their Deposit logs, <<tx, log index>>
          Wei,            \* the amount of each log
          WeiPerChip,     \* what one CHIP is worth in wei
          Confirmations,  \* ONCHAIN_CONFIRMATIONS
          ReorgDepth,     \* how far below its tallest head the chain may fall
          MaxBlock,       \* bound: the blocks that are mined
          MaxReorgs,      \* bound: reorganisations
          MaxFaults,      \* bound: failed calls and restarts
          None            \* a pass is at no deposit

ASSUME DepositsAreLogs == Deposit # {} /\ Deposit \subseteq Tx \X Nat
ASSUME AmountsAreWei == Wei \in [Deposit -> Nat] /\ WeiPerChip \in Nat \ {0}
ASSUME BoundsAreNatural ==
    {Confirmations, ReorgDepth, MaxBlock, MaxReorgs, MaxFaults} \subseteq Nat
ASSUME NoneIsNoDeposit == None \notin Deposit
ASSUME ReorgsAreShallow == ReorgDepth <= Confirmations

VARIABLES block,      \* the block each transaction is in, 0 if in none
          head,       \* the height of the chain
          tallest,    \* the greatest height it ever had
          table,      \* onchain_deposits: absent, recorded, or credited
          cursor,     \* onchain_cursor.last_block
          ledger,     \* the rows the wallet holds for deposits
          announced,  \* onchain.deposit.confirmed events
          pc,         \* where each pass is
          todo,       \* the deposits a pass has still to go through
          current,    \* the deposit it is at
          safeHead,   \* poll's local copy of the confirmed height
          reorgs, faults

chain == <<block, head, tallest, reorgs>>
vars == <<chain, table, cursor, ledger, announced, pc, todo, current, safeHead, faults>>

Worker == {"poll", "reconcile"}
Point == {"idle", "scan", "next", "record", "credit", "mark", "announce"}

BlockOf(d) == block[d[1]]

\* Mutant: the key leaves the transaction out.
DepositKeyPerIndex(d) == <<"deposit", d[2]>>

\* The idempotency key of a deposit's credit.
DepositKey(d) == <<"deposit", d[1], d[2]>>

\* Whole CHIP; what is left over is not credited.
WeiToChip(wei) == wei \div WeiPerChip

LedgerRow(d) == [key |-> DepositKey(d), amount |-> WeiToChip(Wei[d])]
IsPaid(d) == LedgerRow(d) \in ledger

\* The wallet appends a row for a key it has not seen, and only then.
LedgerAfter(d) ==
    IF \E row \in ledger : row.key = DepositKey(d)
    THEN ledger ELSE ledger \cup {LedgerRow(d)}

TypeOK ==
    /\ block \in [Tx -> 0 .. MaxBlock]
    /\ head \in 0 .. MaxBlock /\ tallest \in 0 .. MaxBlock
    /\ table \in [Deposit -> {"absent", "recorded", "credited"}]
    /\ cursor \in 0 .. MaxBlock /\ safeHead \in 0 .. MaxBlock
    /\ ledger \subseteq {LedgerRow(d) : d \in Deposit}
    /\ announced \subseteq Deposit
    /\ pc \in [Worker -> Point]
    /\ todo \in [Worker -> SUBSET Deposit]
    /\ current \in [Worker -> Deposit \cup {None}]
    /\ reorgs \in 0 .. MaxReorgs /\ faults \in 0 .. MaxFaults

Init ==
    /\ block = [t \in Tx |-> 0] /\ head = 0 /\ tallest = 0
    /\ table = [d \in Deposit |-> "absent"]
    /\ cursor = 0 /\ safeHead = 0
    /\ ledger = {} /\ announced = {}
    /\ pc = [w \in Worker |-> "idle"]
    /\ todo = [w \in Worker |-> {}]
    /\ current = [w \in Worker |-> None]
    /\ reorgs = 0 /\ faults = 0

---------------------------------------------------------------------------
\* The chain.
Mine ==
    /\ head < MaxBlock
    /\ head' = head + 1
    /\ tallest' = IF head' > tallest THEN head' ELSE tallest
    /\ \E included \in SUBSET {t \in Tx : block[t] = 0} :
         block' = [t \in Tx |-> IF t \in included THEN head' ELSE block[t]]
    /\ UNCHANGED <<table, cursor, ledger, announced, pc, todo, current, safeHead,
                   reorgs, faults>>

Reorg ==
    /\ reorgs < MaxReorgs
    /\ reorgs' = reorgs + 1
    /\ \E h \in 0 .. head - 1 :
         /\ h >= tallest - ReorgDepth
         /\ head' = h
         /\ block' = [t \in Tx |-> IF block[t] > h THEN 0 ELSE block[t]]
    /\ UNCHANGED <<tallest, table, cursor, ledger, announced, pc, todo, current,
                   safeHead, faults>>

---------------------------------------------------------------------------
Goto(w, point) ==
    /\ pc' = [pc EXCEPT ![w] = point]
    /\ UNCHANGED <<todo, current, safeHead>>

\* The pass is done with its deposit.
Leave(w) ==
    /\ pc' = [pc EXCEPT ![w] = "next"]
    /\ current' = [current EXCEPT ![w] = None]
    /\ UNCHANGED <<todo, safeHead>>

\* The passes end, and their local variables with them.
EndPasses(W) ==
    /\ pc' = [w \in Worker |-> IF w \in W THEN "idle" ELSE pc[w]]
    /\ todo' = [w \in Worker |-> IF w \in W THEN {} ELSE todo[w]]
    /\ current' = [w \in Worker |-> IF w \in W THEN None ELSE current[w]]
    /\ safeHead' = IF "poll" \in W THEN 0 ELSE safeHead

\* Mutant: the head itself is taken for confirmed.
PollHeadUnconfirmed ==
    /\ pc["poll"] = "idle"
    /\ head >= cursor + 1
    /\ safeHead' = head
    /\ pc' = [pc EXCEPT !["poll"] = "scan"]
    /\ UNCHANGED <<chain, table, cursor, ledger, announced, todo, current, faults>>

\* Mutant: no early return when nothing new is confirmed.
PollHeadAlways ==
    /\ pc["poll"] = "idle"
    /\ safeHead' = head - Confirmations
    /\ pc' = [pc EXCEPT !["poll"] = "scan"]
    /\ UNCHANGED <<chain, table, cursor, ledger, announced, todo, current, faults>>

\* poll: read the head; without a new confirmed block the pass ends here.
PollHead ==
    /\ pc["poll"] = "idle"
    /\ head - Confirmations >= cursor + 1
    /\ safeHead' = head - Confirmations
    /\ pc' = [pc EXCEPT !["poll"] = "scan"]
    /\ UNCHANGED <<chain, table, cursor, ledger, announced, todo, current, faults>>

\* poll: fetch the logs of the new confirmed blocks, from the chain as it is by now.
PollLogs ==
    /\ pc["poll"] = "scan"
    /\ pc' = [pc EXCEPT !["poll"] = "next"]
    /\ todo' = [todo EXCEPT !["poll"] =
                  {d \in Deposit : BlockOf(d) \in cursor + 1 .. safeHead}]
    /\ UNCHANGED <<chain, table, cursor, ledger, announced, current, safeHead, faults>>

\* reconcile: list what is recorded and not credited.
ListUncredited ==
    /\ pc["reconcile"] = "idle"
    /\ \E d \in Deposit : table[d] = "recorded"
    /\ pc' = [pc EXCEPT !["reconcile"] = "next"]
    /\ todo' = [todo EXCEPT !["reconcile"] = {d \in Deposit : table[d] = "recorded"}]
    /\ UNCHANGED <<chain, table, cursor, ledger, announced, current, safeHead, faults>>

NextDeposit(w) ==
    /\ pc[w] = "next"
    /\ \E d \in todo[w] :
         /\ current' = [current EXCEPT ![w] = d]
         /\ todo' = [todo EXCEPT ![w] = @ \ {d}]
    /\ pc' = [pc EXCEPT ![w] = IF w = "poll" THEN "record" ELSE "credit"]
    /\ UNCHANGED <<chain, table, cursor, ledger, announced, safeHead, faults>>

\* handleDeposit: a log recorded before is left to reconcile.
RecordIfNew ==
    /\ pc["poll"] = "record"
    /\ LET d == current["poll"]
       IN  IF table[d] = "absent"
           THEN table' = [table EXCEPT ![d] = "recorded"] /\ Goto("poll", "credit")
           ELSE Leave("poll") /\ UNCHANGED table
    /\ UNCHANGED <<chain, cursor, ledger, announced, faults>>

\* creditDeposit: the wallet answers that the key is applied, now or before.
Credit(w) ==
    /\ pc[w] = "credit"
    /\ ledger' = LedgerAfter(current[w])
    /\ Goto(w, "mark")
    /\ UNCHANGED <<chain, table, cursor, announced, faults>>

\* creditDeposit in both passes at once, for one deposit: both find the key
\* unused, and the wallet's unique index turns the other one's insert away.
CreditCollides(w) ==
    /\ pc[w] = "credit"
    /\ ~IsPaid(current[w])
    /\ ledger' = LedgerAfter(current[w])
    /\ \E v \in Worker \ {w} :
         /\ pc[v] = "credit" /\ current[v] = current[w]
         /\ pc' = [pc EXCEPT ![w] = "mark", ![v] = "next"]
         /\ current' = [current EXCEPT ![v] = None]
    /\ UNCHANGED <<chain, table, cursor, announced, todo, safeHead, faults>>

\* Mutant: the wallet's error is not looked at.
CreditFailsMarked(w) ==
    /\ pc[w] = "credit"
    /\ faults < MaxFaults
    /\ faults' = faults + 1
    /\ Goto(w, "mark")
    /\ UNCHANGED <<chain, table, cursor, ledger, announced>>

\* creditDeposit: the wallet is away, or its answer is lost.
CreditFails(w) ==
    /\ pc[w] = "credit"
    /\ faults < MaxFaults
    /\ faults' = faults + 1
    /\ ledger' \in {ledger, LedgerAfter(current[w])}
    /\ Leave(w)
    /\ UNCHANGED <<chain, table, cursor, announced>>

MarkCredited(w) ==
    /\ pc[w] = "mark"
    /\ table' = [table EXCEPT ![current[w]] = "credited"]
    /\ Goto(w, "announce")
    /\ UNCHANGED <<chain, cursor, ledger, announced, faults>>

Announce(w) ==
    /\ pc[w] = "announce"
    /\ announced' = announced \cup {current[w]}
    /\ Leave(w)
    /\ UNCHANGED <<chain, table, cursor, ledger, faults>>

\* A pass that got through all its deposits ends; poll's moves the cursor.
FinishPass(w) ==
    /\ pc[w] = "next"
    /\ todo[w] = {}
    /\ cursor' = IF w = "poll" THEN safeHead ELSE cursor
    /\ EndPasses({w})
    /\ UNCHANGED <<chain, table, ledger, announced, faults>>

\* Mutant: the cursor is moved whether or not the pass got through.
PassFailsAdvances(w) ==
    /\ faults < MaxFaults
    /\ faults' = faults + 1
    /\ pc[w] \in {"scan", "record", "mark"}
    /\ cursor' = IF w = "poll" THEN safeHead ELSE cursor
    /\ EndPasses({w})
    /\ UNCHANGED <<chain, table, ledger, announced>>

\* A database or chain call throws, with or without its effect: the pass is
\* over, the cursor stays, the next tick starts another pass.
PassFails(w) ==
    /\ faults < MaxFaults
    /\ faults' = faults + 1
    /\ \/ pc[w] \in {"scan", "record", "mark"} /\ UNCHANGED <<table, cursor>>
       \/ /\ pc[w] = "record" /\ table[current[w]] = "absent"
          /\ table' = [table EXCEPT ![current[w]] = "recorded"]
          /\ UNCHANGED cursor
       \/ /\ pc[w] = "mark"
          /\ table' = [table EXCEPT ![current[w]] = "credited"]
          /\ UNCHANGED cursor
       \/ /\ w = "poll" /\ pc[w] = "next" /\ todo[w] = {}
          /\ cursor' \in {cursor, safeHead}
          /\ UNCHANGED table
    /\ EndPasses({w})
    /\ UNCHANGED <<chain, ledger, announced>>

\* The backend restarts: both passes are gone, what is stored stays.
Restart ==
    /\ faults < MaxFaults
    /\ faults' = faults + 1
    /\ \E w \in Worker : pc[w] # "idle"
    /\ EndPasses(Worker)
    /\ UNCHANGED <<chain, table, cursor, ledger, announced>>

Poll == \/ PollHead \/ PollLogs \/ RecordIfNew
        \/ NextDeposit("poll") \/ Credit("poll") \/ CreditCollides("poll")
        \/ MarkCredited("poll") \/ Announce("poll") \/ FinishPass("poll")

Reconcile == \/ ListUncredited
             \/ NextDeposit("reconcile") \/ Credit("reconcile")
             \/ CreditCollides("reconcile") \/ MarkCredited("reconcile")
             \/ Announce("reconcile") \/ FinishPass("reconcile")

Next == \/ Mine \/ Reorg \/ Poll \/ Reconcile \/ Restart
        \/ \E w \in Worker : CreditFails(w) \/ PassFails(w)

Spec == Init /\ [][Next]_vars

\* Blocks keep coming and both timers keep firing; failures stop in the end.
FairSpec == Spec /\ WF_vars(Mine) /\ WF_vars(Poll) /\ WF_vars(Reconcile)

---------------------------------------------------------------------------
IsFinal(d) == BlockOf(d) \in 1 .. tallest - Confirmations

\* Every row the wallet holds for a deposit is for one whose block the chain
\* keeps, whatever was reorganised between reading the head and crediting.
CreditedIsFinal == \A d \in Deposit : IsPaid(d) => IsFinal(d)

\* The cursor never passes a deposit that is not in the table, however passes
\* fail half way, restart and scan their range again.
NothingSkipped ==
    \A d \in Deposit : BlockOf(d) \in 1 .. cursor => table[d] # "absent"

\* A deposit is marked credited, or announced, only when the wallet holds a
\* row of its own for it: another log of the same transaction does not do.
MarkedIsPaid ==
    \A d \in Deposit : table[d] = "credited" \/ d \in announced => IsPaid(d)

\* What the wallet holds and what the table and the events say of it agree, and
\* with the chain that is kept: the two properties above, over well-typed state.
CreditsAreTrue == TypeOK /\ CreditedIsFinal /\ MarkedIsPaid

\* Every deposit the chain has confirmed is credited in the end, and marked.
ConfirmedIsCredited ==
    \A d \in Deposit : IsFinal(d) ~> (IsPaid(d) /\ table[d] = "credited")
=============================================================================
