---------------------------- MODULE OnchainProofs ----------------------------
(***************************************************************************)
(* What holds of the two halves of the backend's onchain module, each on   *)
(* its own: the deposit listener, for every set of transactions and logs,  *)
(* every amount, and every number of confirmations that the chain's        *)
(* reorganisations do not reach; and the withdraw saga, for every number   *)
(* of concurrent calls, every amount and every order of failures.          *)
(***************************************************************************)
EXTENDS Deposits, Withdrawals, TLAPS

---------------------------------------------------------------------------
(* The deposit listener.                                                   *)

\* The chain stays within reach of its tallest head, and a block above the head
\* holds nothing.
ChainInv ==
    /\ head <= tallest /\ tallest - ReorgDepth <= head
    /\ \A t \in Tx : block[t] <= head

\* What poll has read of the head, and the cursor, are confirmed heights.
HeightsInv ==
    /\ cursor = 0 \/ cursor <= tallest - Confirmations
    /\ safeHead = 0 \/ safeHead <= tallest - Confirmations
    /\ pc["poll"] # "idle" => safeHead # 0
    /\ pc["poll"] = "idle" => safeHead = 0

AtDeposit == {"record", "credit", "mark", "announce"}

\* Where a pass is says what it holds.
PassInv ==
    /\ pc["reconcile"] \notin {"scan", "record"}
    /\ \A d \in todo["reconcile"] : table[d] # "absent"
    /\ \A w \in Worker :
        /\ pc[w] \in AtDeposit => current[w] # None
        /\ pc[w] \in {"credit", "mark", "announce"} => table[current[w]] # "absent"
        /\ pc[w] \in {"mark", "announce"} => IsPaid(current[w])

\* What is recorded, or in the hands of a pass, is in a block the chain keeps.
FinalInv ==
    /\ \A d \in Deposit : table[d] # "absent" => IsFinal(d)
    /\ \A w \in Worker : /\ \A d \in todo[w] : IsFinal(d)
                         /\ current[w] # None => IsFinal(current[w])

\* Poll, half way through a range, has recorded the range or has it before it.
ScanInv ==
    pc["poll"] \notin {"idle", "scan"} =>
        \A d \in Deposit : BlockOf(d) \in 1 .. safeHead =>
            \/ table[d] # "absent"
            \/ d \in todo["poll"]
            \/ pc["poll"] = "record" /\ d = current["poll"]

IInv ==
    /\ TypeOK
    /\ ChainInv
    /\ HeightsInv
    /\ PassInv
    /\ FinalInv
    /\ ScanInv
    /\ CreditedIsFinal
    /\ MarkedIsPaid
    /\ NothingSkipped

---------------------------------------------------------------------------
(* The ledger's rows.                                                      *)

\* Every log has a key of its own.
LEMMA KeysDiffer ==
    ASSUME NEW d \in Deposit, NEW e \in Deposit, DepositKey(d) = DepositKey(e)
    PROVE  d = e
<1>1. d \in Tx \X Nat /\ e \in Tx \X Nat
  BY DepositsAreLogs
<1>2. d[1] = e[1] /\ d[2] = e[2]
  BY DEF DepositKey
<1>3. QED
  BY <1>1, <1>2

\* The wallet's answer to a credit: the deposit is paid, and no other one is
\* that was not paid before.
LEMMA LedgerAfterPays ==
    ASSUME TypeOK, NEW d \in Deposit
    PROVE  /\ LedgerRow(d) \in LedgerAfter(d)
           /\ ledger \subseteq LedgerAfter(d)
           /\ LedgerAfter(d) \subseteq {LedgerRow(e) : e \in Deposit}
           /\ \A e \in Deposit : LedgerRow(e) \in LedgerAfter(d) => IsPaid(e) \/ e = d
<1>1. ASSUME NEW r \in ledger, r.key = DepositKey(d)
      PROVE  LedgerRow(d) \in ledger
  <2>1. PICK e \in Deposit : r = LedgerRow(e)
    BY DEF TypeOK
  <2>2. e = d
    BY <1>1, <2>1, KeysDiffer DEF LedgerRow
  <2>3. QED
    BY <2>1, <2>2
<1>2. LedgerRow(d) \in LedgerAfter(d)
  BY <1>1 DEF LedgerAfter
<1>3. ASSUME NEW e \in Deposit, LedgerRow(e) \in LedgerAfter(d)
      PROVE  IsPaid(e) \/ e = d
  <2>1. LedgerRow(e) \in ledger \/ LedgerRow(e) = LedgerRow(d)
    BY <1>3 DEF LedgerAfter
  <2>2. LedgerRow(e) = LedgerRow(d) => e = d
    BY KeysDiffer DEF LedgerRow
  <2>3. QED
    BY <2>1, <2>2 DEF IsPaid
<1>4. QED
  BY <1>2, <1>3 DEF LedgerAfter, TypeOK

---------------------------------------------------------------------------
(* The chain.                                                              *)

\* Heights, bounds and counters are natural numbers.
LEMMA Naturals ==
    ASSUME TypeOK
    PROVE  /\ Confirmations \in Nat /\ ReorgDepth \in Nat /\ MaxBlock \in Nat
           /\ MaxReorgs \in Nat /\ MaxFaults \in Nat
           /\ head \in Nat /\ tallest \in Nat /\ cursor \in Nat /\ safeHead \in Nat
           /\ \A t \in Tx : block[t] \in Nat
           /\ \A d \in Deposit : d[1] \in Tx /\ BlockOf(d) \in Nat
<1>1. /\ Confirmations \in Nat /\ ReorgDepth \in Nat /\ MaxBlock \in Nat
      /\ MaxReorgs \in Nat /\ MaxFaults \in Nat
  BY BoundsAreNatural
<1>2. /\ head \in Nat /\ tallest \in Nat /\ cursor \in Nat /\ safeHead \in Nat
      /\ \A t \in Tx : block[t] \in Nat
  BY <1>1 DEF TypeOK
<1>3. \A d \in Deposit : d[1] \in Tx
  BY DepositsAreLogs
<1>4. QED
  BY <1>1, <1>2, <1>3 DEF BlockOf

\* A step of the chain moves no transaction in or out of the blocks below a
\* confirmed height, and the confirmed heights stay confirmed.
LEMMA ChainKeepsFinal ==
    ASSUME TypeOK, ChainInv, Mine \/ Reorg
    PROVE  /\ TypeOK' /\ ChainInv' /\ tallest <= tallest'
           /\ \A d \in Deposit : IsFinal(d) => IsFinal(d)'
           /\ \A n \in Nat : n = 0 \/ n <= tallest - Confirmations =>
                \A d \in Deposit : BlockOf(d)' \in 1 .. n => BlockOf(d) \in 1 .. n
<1> USE Naturals
<1>1. CASE Mine
  <2>1. /\ head' = head + 1 /\ head < MaxBlock
        /\ tallest' = IF head + 1 > tallest THEN head + 1 ELSE tallest
        /\ UNCHANGED <<table, cursor, ledger, announced, pc, todo, current, safeHead,
                       reorgs, faults>>
    BY <1>1 DEF Mine
  <2>2. \A t \in Tx : \/ block'[t] = block[t]
                      \/ block[t] = 0 /\ block'[t] = head + 1
    BY <1>1, <2>1 DEF Mine
  <2>3. block' \in [Tx -> 0 .. MaxBlock]
    <3>1. DOMAIN block' = Tx /\ block' = [t \in Tx |-> block'[t]]
      BY <1>1 DEF Mine
    <3>2. \A t \in Tx : block'[t] \in 0 .. MaxBlock
      BY <2>1, <2>2 DEF TypeOK
    <3>3. QED
      BY <3>1, <3>2
  <2>4. head' \in 0 .. MaxBlock /\ tallest' \in 0 .. MaxBlock /\ tallest <= tallest'
    BY <2>1 DEF TypeOK
  <2>5. TypeOK'
    BY <2>1, <2>3, <2>4 DEF TypeOK
  <2>6. \A t \in Tx : block'[t] <= head + 1
    BY <2>2 DEF ChainInv
  <2>7. ChainInv'
    BY <2>1, <2>6 DEF ChainInv
  <2>8. ASSUME NEW d \in Deposit
        PROVE  /\ IsFinal(d) => IsFinal(d)'
               /\ \A n \in Nat : n = 0 \/ n <= tallest - Confirmations =>
                    (BlockOf(d)' \in 1 .. n => BlockOf(d) \in 1 .. n)
    <3>1. \/ BlockOf(d)' = BlockOf(d)
          \/ BlockOf(d) = 0 /\ BlockOf(d)' = head + 1
      BY <2>2 DEF BlockOf
    <3>2. tallest - Confirmations < head + 1
      BY ReorgsAreShallow DEF ChainInv
    <3>3. tallest' \in Nat
      BY <2>1
    <3>4. QED
      BY <2>4, <3>1, <3>2, <3>3 DEF IsFinal
  <2>9. QED
    BY <2>4, <2>5, <2>7, <2>8
<1>2. CASE Reorg
  <2>1. PICK h \in 0 .. head - 1 :
              /\ h >= tallest - ReorgDepth
              /\ head' = h
              /\ block' = [t \in Tx |-> IF block[t] > h THEN 0 ELSE block[t]]
    BY <1>2 DEF Reorg
  <2>2. /\ reorgs < MaxReorgs /\ reorgs' = reorgs + 1
        /\ UNCHANGED <<tallest, table, cursor, ledger, announced, pc, todo, current,
                       safeHead, faults>>
    BY <1>2 DEF Reorg
  <2>3. reorgs' \in 0 .. MaxReorgs /\ head' \in 0 .. MaxBlock
    BY <2>1, <2>2 DEF TypeOK
  <2>4. block' \in [Tx -> 0 .. MaxBlock]
    BY <2>1 DEF TypeOK
  <2>5. TypeOK'
    BY <2>2, <2>3, <2>4 DEF TypeOK
  <2>6. \A t \in Tx : block'[t] <= h
    BY <2>1
  <2>7. ChainInv'
    BY <2>1, <2>2, <2>6 DEF ChainInv
  <2>8. ASSUME NEW d \in Deposit
        PROVE  /\ IsFinal(d) => IsFinal(d)'
               /\ \A n \in Nat : BlockOf(d)' \in 1 .. n => BlockOf(d) \in 1 .. n
    <3>1. BlockOf(d)' = IF BlockOf(d) > h THEN 0 ELSE BlockOf(d)
      BY <2>1 DEF BlockOf
    <3>2. tallest - Confirmations <= h
      BY <2>1, ReorgsAreShallow
    <3>3. QED
      BY <2>2, <3>1, <3>2 DEF IsFinal
  <2>9. QED
    BY <2>2, <2>5, <2>7, <2>8
<1>3. QED
  BY <1>1, <1>2

\* What the chain does on its own: no block that is final is reorganised away.
LEMMA ChainKeepsAll ==
    ASSUME IInv, Mine \/ Reorg
    PROVE  IInv'
<1> USE Naturals DEF IInv
<1>1. /\ TypeOK' /\ ChainInv' /\ tallest <= tallest' /\ tallest' \in Nat
      /\ \A d \in Deposit : IsFinal(d) => IsFinal(d)'
      /\ \A n \in Nat : n = 0 \/ n <= tallest - Confirmations =>
           \A d \in Deposit : BlockOf(d)' \in 1 .. n => BlockOf(d) \in 1 .. n
  <2>1. TypeOK' => tallest' \in Nat
    BY DEF TypeOK
  <2>2. QED
    BY <2>1, ChainKeepsFinal
<1>2. UNCHANGED <<table, cursor, ledger, announced, pc, todo, current, safeHead>>
  BY DEF Mine, Reorg
<1>3. HeightsInv'
  BY <1>1, <1>2 DEF HeightsInv
<1>4. PassInv' /\ MarkedIsPaid'
  BY <1>2 DEF PassInv, MarkedIsPaid, IsPaid
<1>5. FinalInv' /\ CreditedIsFinal'
  <2>1. todo \in [Worker -> SUBSET Deposit] /\ current \in [Worker -> Deposit \cup {None}]
    BY DEF TypeOK
  <2>2. CreditedIsFinal'
    BY <1>1, <1>2 DEF CreditedIsFinal, IsPaid
  <2>3. \A d \in Deposit : table'[d] # "absent" => IsFinal(d)'
    BY <1>1, <1>2 DEF FinalInv
  <2>4. ASSUME NEW w \in Worker
        PROVE  /\ \A d \in todo'[w] : IsFinal(d)'
               /\ \A c \in Deposit : c = current'[w] => IsFinal(c)'
    BY <1>1, <1>2, <2>1, NoneIsNoDeposit DEF FinalInv
  <2>5. \A w \in Worker : current'[w] # None => current'[w] \in Deposit
    BY <1>2, <2>1
  <2>6. FinalInv'
    BY <2>3, <2>4, <2>5 DEF FinalInv
  <2>7. QED
    BY <2>2, <2>6
<1>6. ScanInv'
  <2>1. \A d \in Deposit : BlockOf(d)' \in 1 .. safeHead => BlockOf(d) \in 1 .. safeHead
    BY <1>1 DEF HeightsInv
  <2>2. QED
    BY <1>2, <2>1 DEF ScanInv
<1>7. NothingSkipped'
  <2>1. \A d \in Deposit : BlockOf(d)' \in 1 .. cursor => BlockOf(d) \in 1 .. cursor
    BY <1>1 DEF HeightsInv
  <2>2. QED
    BY <1>2, <2>1 DEF NothingSkipped
<1>8. QED
  BY <1>1, <1>3, <1>4, <1>5, <1>6, <1>7

---------------------------------------------------------------------------
(* The passes.                                                             *)

\* The first state satisfies the invariant.
LEMMA InitHolds == Init => IInv
<1> SUFFICES ASSUME Init
             PROVE  IInv
  OBVIOUS
<1>1. TypeOK
  BY BoundsAreNatural DEF Init, TypeOK, Worker, Point
<1>2. \A d \in Deposit : BlockOf(d) = 0 /\ ~IsPaid(d)
  BY DepositsAreLogs DEF Init, BlockOf, IsPaid
<1>3. ChainInv /\ HeightsInv /\ PassInv /\ ScanInv
  BY Naturals, <1>1 DEF Init, ChainInv, HeightsInv, PassInv, ScanInv, Worker, AtDeposit
<1>4. FinalInv /\ CreditedIsFinal /\ MarkedIsPaid /\ NothingSkipped
  BY <1>2 DEF Init, FinalInv, CreditedIsFinal, MarkedIsPaid, NothingSkipped, Worker
<1>5. QED
  BY <1>1, <1>3, <1>4 DEF IInv

\* What a step that leaves the chain and the ledger alone leaves true of them.
LEMMA ChainStays ==
    ASSUME TypeOK, UNCHANGED chain
    PROVE  /\ ChainInv => ChainInv'
           /\ \A d \in Deposit : /\ BlockOf(d)' = BlockOf(d)
                                 /\ IsFinal(d)' <=> IsFinal(d)
BY DEF chain, ChainInv, BlockOf, IsFinal

\* What is paid stays so while the ledger is left alone.
LEMMA LedgerStays ==
    ASSUME UNCHANGED ledger
    PROVE  \A d \in Deposit : IsPaid(d)' <=> IsPaid(d)
BY DEF IsPaid

\* Poll reads the head, and then the logs of the new confirmed blocks.
LEMMA ScanKeepsAll ==
    ASSUME IInv, PollHead \/ PollLogs \/ ListUncredited
    PROVE  IInv'
<1> USE Naturals DEF IInv
<1>1. UNCHANGED <<chain, table, cursor, ledger, announced, current, faults>>
  BY DEF PollHead, PollLogs, ListUncredited
<1>2. /\ ChainInv'
      /\ \A d \in Deposit : /\ BlockOf(d)' = BlockOf(d)
                            /\ IsFinal(d)' <=> IsFinal(d)
                            /\ IsPaid(d)' <=> IsPaid(d)
  BY <1>1, ChainStays, LedgerStays
<1>3. CreditedIsFinal' /\ MarkedIsPaid' /\ NothingSkipped'
  BY <1>1, <1>2 DEF CreditedIsFinal, MarkedIsPaid, NothingSkipped
<1>4. \A w \in Worker : current[w] # None => current[w] \in Deposit
  BY DEF TypeOK
<1>5. ASSUME \A w \in Worker : pc'[w] \in AtDeposit => pc'[w] = pc[w],
             pc'["reconcile"] \notin {"scan", "record"},
             \A d \in todo'["reconcile"] : table[d] # "absent"
      PROVE  PassInv'
  BY <1>1, <1>2, <1>4, <1>5 DEF PassInv, AtDeposit
<1>6. ASSUME \A w \in Worker : \A d \in todo'[w] : d \in Deposit /\ IsFinal(d)
      PROVE  FinalInv'
  BY <1>1, <1>2, <1>4, <1>6 DEF FinalInv
<1>7. CASE PollHead
  <2>1. /\ pc["poll"] = "idle" /\ head - Confirmations >= cursor + 1
        /\ safeHead' = head - Confirmations /\ todo' = todo
        /\ pc' = [pc EXCEPT !["poll"] = "scan"]
    BY <1>7 DEF PollHead
  <2>2. safeHead' \in 1 .. MaxBlock
    BY <2>1 DEF TypeOK
  <2>3. TypeOK'
    <3>1. safeHead' \in 0 .. MaxBlock
      BY <2>2
    <3>2. pc' \in [Worker -> Point]
      BY <2>1 DEF TypeOK, Point
    <3>3. QED
      BY <1>1, <2>1, <3>1, <3>2 DEF TypeOK, chain
  <2>4. HeightsInv'
    BY <1>1, <2>1, <2>2 DEF HeightsInv, ChainInv, chain, TypeOK, Worker
  <2>5. PassInv'
    BY <1>5, <2>1 DEF PassInv, TypeOK, AtDeposit, Worker
  <2>6. FinalInv'
    BY <1>6, <2>1 DEF FinalInv, TypeOK
  <2>7. ScanInv'
    BY <2>1 DEF ScanInv, TypeOK, Worker
  <2>8. QED
    BY <1>2, <1>3, <2>3, <2>4, <2>5, <2>6, <2>7
<1>8. CASE PollLogs
  <2>1. /\ pc["poll"] = "scan" /\ pc' = [pc EXCEPT !["poll"] = "next"]
        /\ todo' = [todo EXCEPT !["poll"] =
                      {d \in Deposit : BlockOf(d) \in cursor + 1 .. safeHead}]
        /\ safeHead' = safeHead
    BY <1>8 DEF PollLogs
  <2>2. "poll" \in Worker /\ "reconcile" \in Worker /\ "poll" # "reconcile"
    BY DEF Worker
  <2>3. TypeOK'
    BY <1>1, <2>1 DEF TypeOK, chain, Point
  <2>4. HeightsInv'
    BY <1>1, <2>1, <2>2 DEF HeightsInv, chain, TypeOK
  <2>5. PassInv'
    BY <1>5, <2>1, <2>2 DEF PassInv, TypeOK, AtDeposit
  <2>6. \A d \in Deposit : BlockOf(d) \in cursor + 1 .. safeHead => IsFinal(d)
    BY DEF HeightsInv, IsFinal
  <2>7. FinalInv'
    BY <1>6, <2>1, <2>6 DEF FinalInv, TypeOK
  <2>8. ASSUME NEW d \in Deposit, BlockOf(d) \in 1 .. safeHead
        PROVE  table[d] # "absent" \/ d \in todo'["poll"]
    <3>1. CASE BlockOf(d) <= cursor
      BY <2>8, <3>1 DEF NothingSkipped
    <3>2. CASE BlockOf(d) > cursor
      BY <2>1, <2>2, <2>8, <3>2 DEF TypeOK
    <3>3. QED
      BY <3>1, <3>2
  <2>9. ScanInv'
    BY <1>1, <1>2, <2>1, <2>8 DEF ScanInv
  <2>10. QED
    BY <1>2, <1>3, <2>3, <2>4, <2>5, <2>7, <2>9
<1>9. CASE ListUncredited
  <2>1. /\ pc["reconcile"] = "idle" /\ pc' = [pc EXCEPT !["reconcile"] = "next"]
        /\ todo' = [todo EXCEPT !["reconcile"] = {d \in Deposit : table[d] = "recorded"}]
        /\ safeHead' = safeHead
    BY <1>9 DEF ListUncredited
  <2>2. "poll" \in Worker /\ "reconcile" \in Worker /\ "poll" # "reconcile"
    BY DEF Worker
  <2>3. TypeOK'
    BY <1>1, <2>1 DEF TypeOK, chain, Point
  <2>4. pc'["poll"] = pc["poll"] /\ todo'["poll"] = todo["poll"]
    BY <2>1, <2>2 DEF TypeOK
  <2>5. HeightsInv' /\ ScanInv'
    BY <1>1, <1>2, <2>1, <2>4 DEF HeightsInv, ScanInv, chain
  <2>6. PassInv'
    BY <1>5, <2>1, <2>2 DEF PassInv, TypeOK, AtDeposit
  <2>7. FinalInv'
    BY <1>6, <2>1 DEF FinalInv, TypeOK
  <2>8. QED
    BY <1>2, <1>3, <2>3, <2>5, <2>6, <2>7
<1>10. QED
  BY <1>7, <1>8, <1>9

---------------------------------------------------------------------------
(* What a pass does with the deposits it found: every such step writes down *)
(* only what is so, and leaves the pass where what it holds is true.        *)

TableGrows ==
    /\ table' \in [Deposit -> {"absent", "recorded", "credited"}]
    /\ \A d \in Deposit :
        /\ table[d] # "absent" => table'[d] # "absent"
        /\ table'[d] # "absent" => IsFinal(d)
        /\ table'[d] = "credited" => LedgerRow(d) \in ledger'

LedgerGrows ==
    /\ ledger \subseteq ledger' /\ ledger' \subseteq {LedgerRow(d) : d \in Deposit}
    /\ \A d \in Deposit : LedgerRow(d) \in ledger' => IsFinal(d)
    /\ announced' \subseteq Deposit
    /\ \A d \in announced' : LedgerRow(d) \in ledger'

Stays(w) == pc'[w] = pc[w] /\ current'[w] = current[w] /\ todo'[w] = todo[w]

Moves(w) ==
    /\ pc'[w] \in {"idle", "next"} \cup AtDeposit
    /\ pc'[w] = "record" => w = "poll"
    /\ todo'[w] \subseteq todo[w]
    /\ current'[w] \in {None, current[w]} \cup todo[w]
    /\ pc'[w] \in AtDeposit => current'[w] # None
    /\ pc'[w] \in {"credit", "mark", "announce"} => table'[current'[w]] # "absent"
    /\ pc'[w] \in {"mark", "announce"} => LedgerRow(current'[w]) \in ledger'
    /\ w = "poll" /\ pc'[w] # "idle" =>
          /\ pc[w] # "idle"
          /\ \A d \in Deposit : BlockOf(d) \in 1 .. safeHead /\ table'[d] = "absent" =>
                d \in todo'[w] \/ (pc'[w] = "record" /\ d = current'[w])

PassStep ==
    /\ UNCHANGED chain
    /\ TableGrows
    /\ LedgerGrows
    /\ pc' \in [Worker -> Point]
    /\ todo' \in [Worker -> SUBSET Deposit]
    /\ current' \in [Worker -> Deposit \cup {None}]
    /\ \A w \in Worker : Stays(w) \/ Moves(w)
    /\ safeHead' = IF pc'["poll"] = "idle" THEN 0 ELSE safeHead
    /\ cursor' \in {cursor, safeHead}
    /\ cursor' # cursor =>
          \A d \in Deposit : BlockOf(d) \in 1 .. safeHead => table[d] # "absent"
    /\ faults' \in 0 .. MaxFaults

\* Whatever a pass writes, if it is a step as PassStep has it.
LEMMA PassStepKeepsAll ==
    ASSUME IInv, PassStep
    PROVE  IInv'
<1> USE Naturals DEF IInv
<1> DEFINE Paid(d) == LedgerRow(d) \in ledger'
<1>1. /\ ChainInv'
      /\ \A d \in Deposit : /\ BlockOf(d)' = BlockOf(d)
                            /\ IsFinal(d)' <=> IsFinal(d)
                            /\ IsPaid(d)' <=> Paid(d)
                            /\ IsPaid(d) => Paid(d)
  <2>1. \A d \in Deposit : (IsPaid(d)' <=> Paid(d)) /\ (IsPaid(d) => Paid(d))
    BY DEF IsPaid, PassStep, LedgerGrows
  <2>2. QED
    BY <2>1, ChainStays DEF PassStep
<1>2. "poll" \in Worker /\ "reconcile" \in Worker /\ "poll" # "reconcile"
  BY DEF Worker
<1>3. \A w \in Worker : (current[w] # None => current[w] \in Deposit) /\ todo[w] \subseteq Deposit
  BY DEF TypeOK
<1>4. \A w \in Worker : (current'[w] # None => current'[w] \in Deposit) /\ todo'[w] \subseteq Deposit
  BY DEF PassStep
<1>5. TypeOK'
  <2>1. safeHead' \in 0 .. MaxBlock /\ cursor' \in 0 .. MaxBlock
    BY DEF TypeOK, PassStep
  <2>2. QED
    BY <2>1 DEF TypeOK, PassStep, TableGrows, LedgerGrows, chain
<1>6. HeightsInv'
  <2>1. pc'["poll"] # "idle" => pc["poll"] # "idle"
    BY <1>2 DEF PassStep, Stays, Moves
  <2>2. tallest' = tallest
    BY DEF PassStep, chain
  <2>3. QED
    BY <2>1, <2>2 DEF HeightsInv, PassStep
<1>7. ASSUME NEW w \in Worker
      PROVE  /\ pc'[w] \in AtDeposit => current'[w] # None
             /\ pc'[w] \in {"credit", "mark", "announce"} => table'[current'[w]] # "absent"
             /\ pc'[w] \in {"mark", "announce"} => LedgerRow(current'[w]) \in ledger'
  <2>1. CASE Stays(w)
    <3>1. pc[w] \in AtDeposit => current[w] \in Deposit
      BY <1>3 DEF PassInv
    <3>2. pc[w] \in {"credit", "mark", "announce"} => table'[current[w]] # "absent"
      BY <3>1 DEF PassInv, PassStep, TableGrows, AtDeposit
    <3>3. pc[w] \in {"mark", "announce"} => LedgerRow(current[w]) \in ledger'
      BY <3>1 DEF PassInv, PassStep, LedgerGrows, AtDeposit, IsPaid
    <3>4. pc[w] \in AtDeposit => current[w] # None
      BY DEF PassInv
    <3>5. QED
      BY <2>1, <3>2, <3>3, <3>4 DEF Stays
  <2>2. CASE Moves(w)
    BY <2>2 DEF Moves
  <2>3. QED
    BY <2>1, <2>2 DEF PassStep
<1>8. pc'["reconcile"] \notin {"scan", "record"}
  BY <1>2 DEF PassInv, PassStep, Stays, Moves, AtDeposit
<1>9. PassInv'
  <2>1. todo'["reconcile"] \subseteq todo["reconcile"]
    BY <1>2 DEF PassStep, Stays, Moves
  <2>2. \A d \in todo'["reconcile"] : table'[d] # "absent"
    BY <1>2, <1>3, <2>1 DEF PassInv, PassStep, TableGrows
  <2>3. QED
    BY <1>7, <1>8, <2>2 DEF PassInv, IsPaid
<1>10. ASSUME NEW w \in Worker
       PROVE  /\ \A d \in todo'[w] : IsFinal(d)'
              /\ \A c \in Deposit : c = current'[w] => IsFinal(c)'
  <2>1. \A d \in todo[w] : IsFinal(d)
    BY DEF FinalInv
  <2>2. \A c \in Deposit : c = current[w] => IsFinal(c)
    BY NoneIsNoDeposit DEF FinalInv
  <2>3. todo'[w] \subseteq todo[w] /\ current'[w] \in {None, current[w]} \cup todo[w]
    BY DEF PassStep, Stays, Moves
  <2>4. \A d \in todo'[w] : IsFinal(d)'
    BY <1>1, <1>3, <2>1, <2>3
  <2>5. \A c \in Deposit : c = current'[w] => IsFinal(c)'
    BY <1>1, <2>1, <2>2, <2>3, NoneIsNoDeposit
  <2>6. QED
    BY <2>4, <2>5
<1>11. FinalInv'
  <2>1. \A d \in Deposit : table'[d] # "absent" => IsFinal(d)'
    BY <1>1 DEF PassStep, TableGrows
  <2>2. QED
    BY <1>4, <1>10, <2>1 DEF FinalInv
<1>12. ScanInv'
  <2>1. SUFFICES ASSUME pc'["poll"] \notin {"idle", "scan"},
                        NEW d \in Deposit, BlockOf(d)' \in 1 .. safeHead'
                 PROVE  \/ table'[d] # "absent" \/ d \in todo'["poll"]
                        \/ pc'["poll"] = "record" /\ d = current'["poll"]
    BY DEF ScanInv
  <2>2. BlockOf(d) \in 1 .. safeHead
    BY <1>1, <2>1 DEF PassStep
  <2>3. CASE Stays("poll")
    BY <2>1, <2>2, <2>3 DEF ScanInv, Stays, PassStep, TableGrows
  <2>4. CASE Moves("poll")
    BY <2>1, <2>2, <2>4 DEF Moves, PassStep, TableGrows
  <2>5. QED
    BY <1>2, <2>3, <2>4 DEF PassStep
<1>13. CreditedIsFinal' /\ MarkedIsPaid'
  BY <1>1 DEF CreditedIsFinal, MarkedIsPaid, PassStep, LedgerGrows, TableGrows
<1>14. NothingSkipped'
  BY <1>1 DEF NothingSkipped, PassStep, TableGrows
<1>15. QED
  BY <1>1, <1>5, <1>6, <1>9, <1>11, <1>12, <1>13, <1>14

\* A pass that is at a deposit has one, and it is final.
LEMMA InHand ==
    ASSUME IInv, NEW w \in Worker
    PROVE  /\ pc[w] \in AtDeposit => current[w] \in Deposit /\ IsFinal(current[w])
           /\ todo[w] \subseteq Deposit
BY DEF IInv, TypeOK, PassInv, FinalInv

\* The statements that write nothing,
LEMMA NothingWritten ==
    ASSUME IInv, UNCHANGED <<table, ledger, announced>>
    PROVE  TableGrows /\ LedgerGrows
<1>1. TableGrows
  BY DEF IInv, TypeOK, FinalInv, MarkedIsPaid, IsPaid, TableGrows
<1>2. LedgerGrows
  BY DEF IInv, TypeOK, CreditedIsFinal, MarkedIsPaid, IsPaid, LedgerGrows
<1>3. QED
  BY <1>1, <1>2

\* the wallet's credit,
LEMMA CreditWritten ==
    ASSUME IInv, NEW d \in Deposit, IsFinal(d), ledger' = LedgerAfter(d),
           UNCHANGED <<table, announced>>
    PROVE  TableGrows /\ LedgerGrows /\ LedgerRow(d) \in ledger'
<1>1. /\ LedgerRow(d) \in ledger' /\ ledger \subseteq ledger'
      /\ ledger' \subseteq {LedgerRow(e) : e \in Deposit}
      /\ \A e \in Deposit : LedgerRow(e) \in ledger' => IsPaid(e) \/ e = d
  BY LedgerAfterPays DEF IInv
<1>2. TableGrows
  BY <1>1 DEF IInv, TypeOK, FinalInv, MarkedIsPaid, IsPaid, TableGrows
<1>3. \A e \in Deposit : LedgerRow(e) \in ledger' => IsFinal(e)
  BY <1>1 DEF IInv, CreditedIsFinal
<1>4. announced' \subseteq Deposit /\ \A e \in announced' : LedgerRow(e) \in ledger'
  BY <1>1 DEF IInv, TypeOK, MarkedIsPaid, IsPaid
<1>5. QED
  BY <1>1, <1>2, <1>3, <1>4 DEF LedgerGrows

\* and the row that records it or marks it credited.
LEMMA TableWritten ==
    ASSUME IInv, NEW d \in Deposit, IsFinal(d), NEW what \in {"recorded", "credited"},
           table' = [table EXCEPT ![d] = what], what = "credited" => IsPaid(d),
           UNCHANGED <<ledger, announced>>
    PROVE  TableGrows /\ LedgerGrows /\ table'[d] # "absent"
<1>1. \A e \in Deposit : table'[e] = IF e = d THEN what ELSE table[e]
  BY DEF IInv, TypeOK
<1>2. table' \in [Deposit -> {"absent", "recorded", "credited"}]
  BY DEF IInv, TypeOK
<1>3. TableGrows
  BY <1>1, <1>2 DEF IInv, FinalInv, MarkedIsPaid, IsPaid, TableGrows
<1>4. LedgerGrows
  BY DEF IInv, TypeOK, CreditedIsFinal, MarkedIsPaid, IsPaid, LedgerGrows
<1>5. QED
  BY <1>1, <1>3, <1>4

\* A pass that ends drops what its worker remembers.
LEMMA EndIsPassStep ==
    ASSUME IInv, NEW W \in SUBSET Worker, EndPasses(W), UNCHANGED chain,
           TableGrows, LedgerGrows, faults' \in 0 .. MaxFaults, cursor' \in {cursor, safeHead},
           cursor' # cursor =>
             \A d \in Deposit : BlockOf(d) \in 1 .. safeHead => table[d] # "absent"
    PROVE  PassStep
<1>1. /\ pc' = [w \in Worker |-> IF w \in W THEN "idle" ELSE pc[w]]
      /\ todo' = [w \in Worker |-> IF w \in W THEN {} ELSE todo[w]]
      /\ current' = [w \in Worker |-> IF w \in W THEN None ELSE current[w]]
      /\ safeHead' = IF "poll" \in W THEN 0 ELSE safeHead
  BY DEF EndPasses
<1>2. /\ pc' \in [Worker -> Point] /\ todo' \in [Worker -> SUBSET Deposit]
      /\ current' \in [Worker -> Deposit \cup {None}]
  BY <1>1 DEF IInv, TypeOK, Point
<1>3. \A w \in Worker : Stays(w) \/ Moves(w)
  BY <1>1 DEF Stays, Moves, AtDeposit
<1>4. "poll" \in Worker
  BY DEF Worker
<1>5. safeHead' = IF pc'["poll"] = "idle" THEN 0 ELSE safeHead
  BY <1>1, <1>4 DEF IInv, HeightsInv
<1>6. QED
  BY <1>2, <1>3, <1>5 DEF PassStep

\* What pass w had before it is before it still, in its hand, or recorded.
HandedOn(w, p, c) ==
    \A d \in Deposit : d \in todo[w] \/ (pc[w] = "record" /\ d = current[w]) =>
        d \in todo'[w] \/ (p = "record" /\ d = c) \/ table'[d] # "absent"

\* The steps of one pass that do not end it.
LEMMA HandIsPassStep ==
    ASSUME IInv, NEW w \in Worker, NEW p \in {"next"} \cup AtDeposit,
           NEW c \in {None, current[w]} \cup todo[w],
           pc' = [pc EXCEPT ![w] = p], current' = [current EXCEPT ![w] = c],
           todo' \in [Worker -> SUBSET Deposit], todo'[w] \subseteq todo[w],
           \A v \in Worker \ {w} : todo'[v] = todo[v],
           UNCHANGED <<chain, cursor, safeHead>>, TableGrows, LedgerGrows,
           faults' \in 0 .. MaxFaults, pc[w] \notin {"idle", "scan"},
           p = "record" => w = "poll", p \in AtDeposit => c # None,
           p \in {"credit", "mark", "announce"} => table'[c] # "absent",
           p \in {"mark", "announce"} => LedgerRow(c) \in ledger',
           HandedOn(w, p, c)
    PROVE  PassStep
<1>1. /\ pc'[w] = p /\ current'[w] = c
      /\ \A v \in Worker \ {w} : pc'[v] = pc[v] /\ current'[v] = current[v]
  BY DEF IInv, TypeOK
<1>2. c \in Deposit \cup {None}
  BY DEF IInv, TypeOK
<1>3. pc' \in [Worker -> Point] /\ current' \in [Worker -> Deposit \cup {None}]
  BY <1>2 DEF IInv, TypeOK, Point, AtDeposit
<1>4. ASSUME w = "poll", NEW d \in Deposit, BlockOf(d) \in 1 .. safeHead, table'[d] = "absent"
      PROVE  d \in todo'[w] \/ (p = "record" /\ d = c)
  <2>1. table[d] = "absent"
    BY <1>4 DEF TableGrows, IInv, TypeOK
  <2>2. d \in todo["poll"] \/ (pc["poll"] = "record" /\ d = current["poll"])
    BY <1>4, <2>1 DEF IInv, ScanInv
  <2>3. QED
    BY <1>4, <2>2 DEF HandedOn
<1>5. Moves(w)
  BY <1>1, <1>4 DEF Moves
<1>6. \A v \in Worker \ {w} : Stays(v)
  BY <1>1 DEF Stays
<1>7. safeHead' = IF pc'["poll"] = "idle" THEN 0 ELSE safeHead
  <2>1. "poll" \in Worker
    BY DEF Worker
  <2>2. pc'["poll"] = "idle" => pc["poll"] = "idle"
    BY <1>1, <2>1 DEF AtDeposit
  <2>3. QED
    BY <2>2 DEF IInv, HeightsInv
<1>8. QED
  BY <1>3, <1>5, <1>6, <1>7 DEF PassStep

\* Every step of a pass, and its end, is such a step.
LEMMA WorkIsPassStep ==
    ASSUME IInv, NEW w \in Worker,
           \/ NextDeposit(w) \/ (w = "poll" /\ RecordIfNew) \/ Credit(w)
           \/ CreditCollides(w) \/ CreditFails(w) \/ MarkCredited(w) \/ Announce(w)
    PROVE  PassStep
<1> USE InHand, Naturals DEF Goto, Leave, AtDeposit
<1>1. /\ faults \in 0 .. MaxFaults /\ TypeOK /\ todo \in [Worker -> SUBSET Deposit]
      /\ (faults < MaxFaults => faults + 1 \in 0 .. MaxFaults)
      /\ \A v \in Worker : /\ current = [current EXCEPT ![v] = current[v]]
                           /\ current[v] \in {None, current[v]} \cup todo[v]
                           /\ None \in {None, current[v]} \cup todo[v]
  <2>1. TypeOK
    BY DEF IInv
  <2>2. faults \in 0 .. MaxFaults /\ (faults < MaxFaults => faults + 1 \in 0 .. MaxFaults)
    BY <2>1 DEF TypeOK
  <2>3. QED
    BY <2>1, <2>2 DEF TypeOK
<1>2. CASE NextDeposit(w)
  <2>1. PICK d \in todo[w] : /\ current' = [current EXCEPT ![w] = d]
                             /\ todo' = [todo EXCEPT ![w] = @ \ {d}]
    BY <1>2 DEF NextDeposit
  <2> DEFINE p == IF w = "poll" THEN "record" ELSE "credit"
  <2>2. /\ pc[w] = "next" /\ pc' = [pc EXCEPT ![w] = p]
        /\ UNCHANGED <<chain, table, cursor, ledger, announced, safeHead, faults>>
    BY <1>2 DEF NextDeposit
  <2>3. TableGrows /\ LedgerGrows
    BY <2>2, NothingWritten
  <2>4. /\ todo' \in [Worker -> SUBSET Deposit] /\ todo'[w] = todo[w] \ {d}
        /\ \A v \in Worker \ {w} : todo'[v] = todo[v]
    BY <1>1, <2>1
  <2>5. d # None
    BY NoneIsNoDeposit
  <2>6. \A e \in Deposit : e \in todo[w] => e \in todo'[w] \/ e = d
    BY <2>4
  <2> HIDE DEF p
  <2>7. CASE w = "poll"
    <3>1. pc' = [pc EXCEPT ![w] = "record"]
      BY <2>2, <2>7 DEF p
    <3>2. HandedOn(w, "record", d)
      BY <2>2, <2>6 DEF HandedOn
    <3>3. QED
      BY <1>1, <2>1, <2>2, <2>3, <2>4, <2>5, <2>7, <3>1, <3>2, HandIsPassStep
  <2>8. CASE w # "poll"
    \* What reconcile lists was recorded, and stays so: its pass goes to credit it.
    <3>1. pc' = [pc EXCEPT ![w] = "credit"]
      BY <2>2, <2>8 DEF p
    <3>2. table'[d] # "absent"
      BY <2>2, <2>8 DEF IInv, PassInv, Worker
    <3>3. HandedOn(w, "credit", d)
      BY <2>2, <2>6, <3>2 DEF HandedOn
    <3>4. QED
      BY <1>1, <2>1, <2>2, <2>3, <2>4, <2>5, <2>8, <3>1, <3>2, <3>3, HandIsPassStep
  <2>9. QED
    BY <2>7, <2>8
<1>3. CASE w = "poll" /\ RecordIfNew
  <2> DEFINE d == current["poll"]
  <2>1. /\ pc[w] = "record" /\ d \in Deposit /\ IsFinal(d) /\ d # None
        /\ UNCHANGED <<chain, cursor, ledger, announced, faults, todo, safeHead>>
    BY <1>3, NoneIsNoDeposit DEF RecordIfNew
  <2>2. CASE table[d] = "absent"
    <3>1. /\ table' = [table EXCEPT ![d] = "recorded"] /\ UNCHANGED current
          /\ pc' = [pc EXCEPT ![w] = "credit"]
      BY <1>3, <2>2 DEF RecordIfNew
    <3>2. TableGrows /\ LedgerGrows /\ table'[d] # "absent"
      BY <2>1, <3>1, TableWritten
    <3>3. current' = [current EXCEPT ![w] = d]
      BY <1>1, <1>3, <3>1
    <3>4. HandedOn(w, "credit", d)
      BY <1>3, <2>1, <3>2 DEF HandedOn
    <3>5. QED
      BY <1>1, <1>3, <2>1, <3>1, <3>2, <3>3, <3>4, HandIsPassStep
  <2>3. CASE table[d] # "absent"
    <3>1. /\ UNCHANGED table /\ pc' = [pc EXCEPT ![w] = "next"]
          /\ current' = [current EXCEPT ![w] = None]
      BY <1>3, <2>3 DEF RecordIfNew
    <3>2. TableGrows /\ LedgerGrows
      BY <2>1, <3>1, NothingWritten
    <3>3. HandedOn(w, "next", None)
      BY <1>3, <2>1, <2>3, <3>1 DEF HandedOn
    <3>4. QED
      BY <1>1, <1>3, <2>1, <3>1, <3>2, <3>3, HandIsPassStep
  <2>4. QED
    BY <2>2, <2>3
<1>4. CASE Credit(w)
  <2>1. /\ pc[w] = "credit" /\ pc' = [pc EXCEPT ![w] = "mark"]
        /\ ledger' = LedgerAfter(current[w])
        /\ UNCHANGED <<chain, table, cursor, announced, faults, todo, safeHead, current>>
    BY <1>4 DEF Credit
  <2>2. /\ current[w] \in Deposit /\ current[w] # None /\ IsFinal(current[w])
        /\ table'[current[w]] # "absent"
    BY <2>1, NoneIsNoDeposit DEF IInv, PassInv
  <2>3. TableGrows /\ LedgerGrows /\ LedgerRow(current[w]) \in ledger'
    BY <2>1, <2>2, CreditWritten
  <2>4. current' = [current EXCEPT ![w] = current[w]]
    BY <1>1, <2>1
  <2>5. HandedOn(w, "mark", current[w])
    BY <2>1 DEF HandedOn
  <2>6. QED
    BY <1>1, <2>1, <2>2, <2>3, <2>4, <2>5, HandIsPassStep
<1>5. CASE CreditFails(w)
  <2>1. /\ pc[w] = "credit" /\ pc' = [pc EXCEPT ![w] = "next"]
        /\ current' = [current EXCEPT ![w] = None]
        /\ ledger' = ledger \/ ledger' = LedgerAfter(current[w])
        /\ UNCHANGED <<chain, table, cursor, announced, todo, safeHead>>
        /\ faults < MaxFaults /\ faults' = faults + 1
    BY <1>5 DEF CreditFails
  <2>2. TableGrows /\ LedgerGrows
    BY <2>1, CreditWritten, NothingWritten
  <2>3. HandedOn(w, "next", None)
    BY <2>1 DEF HandedOn
  <2>4. QED
    BY <1>1, <2>1, <2>2, <2>3, HandIsPassStep
<1>6. CASE MarkCredited(w)
  <2>1. /\ pc[w] = "mark" /\ pc' = [pc EXCEPT ![w] = "announce"]
        /\ table' = [table EXCEPT ![current[w]] = "credited"]
        /\ UNCHANGED <<chain, cursor, ledger, announced, faults, todo, safeHead, current>>
    BY <1>6 DEF MarkCredited
  <2>2. /\ current[w] \in Deposit /\ current[w] # None /\ IsFinal(current[w])
        /\ IsPaid(current[w])
    BY <2>1, NoneIsNoDeposit DEF IInv, PassInv
  <2>3. TableGrows /\ LedgerGrows /\ table'[current[w]] # "absent"
    BY <2>1, <2>2, TableWritten
  <2>4. current' = [current EXCEPT ![w] = current[w]] /\ LedgerRow(current[w]) \in ledger'
    BY <1>1, <2>1, <2>2 DEF IsPaid
  <2>5. HandedOn(w, "announce", current[w])
    BY <2>1 DEF HandedOn
  <2>6. QED
    BY <1>1, <2>1, <2>2, <2>3, <2>4, <2>5, HandIsPassStep
<1>7. CASE Announce(w)
  <2>1. /\ pc[w] = "announce" /\ pc' = [pc EXCEPT ![w] = "next"]
        /\ announced' = announced \cup {current[w]}
        /\ current' = [current EXCEPT ![w] = None]
        /\ UNCHANGED <<chain, table, cursor, ledger, faults, todo, safeHead>>
    BY <1>7 DEF Announce
  <2>2. current[w] \in Deposit /\ IsPaid(current[w])
    BY <2>1 DEF IInv, PassInv
  <2>3. TableGrows
    BY <2>1 DEF IInv, TypeOK, FinalInv, MarkedIsPaid, IsPaid, TableGrows
  <2>4. LedgerGrows
    BY <2>1, <2>2 DEF IInv, TypeOK, CreditedIsFinal, MarkedIsPaid, IsPaid, LedgerGrows
  <2>5. HandedOn(w, "next", None)
    BY <2>1 DEF HandedOn
  <2>6. QED
    BY <1>1, <2>1, <2>3, <2>4, <2>5, HandIsPassStep
<1>8. CASE CreditCollides(w)
  <2>1. PICK v \in Worker \ {w} :
              /\ pc[v] = "credit" /\ current[v] = current[w]
              /\ pc' = [pc EXCEPT ![w] = "mark", ![v] = "next"]
              /\ current' = [current EXCEPT ![v] = None]
    BY <1>8 DEF CreditCollides
  <2>2. /\ pc[w] = "credit" /\ ledger' = LedgerAfter(current[w])
        /\ UNCHANGED <<chain, table, cursor, announced, todo, safeHead, faults>>
    BY <1>8 DEF CreditCollides
  <2>3. /\ current[w] \in Deposit /\ current[w] # None /\ IsFinal(current[w])
        /\ table'[current[w]] # "absent"
    BY <2>2, NoneIsNoDeposit DEF IInv, PassInv
  <2>4. TableGrows /\ LedgerGrows /\ LedgerRow(current[w]) \in ledger'
    BY <2>2, <2>3, CreditWritten
  <2>5. /\ pc'[w] = "mark" /\ pc'[v] = "next"
        /\ current'[w] = current[w] /\ current'[v] = None
        /\ \A u \in Worker \ {w, v} : pc'[u] = pc[u] /\ current'[u] = current[u]
    BY <1>1, <2>1 DEF TypeOK
  <2>6. pc' \in [Worker -> Point] /\ current' \in [Worker -> Deposit \cup {None}]
    BY <1>1, <2>1 DEF TypeOK, Point
  <2>7. ASSUME NEW u \in {w, v}, u = "poll", NEW d \in Deposit, BlockOf(d) \in 1 .. safeHead,
               table'[d] = "absent"
        PROVE  d \in todo'[u]
    BY <2>1, <2>2, <2>7 DEF IInv, ScanInv
  <2>8. Moves(w) /\ Moves(v)
    BY <2>1, <2>2, <2>3, <2>4, <2>5, <2>7 DEF Moves
  <2>9. \A u \in Worker \ {w, v} : Stays(u)
    BY <2>2, <2>5 DEF Stays
  <2>10. safeHead' = IF pc'["poll"] = "idle" THEN 0 ELSE safeHead
    <3>1. "poll" \in Worker
      BY DEF Worker
    <3>2. pc'["poll"] = "idle" => pc["poll"] = "idle"
      BY <2>5, <3>1
    <3>3. QED
      BY <2>2, <3>2 DEF IInv, HeightsInv
  <2>11. QED
    BY <1>1, <2>2, <2>4, <2>6, <2>8, <2>9, <2>10 DEF PassStep
<1>9. QED
  BY <1>2, <1>3, <1>4, <1>5, <1>6, <1>7, <1>8

\* So do the steps that end one or all.
LEMMA EndingIsPassStep ==
    ASSUME IInv, Restart \/ \E w \in Worker : FinishPass(w) \/ PassFails(w)
    PROVE  PassStep
<1>1. /\ TypeOK /\ faults \in 0 .. MaxFaults
      /\ (faults < MaxFaults => faults + 1 \in 0 .. MaxFaults)
  <2>1. TypeOK
    BY DEF IInv
  <2>2. faults \in 0 .. MaxFaults /\ MaxFaults \in Nat
    BY <2>1, Naturals DEF TypeOK
  <2>3. QED
    BY <2>1, <2>2
\* Poll leaves a range behind it only when the table has all of it.
<1>2. ASSUME pc["poll"] = "next", todo["poll"] = {}
      PROVE  \A d \in Deposit : BlockOf(d) \in 1 .. safeHead => table[d] # "absent"
  BY <1>2 DEF IInv, ScanInv
<1>3. CASE Restart
  <2>1. /\ EndPasses(Worker) /\ faults' \in 0 .. MaxFaults
        /\ UNCHANGED <<chain, table, cursor, ledger, announced>>
    BY <1>1, <1>3 DEF Restart
  <2>2. QED
    BY <2>1, NothingWritten, EndIsPassStep
<1>4. ASSUME NEW w \in Worker, FinishPass(w)
      PROVE  PassStep
  <2>1. /\ pc[w] = "next" /\ todo[w] = {} /\ EndPasses({w})
        /\ cursor' = IF w = "poll" THEN safeHead ELSE cursor
        /\ UNCHANGED <<chain, table, ledger, announced, faults>>
    BY <1>4 DEF FinishPass
  <2>2. TableGrows /\ LedgerGrows
    BY <2>1, NothingWritten
  <2>3. cursor' # cursor =>
          \A d \in Deposit : BlockOf(d) \in 1 .. safeHead => table[d] # "absent"
    BY <1>2, <2>1
  <2>4. QED
    BY <1>1, <2>1, <2>2, <2>3, EndIsPassStep
<1>5. ASSUME NEW w \in Worker, PassFails(w)
      PROVE  PassStep
  <2>1. /\ EndPasses({w}) /\ faults' \in 0 .. MaxFaults
        /\ UNCHANGED <<chain, ledger, announced>>
    BY <1>1, <1>5 DEF PassFails
  <2>2. CASE pc[w] \in {"scan", "record", "mark"} /\ UNCHANGED <<table, cursor>>
    <3>1. TableGrows /\ LedgerGrows
      BY <2>1, <2>2, NothingWritten
    <3>2. QED
      BY <2>1, <2>2, <3>1, EndIsPassStep
  <2>3. CASE /\ pc[w] = "record" /\ table[current[w]] = "absent"
             /\ table' = [table EXCEPT ![current[w]] = "recorded"]
             /\ UNCHANGED cursor
    <3>1. current[w] \in Deposit /\ IsFinal(current[w])
      BY <2>3, InHand DEF AtDeposit
    <3>2. TableGrows /\ LedgerGrows
      BY <2>1, <2>3, <3>1, TableWritten
    <3>3. QED
      BY <2>1, <2>3, <3>2, EndIsPassStep
  <2>4. CASE /\ pc[w] = "mark"
             /\ table' = [table EXCEPT ![current[w]] = "credited"]
             /\ UNCHANGED cursor
    <3>1. current[w] \in Deposit /\ IsFinal(current[w]) /\ IsPaid(current[w])
      BY <2>4, InHand DEF AtDeposit, IInv, PassInv
    <3>2. TableGrows /\ LedgerGrows
      BY <2>1, <2>4, <3>1, TableWritten
    <3>3. QED
      BY <2>1, <2>4, <3>2, EndIsPassStep
  <2>5. CASE /\ w = "poll" /\ pc[w] = "next" /\ todo[w] = {}
             /\ cursor' \in {cursor, safeHead}
             /\ UNCHANGED table
    <3>1. TableGrows /\ LedgerGrows
      BY <2>1, <2>5, NothingWritten
    <3>2. QED
      BY <1>2, <2>1, <2>5, <3>1, EndIsPassStep
  <2>6. QED
    BY <1>5, <2>2, <2>3, <2>4, <2>5 DEF PassFails
<1>6. QED
  BY <1>3, <1>4, <1>5

---------------------------------------------------------------------------
\* The invariant holds from the start and every step of the chain, of either
\* pass, and of what goes wrong keeps it.
THEOREM Invariance == Spec => []IInv
<1>1. IInv /\ [Next]_vars => IInv'
  <2> SUFFICES ASSUME IInv, [Next]_vars
               PROVE  IInv'
    OBVIOUS
  <2>1. CASE Mine \/ Reorg
    BY <2>1, ChainKeepsAll
  <2>2. CASE PollHead \/ PollLogs \/ ListUncredited
    BY <2>2, ScanKeepsAll
  <2>3. CASE RecordIfNew \/ \E w \in Worker :
               \/ NextDeposit(w) \/ Credit(w) \/ CreditCollides(w) \/ CreditFails(w)
               \/ MarkCredited(w) \/ Announce(w)
    <3>1. "poll" \in Worker
      BY DEF Worker
    <3>2. PassStep
      BY <2>3, <3>1, WorkIsPassStep
    <3>3. QED
      BY <3>2, PassStepKeepsAll
  <2>4. CASE Restart \/ \E w \in Worker : FinishPass(w) \/ PassFails(w)
    BY <2>4, EndingIsPassStep, PassStepKeepsAll
  <2>5. CASE UNCHANGED vars
    <3>1. UNCHANGED <<chain, table, cursor, ledger, announced, pc, todo, current,
                      safeHead, faults>>
      BY <2>5 DEF vars
    <3>2. TableGrows /\ LedgerGrows
      BY <3>1, NothingWritten
    <3>3. /\ pc' \in [Worker -> Point] /\ todo' \in [Worker -> SUBSET Deposit]
          /\ current' \in [Worker -> Deposit \cup {None}] /\ faults' \in 0 .. MaxFaults
      BY <3>1 DEF IInv, TypeOK
    <3>4. safeHead' = IF pc'["poll"] = "idle" THEN 0 ELSE safeHead
      BY <3>1 DEF IInv, HeightsInv
    <3>5. PassStep
      BY <3>1, <3>2, <3>3, <3>4 DEF PassStep, Stays
    <3>6. QED
      BY <3>5, PassStepKeepsAll
  <2>6. QED
    <3>1. {"poll", "reconcile"} = Worker
      BY DEF Worker
    <3>2. QED
      BY <2>1, <2>2, <2>3, <2>4, <2>5, <3>1 DEF Next, Poll, Reconcile
<1>2. QED
  BY <1>1, InitHolds, PTL DEF Spec

\* Every credit is for a deposit in a block the chain keeps, and a deposit is
\* marked or announced only when its own row is in the ledger.
THEOREM CreditsTrue == Spec => []CreditsAreTrue
<1>1. IInv => CreditsAreTrue
  BY DEF IInv, CreditsAreTrue
<1>2. QED
  BY <1>1, Invariance, PTL

\* The cursor never passes a deposit that the table does not hold.
THEOREM CursorSkipsNothing == Spec => []NothingSkipped
<1>1. IInv => NothingSkipped
  BY DEF IInv
<1>2. QED
  BY <1>1, Invariance, PTL

---------------------------------------------------------------------------
(* The withdraw saga.                                                      *)

\* The transaction may be on the chain although the call takes the catch.
TxInDoubt(w) == met[w] \cap {"rpcAnswer", "markSent"} # {}

\* Where the money of a call that is still in service is.
Underway(w) ==
    /\ call[w] # "end" => answer[w] = "none" /\ w \notin refunded
    /\ call[w] \notin {"debit", "end"} => w \in debited
    /\ call[w] = "debit" => w \notin debited
    /\ call[w] \in {"debit", "create", "send"} => tx[w] = "none"
    /\ call[w] = "markSent" => tx[w] # "none"
    /\ call[w] \in {"markFailed", "refund"} => tx[w] = "none" \/ TxInDoubt(w)

\* Where it is once the call has ended, with each of its answers.
Settled(w) ==
    call[w] = "end" =>
        /\ answer[w] = "ok" =>
              w \in debited \ refunded /\ row[w] = "sent" /\ tx[w] # "none"
        /\ answer[w] = "refunded" =>
              /\ w \in refunded \/ "refund" \in met[w]
              /\ tx[w] = "none" \/ TxInDoubt(w)
        /\ answer[w] = "error" =>
              /\ w \notin refunded /\ tx[w] = "none"
              /\ w \in debited => "debit" \in met[w]
        /\ answer[w] = "none" => "restart" \in met[w]

SagaInv ==
    /\ SagaTypeOK
    /\ PaidIsDebited
    /\ \A w \in Withdrawal : Underway(w) /\ Settled(w)

---------------------------------------------------------------------------
\* The steps by name: a call's own, and the chain's.
LEMMA SagaStepTypes ==
    ASSUME SagaTypeOK, [SagaNext]_sagaVars
    PROVE  SagaTypeOK'
<1>1. CASE UNCHANGED sagaVars
  BY <1>1 DEF sagaVars, SagaTypeOK
<1>2. CASE BackendStops
  BY <1>2 DEF BackendStops, InService, SagaTypeOK, SagaPoint, FaultKind
<1>3. ASSUME NEW w \in Withdrawal, Debit(w) \/ DebitFails(w)
      PROVE  SagaTypeOK'
  BY <1>3 DEF Debit, DebitFails, Proceed, Answer, Meet, SagaTypeOK, SagaPoint, FaultKind
<1>4. ASSUME NEW w \in Withdrawal, CreateRow(w) \/ CreateFails(w)
      PROVE  SagaTypeOK'
  BY <1>4 DEF CreateRow, CreateFails, Proceed, Meet, SagaTypeOK, SagaPoint, FaultKind
<1>5. ASSUME NEW w \in Withdrawal, Send(w) \/ SendFails(w)
      PROVE  SagaTypeOK'
  BY <1>5 DEF Send, SendFails, Proceed, Meet, SagaTypeOK, SagaPoint, FaultKind
<1>6. ASSUME NEW w \in Withdrawal, MarkSent(w) \/ MarkSentFails(w)
      PROVE  SagaTypeOK'
  BY <1>6 DEF MarkSent, MarkSentFails, Proceed, Answer, Meet, SagaTypeOK, SagaPoint,
              FaultKind
<1>7. ASSUME NEW w \in Withdrawal, MarkFailed(w) \/ Refund(w)
      PROVE  SagaTypeOK'
  BY <1>7 DEF MarkFailed, Refund, Proceed, Answer, Meet, SagaTypeOK, SagaPoint,
              FaultKind
<1>8. ASSUME NEW w \in Withdrawal, Execute(w)
      PROVE  SagaTypeOK'
  BY <1>8 DEF Execute, SagaTypeOK
<1>9. QED
  BY <1>1, <1>2, <1>3, <1>4, <1>5, <1>6, <1>7, <1>8 DEF SagaNext, Step

\* A step of one call leaves what is known of every other call as it was.
Untouched(w) ==
    /\ call'[w] = call[w] /\ row'[w] = row[w] /\ tx'[w] = tx[w]
    /\ answer'[w] = answer[w] /\ met'[w] = met[w]
    /\ w \in debited' <=> w \in debited
    /\ w \in refunded' <=> w \in refunded

\* A step of one call leaves the others where they are.
LEMMA OthersAreUntouched ==
    ASSUME SagaTypeOK, NEW w \in Withdrawal, Step(w) \/ Execute(w),
           NEW v \in Withdrawal \ {w}
    PROVE  Untouched(v)
<1>1. CASE Debit(w) \/ DebitFails(w) \/ CreateRow(w) \/ CreateFails(w)
  BY <1>1 DEF Debit, DebitFails, CreateRow, CreateFails, Proceed, Answer, Meet,
              SagaTypeOK, Untouched
<1>2. CASE Send(w) \/ SendFails(w) \/ MarkSent(w) \/ MarkSentFails(w)
  BY <1>2 DEF Send, SendFails, MarkSent, MarkSentFails, Proceed, Answer, Meet,
              SagaTypeOK, Untouched
<1>3. CASE MarkFailed(w) \/ Refund(w) \/ Execute(w)
  BY <1>3 DEF MarkFailed, Refund, Execute, Proceed, Answer, Meet, SagaTypeOK, Untouched
<1>4. QED
  BY <1>1, <1>2, <1>3 DEF Step

\* A call that is left alone keeps what holds of it.
LEMMA UntouchedKeeps ==
    ASSUME NEW w \in Withdrawal, Untouched(w), Underway(w), Settled(w)
    PROVE  Underway(w)' /\ Settled(w)'
BY DEF Untouched, Underway, Settled, TxInDoubt

---------------------------------------------------------------------------
\* The call that steps keeps its money accounted for.
LEMMA StepperKeeps ==
    ASSUME SagaTypeOK, NEW w \in Withdrawal, Underway(w), Settled(w), Step(w) \/ Execute(w)
    PROVE  Underway(w)' /\ Settled(w)'
<1>1. CASE Debit(w)
  BY <1>1 DEF Debit, Proceed, Answer, SagaTypeOK, Underway, Settled, TxInDoubt
<1>2. CASE DebitFails(w)
  BY <1>2 DEF DebitFails, Answer, Meet, SagaTypeOK, Underway, Settled, TxInDoubt
<1>3. CASE CreateRow(w) \/ CreateFails(w)
  BY <1>3 DEF CreateRow, CreateFails, Proceed, Meet, SagaTypeOK, Underway, Settled,
              TxInDoubt
<1>4. CASE Send(w)
  BY <1>4 DEF Send, Proceed, SagaTypeOK, Underway, Settled, TxInDoubt
<1>5. CASE SendFails(w)
  BY <1>5 DEF SendFails, Proceed, Meet, SagaTypeOK, Underway, Settled, TxInDoubt
<1>6. CASE MarkSent(w)
  BY <1>6 DEF MarkSent, Answer, SagaTypeOK, Underway, Settled, TxInDoubt
<1>7. CASE MarkSentFails(w)
  BY <1>7 DEF MarkSentFails, Proceed, Meet, SagaTypeOK, Underway, Settled, TxInDoubt
<1>8. CASE MarkFailed(w)
  BY <1>8 DEF MarkFailed, Proceed, Meet, SagaTypeOK, Underway, Settled, TxInDoubt
<1>9. CASE Refund(w)
  BY <1>9 DEF Refund, Answer, Meet, SagaTypeOK, Underway, Settled, TxInDoubt
<1>10. CASE Execute(w)
  BY <1>10 DEF Execute, SagaTypeOK, Underway, Settled, TxInDoubt
<1>11. QED
  BY <1>1, <1>2, <1>3, <1>4, <1>5, <1>6, <1>7, <1>8, <1>9, <1>10 DEF Step

\* A restart ends the calls in service where they are.
LEMMA RestartKeeps ==
    ASSUME SagaTypeOK, NEW w \in Withdrawal, Underway(w), Settled(w), BackendStops
    PROVE  Underway(w)' /\ Settled(w)'
<1>1. CASE w \in InService
  <2>1. call'[w] = "end" /\ "restart" \in met'[w] /\ answer'[w] = "none"
    BY <1>1 DEF BackendStops, InService, SagaTypeOK, Underway
  <2>2. QED
    BY <2>1 DEF Underway, Settled
<1>2. CASE w \notin InService
  <2>1. Untouched(w)
    BY <1>2 DEF BackendStops, InService, SagaTypeOK, Untouched
  <2>2. QED
    BY <2>1, UntouchedKeeps
<1>3. QED
  BY <1>1, <1>2

\* The vault is asked to pay, and the ledger refunded, only after the debit.
LEMMA DebitComesFirst ==
    ASSUME SagaInv, [SagaNext]_sagaVars
    PROVE  PaidIsDebited'
<1>1. SagaTypeOK /\ PaidIsDebited /\ \A w \in Withdrawal : Underway(w)
  BY DEF SagaInv
<1>2. CASE UNCHANGED sagaVars \/ BackendStops
  BY <1>1, <1>2 DEF sagaVars, BackendStops, PaidIsDebited
<1>3. ASSUME NEW w \in Withdrawal, Step(w) \/ Execute(w), NEW v \in Withdrawal,
             tx'[v] # "none" \/ v \in refunded'
      PROVE  v \in debited'
  <2>1. CASE v = w
    <3>1. debited \subseteq debited'
      BY <1>3 DEF Step, Execute, Debit, DebitFails, CreateRow, CreateFails, Send,
                  SendFails, MarkSent, MarkSentFails, MarkFailed, Refund
    <3>2. CASE tx[w] # "none" \/ w \in refunded
      BY <1>1, <2>1, <3>1, <3>2 DEF PaidIsDebited
    <3>3. CASE tx[w] = "none" /\ w \notin refunded
      <4>1. Send(w) \/ SendFails(w) \/ Refund(w)
        BY <1>3, <2>1, <3>3 DEF Step, Execute, Debit, DebitFails, CreateRow,
                                CreateFails, MarkSent, MarkSentFails, MarkFailed
      <4>2. call[w] \in {"send", "refund"}
        BY <4>1 DEF Send, SendFails, Refund
      <4>3. QED
        BY <1>1, <2>1, <3>1, <4>2 DEF Underway
    <3>4. QED
      BY <3>2, <3>3
  <2>2. CASE v # w
    <3>1. Untouched(v)
      BY <1>1, <1>3, <2>2, OthersAreUntouched
    <3>2. QED
      BY <1>1, <1>3, <3>1 DEF Untouched, PaidIsDebited
  <2>3. QED
    BY <2>1, <2>2
<1>4. QED
  BY <1>2, <1>3 DEF SagaNext, PaidIsDebited

\* SagaInv is an invariant of the saga.
THEOREM SagaInvariance == SagaSpec => []SagaInv
<1>1. SagaInit => SagaInv
  BY DEF SagaInit, SagaInv, SagaTypeOK, SagaPoint, PaidIsDebited, Underway, Settled
<1>2. SagaInv /\ [SagaNext]_sagaVars => SagaInv'
  <2> SUFFICES ASSUME SagaInv, [SagaNext]_sagaVars
               PROVE  SagaInv'
    OBVIOUS
  <2>1. SagaTypeOK' /\ PaidIsDebited'
    BY SagaStepTypes, DebitComesFirst DEF SagaInv
  <2>2. ASSUME NEW v \in Withdrawal
        PROVE  Underway(v)' /\ Settled(v)'
    <3>1. SagaTypeOK /\ Underway(v) /\ Settled(v)
      BY DEF SagaInv
    <3>2. CASE UNCHANGED sagaVars
      BY <3>1, <3>2, UntouchedKeeps DEF sagaVars, Untouched
    <3>3. CASE BackendStops
      BY <3>1, <3>3, RestartKeeps
    <3>4. ASSUME NEW w \in Withdrawal, Step(w) \/ Execute(w)
          PROVE  Underway(v)' /\ Settled(v)'
      <4>1. CASE v = w
        BY <3>1, <3>4, <4>1, StepperKeeps
      <4>2. CASE v # w
        BY <3>1, <3>4, <4>2, OthersAreUntouched, UntouchedKeeps
      <4>3. QED
        BY <4>1, <4>2
    <3>5. QED
      BY <3>2, <3>3, <3>4 DEF SagaNext
  <2>3. QED
    BY <2>1, <2>2 DEF SagaInv
<1>3. QED
  BY <1>1, <1>2, PTL DEF SagaSpec

\* What a withdraw call answers is true (onchain-withdraw.service.ts): "ok" is
\* debited, not refunded and on the chain; "refunded" is back in the ledger unless
\* the refund failed, whose result the service does not look at.
THEOREM AnswersTrue == SagaSpec => []AnswersAreTrue
<1>1. SagaInv => AnswersAreTrue
  <2> SUFFICES ASSUME SagaInv, NEW w \in Withdrawal
               PROVE  /\ answer[w] = "ok" => /\ w \in debited \ refunded
                                             /\ row[w] = "sent" /\ tx[w] # "none"
                      /\ answer[w] = "refunded" => w \in refunded \/ "refund" \in met[w]
    BY DEF SagaInv, AnswersAreTrue
  <2>1. QED
    BY DEF SagaInv, Underway, Settled
<1>2. QED
  BY <1>1, SagaInvariance, PTL

\* The vault pays no amount that was not debited, and after every failure but the
\* listed ones the ledger is short of an amount exactly if the vault paid it.
THEOREM LedgerAndVaultAgree == SagaSpec => []LedgerMatchesVault
<1>1. SagaInv => LedgerMatchesVault
  <2> SUFFICES ASSUME SagaInv, NEW w \in Withdrawal,
                      call[w] = "end", tx[w] # "pooled", ~Parting(w)
               PROVE  w \in debited \ refunded <=> tx[w] = "paid"
    BY DEF SagaInv, LedgerMatchesVault
  <2>1. /\ tx[w] \in {"none", "paid"}
        /\ met[w] \cap {"debit", "rpcAnswer", "markSent", "refund", "restart"} = {}
    BY DEF Parting, SagaInv, SagaTypeOK
  <2>2. answer[w] \in {"none", "ok", "error", "refunded"} /\ Settled(w)
    BY DEF SagaInv, SagaTypeOK
  <2>3. CASE answer[w] = "ok"
    BY <2>1, <2>2, <2>3 DEF Settled
  <2>4. CASE answer[w] = "refunded"
    BY <2>1, <2>2, <2>4 DEF Settled, TxInDoubt
  <2>5. CASE answer[w] = "error"
    BY <2>1, <2>2, <2>5 DEF Settled
  <2>6. CASE answer[w] = "none"
    BY <2>1, <2>2, <2>6 DEF Settled
  <2>7. QED
    BY <2>2, <2>3, <2>4, <2>5, <2>6
<1>2. QED
  BY <1>1, SagaInvariance, PTL
=============================================================================
