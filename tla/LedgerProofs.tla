---------------------------- MODULE LedgerProofs ----------------------------
(***************************************************************************)
(* What holds of the wallet's request handlers for every set of players,   *)
(* keys, amounts, commands and concurrent requests.                        *)
(***************************************************************************)
EXTENDS Ledger, SequenceTheorems, TLAPS

\* What the local state of a request promises about the journal.
LocalInv ==
    \A r \in Request :
        /\ pc[r] # "idle" => cmd[r] \in Command
        /\ pc[r] \in {"hasOp", "checkFunds", "append"} => cmd[r].op \in {"bet", "win"}
        /\ pc[r] \in {"findByKey", "hasReversal", "reverse"} => cmd[r].op = "rollback"
        /\ pc[r] \in {"hasReversal", "reverse"} =>
              /\ original[r].key = cmd[r].key
              /\ \E i \in DOMAIN journal : journal[i] = original[r]

\* A caller is told 200 only about a row that is there.
Recorded(r) ==
    \E i \in DOMAIN journal :
        journal[i].key = IF cmd[r].op = "rollback"
                         THEN ReversalKey(cmd[r].key) ELSE cmd[r].key

AnswerInv ==
    \A r \in Request :
        pc[r] = "balance" \/ (pc[r] = "done" /\ reply[r] = 200) => Recorded(r)

\* A row under a caller's own key is what some command asked for.
Provenance ==
    \A i \in DOMAIN journal :
        journal[i].key[1] = 0 =>
            \E c \in Command : c.op # "rollback" /\ journal[i] = EntryOf(c)

IInv ==
    /\ TypeOK
    /\ LocalInv
    /\ KeyAppliedOnce
    /\ ReversalsMirror
    /\ AnswerInv
    /\ Provenance

---------------------------------------------------------------------------
\* The mirror image of a row a rollback may target is itself a row.
LEMMA ReversalIsEntry ==
    ASSUME NEW e \in Entry, e.key[1] <= MaxNest
    PROVE  /\ Reversal(e) \in Entry
           /\ Reversal(e).key = ReversalKey(e.key)
           /\ Reversal(e).key[1] > 0
BY MaxNestIsNatural DEF Entry, Reversal, Key, ReversalKey, Direction, Opposite

\* The row a bet or a win asks for is a row under a caller's own key.
LEMMA EntryOfIsEntry ==
    ASSUME NEW c \in Command, c.op \in {"bet", "win"}
    PROVE  EntryOf(c) \in Entry /\ EntryOf(c).key = c.key /\ c.key[1] = 0
<1>1. c \in OpCommand
  BY CommandsAreTyped DEF OpCommand, RollbackCommand
<1>2. QED
  BY <1>1, MaxNestIsNatural DEF OpCommand, EntryOf, Entry, Key, Direction

\* A rollback names a key that a reversal key exists for.
LEMMA RollbackTarget ==
    ASSUME NEW c \in Command, c.op = "rollback"
    PROVE  c.key \in Key /\ c.key[1] <= MaxNest
<1>1. c \in RollbackCommand
  BY CommandsAreTyped DEF OpCommand, RollbackCommand
<1>2. QED
  BY <1>1, MaxNestIsNatural DEF RollbackCommand, Key

---------------------------------------------------------------------------
\* The contract lets the journal grow at its end and nowhere else.
LEMMA JournalGrows ==
    ASSUME journal \in Seq(Entry), [JournalNext]_journal
    PROVE  /\ journal' \in Seq(Entry)
           /\ \A i \in DOMAIN journal :
                 i \in DOMAIN journal' /\ journal'[i] = journal[i]
<1>1. CASE UNCHANGED journal
  BY <1>1
<1>2. ASSUME NEW e \in Entry, Post(e)
      PROVE  /\ journal' \in Seq(Entry)
             /\ \A i \in DOMAIN journal :
                   i \in DOMAIN journal' /\ journal'[i] = journal[i]
  BY <1>2, AppendProperties, LenProperties DEF Post
<1>3. QED
  BY <1>1, <1>2 DEF JournalNext

\* The contract by itself keeps keys unique and reversals mirrored.
LEMMA ContractKeepsJournal ==
    ASSUME journal \in Seq(Entry), KeyAppliedOnce, ReversalsMirror,
           [JournalNext]_journal
    PROVE  KeyAppliedOnce' /\ ReversalsMirror'
<1>1. CASE UNCHANGED journal
  BY <1>1 DEF KeyAppliedOnce, ReversalsMirror
<1>2. ASSUME NEW e \in Entry, Post(e)
      PROVE  KeyAppliedOnce' /\ ReversalsMirror'
  <2>1. /\ DOMAIN journal = 1 .. Len(journal)
        /\ Len(journal) \in Nat
        /\ DOMAIN journal' = 1 .. Len(journal) + 1
        /\ \A i \in 1 .. Len(journal) : journal'[i] = journal[i]
        /\ journal'[Len(journal) + 1] = e
    BY <1>2, AppendProperties, LenProperties DEF Post
  <2>2. KeyAppliedOnce'
    <3>1. \A i \in 1 .. Len(journal) : journal[i].key # e.key
      BY <1>2, <2>1 DEF Post, HasOp
    <3>2. QED
      BY <2>1, <3>1 DEF KeyAppliedOnce
  <2>3. ReversalsMirror'
    <3>1. SUFFICES ASSUME NEW i \in DOMAIN journal', journal'[i].key[1] > 0
                   PROVE  \E j \in 1 .. i - 1 : journal'[i] = Reversal(journal'[j])
      BY DEF ReversalsMirror
    <3>2. CASE i \in 1 .. Len(journal)
      <4>1. PICK j \in 1 .. i - 1 : journal[i] = Reversal(journal[j])
        BY <2>1, <3>1, <3>2 DEF ReversalsMirror
      <4>2. QED
        BY <2>1, <3>2, <4>1
    <3>3. CASE i = Len(journal) + 1
      <4>1. e.key[1] # 0
        BY <2>1, <3>1, <3>3
      <4>2. PICK j \in DOMAIN journal : e = Reversal(journal[j])
        BY <1>2, <4>1 DEF Post
      <4>3. QED
        BY <2>1, <3>3, <4>2
    <3>4. QED
      BY <2>1, <3>2, <3>3
  <2>4. QED
    BY <2>2, <2>3
<1>3. QED
  BY <1>1, <1>2 DEF JournalNext

---------------------------------------------------------------------------
\* What a request is about to append is a row the contract lets it append.
LEMMA PendingIsLegal ==
    ASSUME TypeOK, LocalInv, NEW r \in Request, pc[r] \in {"append", "reverse"}
    PROVE  /\ Pending(r) \in Entry
           /\ \/ Pending(r).key[1] = 0
              \/ \E i \in DOMAIN journal : Pending(r) = Reversal(journal[i])
           /\ Pending(r).key = IF cmd[r].op = "rollback"
                               THEN ReversalKey(cmd[r].key) ELSE cmd[r].key
<1>1. CASE pc[r] = "append"
  <2>1. cmd[r] \in Command /\ cmd[r].op \in {"bet", "win"}
    BY <1>1 DEF LocalInv
  <2>2. Pending(r) = EntryOf(cmd[r])
    BY <1>1 DEF Pending
  <2>3. QED
    BY <2>1, <2>2, EntryOfIsEntry
<1>2. CASE pc[r] = "reverse"
  <2>1. /\ cmd[r] \in Command
        /\ cmd[r].op = "rollback"
        /\ original[r].key = cmd[r].key
    BY <1>2 DEF LocalInv
  <2>2. PICK i \in DOMAIN journal : journal[i] = original[r]
    BY <1>2 DEF LocalInv
  <2>3. original[r] \in Entry
    BY <2>2, ElementOfSeq, LenProperties DEF TypeOK
  <2>4. cmd[r].key[1] <= MaxNest
    BY <2>1, RollbackTarget
  <2>5. /\ Reversal(original[r]) \in Entry
        /\ Reversal(original[r]).key = ReversalKey(cmd[r].key)
    BY <2>1, <2>3, <2>4, ReversalIsEntry
  <2>6. Pending(r) = Reversal(original[r])
    BY <1>2 DEF Pending
  <2>7. QED
    BY <2>1, <2>2, <2>5, <2>6
<1>3. QED
  BY <1>1, <1>2

\* Every step of the handlers is a step of the contract, or leaves the journal.
LEMMA StepIsPost ==
    ASSUME TypeOK, LocalInv, [Next]_vars
    PROVE  [JournalNext]_journal
<1>1. CASE UNCHANGED vars
  BY <1>1 DEF vars
<1>2. ASSUME NEW r \in Request, AppendEntry(r)
      PROVE  [JournalNext]_journal
  BY <1>2, PendingIsLegal DEF AppendEntry, JournalNext, Post
<1>3. ASSUME NEW r \in Request, StoreFails(r)
      PROVE  [JournalNext]_journal
  BY <1>3, PendingIsLegal DEF StoreFails, JournalNext, Post
<1>4. ASSUME NEW r \in Request,
             \/ Receive(r) \/ CheckSeen(r) \/ CheckFunds(r)
             \/ FindByKey(r) \/ CheckReversed(r) \/ ReadBalance(r)
      PROVE  UNCHANGED journal
  BY <1>4 DEF Receive, CheckSeen, CheckFunds, FindByKey, CheckReversed, ReadBalance
<1>5. QED
  BY <1>1, <1>2, <1>3, <1>4 DEF Next

---------------------------------------------------------------------------
\* The type invariant is kept.
LEMMA TypeStep ==
    ASSUME TypeOK, LocalInv, [Next]_vars
    PROVE  TypeOK'
<1>0. journal' \in Seq(Entry)
  BY StepIsPost, JournalGrows DEF TypeOK
<1>1. CASE UNCHANGED vars
  BY <1>1 DEF vars, TypeOK
<1>2. ASSUME NEW r \in Request, Receive(r)
      PROVE  TypeOK'
  BY <1>0, <1>2 DEF Receive, TypeOK, Point
<1>3. ASSUME NEW r \in Request, FindByKey(r)
      PROVE  TypeOK'
  <2>1. \A i \in DOMAIN journal : journal[i] \in Entry
    BY ElementOfSeq, LenProperties DEF TypeOK
  <2>2. original' \in [Request -> Entry \cup {None}]
    BY <1>3, <2>1 DEF FindByKey, TypeOK
  <2>3. QED
    BY <1>0, <1>3, <2>2 DEF FindByKey, Goto, Answer, TypeOK, Point
<1>4. ASSUME NEW r \in Request,
             \/ CheckSeen(r) \/ CheckFunds(r)
             \/ CheckReversed(r) \/ ReadBalance(r)
      PROVE  TypeOK'
  BY <1>0, <1>4 DEF CheckSeen, CheckFunds, CheckReversed, ReadBalance,
                    Goto, Answer, TypeOK, Point
<1>5. ASSUME NEW r \in Request, AppendEntry(r) \/ StoreFails(r)
      PROVE  TypeOK'
  BY <1>0, <1>5 DEF AppendEntry, StoreFails, Goto, Answer, TypeOK, Point
<1>6. QED
  BY <1>1, <1>2, <1>3, <1>4, <1>5 DEF Next

\* The copy a rollback holds stays true because rows are never changed.
LEMMA LocalStep ==
    ASSUME TypeOK, LocalInv, [Next]_vars
    PROVE  LocalInv'
<1>0. \A i \in DOMAIN journal : i \in DOMAIN journal' /\ journal'[i] = journal[i]
  BY StepIsPost, JournalGrows DEF TypeOK
<1>1. CASE UNCHANGED vars
  BY <1>1 DEF vars, LocalInv
<1>2. ASSUME NEW r \in Request, Receive(r)
      PROVE  LocalInv'
  <2>1. PICK c \in Command :
          /\ cmd' = [cmd EXCEPT ![r] = c]
          /\ pc' = [pc EXCEPT ![r] = IF c.op = "rollback" THEN "findByKey" ELSE "hasOp"]
    BY <1>2 DEF Receive
  <2>2. c.op \in {"bet", "win", "rollback"}
    BY CommandsAreTyped DEF OpCommand, RollbackCommand
  <2>3. QED
    BY <1>2, <2>1, <2>2 DEF Receive, LocalInv, TypeOK
<1>3. ASSUME NEW r \in Request, FindByKey(r)
      PROVE  LocalInv'
  BY <1>3 DEF FindByKey, Goto, Answer, LocalInv, TypeOK
<1>4. ASSUME NEW r \in Request,
             CheckSeen(r) \/ CheckFunds(r) \/ CheckReversed(r) \/ ReadBalance(r)
      PROVE  LocalInv'
  BY <1>4 DEF CheckSeen, CheckFunds, CheckReversed, ReadBalance, Goto, Answer,
              LocalInv, TypeOK
<1>5. ASSUME NEW r \in Request, AppendEntry(r) \/ StoreFails(r)
      PROVE  LocalInv'
  <2>1. UNCHANGED <<cmd, original>> /\ pc' = [pc EXCEPT ![r] = pc'[r]]
        /\ pc'[r] \in {"balance", "done"} /\ pc[r] # "idle"
    BY <1>5 DEF AppendEntry, StoreFails, Goto, Answer, TypeOK, InService
  <2>2. QED
    BY <1>0, <2>1 DEF LocalInv, TypeOK
<1>6. QED
  BY <1>1, <1>2, <1>3, <1>4, <1>5 DEF Next

\* A row once written answers every later question about its key.
LEMMA AnswerStep ==
    ASSUME TypeOK, LocalInv, AnswerInv, [Next]_vars
    PROVE  AnswerInv'
<1>0. \A i \in DOMAIN journal : i \in DOMAIN journal' /\ journal'[i] = journal[i]
  BY StepIsPost, JournalGrows DEF TypeOK
<1>a. ASSUME NEW q \in Request, Recorded(q), cmd'[q] = cmd[q]
      PROVE  Recorded(q)'
  BY <1>0, <1>a DEF Recorded
<1>1. CASE UNCHANGED vars
  BY <1>1, <1>a DEF vars, AnswerInv
<1>2. ASSUME NEW r \in Request, Receive(r)
      PROVE  AnswerInv'
  BY <1>2, <1>a DEF Receive, AnswerInv, TypeOK
<1>3. ASSUME NEW r \in Request, CheckSeen(r)
      PROVE  AnswerInv'
  <2>1. pc'[r] = "balance" => Recorded(r)
    BY <1>3 DEF CheckSeen, Goto, HasOp, Recorded, LocalInv, TypeOK
  <2>2. QED
    BY <1>3, <1>a, <2>1 DEF CheckSeen, Goto, AnswerInv, TypeOK
<1>4. ASSUME NEW r \in Request, CheckReversed(r)
      PROVE  AnswerInv'
  <2>1. pc'[r] = "balance" => Recorded(r)
    BY <1>4 DEF CheckReversed, Goto, HasOp, Recorded, LocalInv, TypeOK
  <2>2. QED
    BY <1>4, <1>a, <2>1 DEF CheckReversed, Goto, AnswerInv, TypeOK
<1>5. ASSUME NEW r \in Request, CheckFunds(r) \/ FindByKey(r) \/ ReadBalance(r)
      PROVE  AnswerInv'
  BY <1>5, <1>a DEF CheckFunds, FindByKey, ReadBalance, Goto, Answer, AnswerInv, TypeOK
<1>6. ASSUME NEW r \in Request, AppendEntry(r)
      PROVE  AnswerInv'
  <2>1. CASE HasOp(Pending(r).key)
    BY <1>6, <1>a, <2>1 DEF AppendEntry, Answer, AnswerInv, TypeOK
  <2>2. CASE ~HasOp(Pending(r).key)
    <3>1. /\ journal' = Append(journal, Pending(r))
          /\ UNCHANGED <<cmd, reply>>
          /\ pc' = [pc EXCEPT ![r] = "balance"]
          /\ pc[r] \in {"append", "reverse"}
      BY <1>6, <2>2 DEF AppendEntry, Goto
    <3>2. Recorded(r)'
      <4>1. /\ Len(journal) + 1 \in DOMAIN journal'
            /\ journal'[Len(journal) + 1] = Pending(r)
        BY <3>1, PendingIsLegal, AppendProperties, LenProperties DEF TypeOK
      <4>2. QED
        BY <3>1, <4>1, PendingIsLegal DEF Recorded
    <3>3. QED
      BY <1>a, <3>1, <3>2 DEF AnswerInv, TypeOK
  <2>3. QED
    BY <2>1, <2>2
<1>7. ASSUME NEW r \in Request, StoreFails(r)
      PROVE  AnswerInv'
  BY <1>7, <1>a DEF StoreFails, Answer, AnswerInv, TypeOK
<1>8. QED
  BY <1>1, <1>2, <1>3, <1>4, <1>5, <1>6, <1>7 DEF Next

\* Only a reversal is appended otherwise than as its command asks.
LEMMA ProvenanceStep ==
    ASSUME TypeOK, LocalInv, Provenance, [Next]_vars
    PROVE  Provenance'
<1>1. CASE UNCHANGED journal
  BY <1>1 DEF Provenance
<1>2. ASSUME NEW r \in Request, pc[r] \in {"append", "reverse"},
             journal' = Append(journal, Pending(r))
      PROVE  Provenance'
  <2>1. /\ DOMAIN journal = 1 .. Len(journal)
        /\ Len(journal) \in Nat
        /\ DOMAIN journal' = 1 .. Len(journal) + 1
        /\ \A i \in 1 .. Len(journal) : journal'[i] = journal[i]
        /\ journal'[Len(journal) + 1] = Pending(r)
    BY <1>2, PendingIsLegal, AppendProperties, LenProperties DEF TypeOK
  <2>2. Pending(r).key[1] = 0 =>
            \E c \in Command : c.op # "rollback" /\ Pending(r) = EntryOf(c)
    <3>1. CASE pc[r] = "append"
      BY <3>1 DEF Pending, LocalInv
    <3>2. CASE pc[r] = "reverse"
      <4>1. /\ cmd[r] \in Command
            /\ cmd[r].op = "rollback"
            /\ Pending(r).key = ReversalKey(cmd[r].key)
        BY <3>2, PendingIsLegal DEF LocalInv
      <4>2. cmd[r].key[1] \in Nat
        BY <4>1, RollbackTarget, MaxNestIsNatural DEF Key
      <4>3. QED
        BY <4>1, <4>2 DEF ReversalKey
    <3>3. QED
      BY <1>2, <3>1, <3>2
  <2>3. QED
    BY <2>1, <2>2 DEF Provenance
<1>3. \/ UNCHANGED journal
      \/ \E r \in Request : /\ pc[r] \in {"append", "reverse"}
                             /\ journal' = Append(journal, Pending(r))
  BY DEF Next, vars, Receive, CheckSeen, CheckFunds, AppendEntry, FindByKey,
         CheckReversed, ReadBalance, StoreFails
<1>4. QED
  BY <1>1, <1>2, <1>3

\* If keys are used for one operation each, the row an answer rests on is the
\* row that was asked for.
LEMMA AnswersAreExact ==
    ASSUME IInv
    PROVE  AckedExactly
<1>1. SUFFICES ASSUME KeysNameOneCommand,
                      NEW r \in Request, pc[r] = "done", reply[r] = 200
               PROVE  \E i \in DOMAIN journal :
                          IF cmd[r].op = "rollback"
                          THEN journal[i].key = ReversalKey(cmd[r].key)
                          ELSE journal[i] = EntryOf(cmd[r])
  BY DEF AckedExactly
<1>2. PICK i \in DOMAIN journal :
          journal[i].key = IF cmd[r].op = "rollback"
                           THEN ReversalKey(cmd[r].key) ELSE cmd[r].key
  BY <1>1 DEF IInv, AnswerInv, Recorded
<1>3. CASE cmd[r].op = "rollback"
  BY <1>2, <1>3
<1>4. CASE cmd[r].op # "rollback"
  <2>1. cmd[r] \in Command
    BY <1>1 DEF IInv, LocalInv
  <2>2. cmd[r].op \in {"bet", "win"}
    BY <1>4, <2>1, CommandsAreTyped DEF OpCommand, RollbackCommand
  <2>3. journal[i].key = cmd[r].key /\ journal[i].key[1] = 0
    BY <1>2, <1>4, <2>1, <2>2, EntryOfIsEntry
  <2>4. PICK c \in Command : c.op # "rollback" /\ journal[i] = EntryOf(c)
    BY <2>3 DEF IInv, Provenance
  <2>5. c.key = cmd[r].key
    BY <2>3, <2>4 DEF EntryOf
  <2>6. c = cmd[r]
    BY <1>1, <1>4, <2>1, <2>4, <2>5 DEF KeysNameOneCommand
  <2>7. QED
    BY <1>4, <2>4, <2>6
<1>5. QED
  BY <1>3, <1>4

---------------------------------------------------------------------------
\* The inductive invariant: the journal's two invariants need to know what
\* each request in service holds, which needs the journal to grow only.
LEMMA Inductive == Spec => []IInv
<1>1. Init => IInv
  BY EmptySeq, LenProperties
     DEF Init, JournalInit, IInv, TypeOK, Point, LocalInv, KeyAppliedOnce,
         ReversalsMirror, AnswerInv, Provenance
<1>2. IInv /\ [Next]_vars => IInv'
  <2> SUFFICES ASSUME IInv, [Next]_vars
               PROVE  IInv'
    OBVIOUS
  <2>1. TypeOK' /\ LocalInv' /\ AnswerInv' /\ Provenance'
    BY TypeStep, LocalStep, AnswerStep, ProvenanceStep DEF IInv
  <2>2. KeyAppliedOnce' /\ ReversalsMirror'
    BY StepIsPost, ContractKeepsJournal DEF IInv, TypeOK
  <2>3. QED
    BY <2>1, <2>2 DEF IInv
<1>3. QED
  BY <1>1, <1>2, PTL DEF Spec

\* Every variable of the wallet's handlers keeps its type.
THEOREM TypeCorrect == Spec => []TypeOK
BY Inductive, PTL DEF IInv

\* However many requests interleave, retry and fail, no idempotency key is
\* applied twice (service.go: apply, Rollback; the unique index).
THEOREM EveryKeyOnce == Spec => []KeyAppliedOnce
BY Inductive, PTL DEF IInv

\* Every reversal mirrors a row written before it (service.go: Rollback).
THEOREM ReversalsAreMirrors == Spec => []ReversalsMirror
BY Inductive, PTL DEF IInv

\* If keys are used for one operation each, whoever is told an operation was
\* applied finds exactly that row in the journal, retries included.
THEOREM AcknowledgedExactly == Spec => []AckedExactly
BY Inductive, AnswersAreExact, PTL

\* The handlers implement the journal's contract: append-only, one row at a
\* time, fresh keys, mirrored reversals.
THEOREM HandlersKeepContract == Spec => JournalSpec
<1>1. Init => JournalInit
  BY DEF Init
<1>2. IInv /\ [Next]_vars => [JournalNext]_journal
  BY StepIsPost DEF IInv
<1>3. QED
  BY <1>1, <1>2, Inductive, PTL DEF Spec, JournalSpec

---------------------------------------------------------------------------
\* The check a bet has passed still holds when it is about to be appended.
FundsInv ==
    OneSlotUsed =>
        \A r \in Request :
            pc[r] = "append" /\ cmd[r].op = "bet"
                => cmd[r].amount <= Balance(journal, cmd[r].player)

\* A step is one request's, which has a slot in use from then on; slots in use
\* stay in use, so if one slot is used after a step, the other ones are idle.
LEMMA StepOfTheOnlySlot ==
    ASSUME TypeOK, OneSlotUsed', [Next]_vars
    PROVE  OneSlotUsed
<1>1. CASE UNCHANGED vars
  BY <1>1 DEF vars, OneSlotUsed
<1>2. ASSUME NEW r \in Request,
             \/ Receive(r) \/ CheckSeen(r) \/ CheckFunds(r) \/ AppendEntry(r)
             \/ FindByKey(r) \/ CheckReversed(r) \/ ReadBalance(r) \/ StoreFails(r)
      PROVE  OneSlotUsed
  <2>1. \E point \in Point \ {"idle"} : pc' = [pc EXCEPT ![r] = point]
    BY <1>2 DEF Receive, CheckSeen, CheckFunds, AppendEntry, FindByKey, CheckReversed,
                ReadBalance, StoreFails, Goto, Answer, Point
  <2>2. \A q \in Request : pc[q] # "idle" => pc'[q] # "idle"
    BY <2>1 DEF TypeOK
  <2>3. QED
    BY <2>2 DEF OneSlotUsed
<1>3. QED
  BY <1>1, <1>2 DEF Next

\* Requests served one after the other never append a bet that the balance
\* does not cover (service.go: apply).  With two in service they do.
THEOREM SerialBetsAreCovered == Spec => SerialBetsCovered
<1>1. Init => FundsInv
  BY DEF Init, FundsInv
<1>2. IInv /\ FundsInv /\ [Next]_vars => FundsInv'
  <2> SUFFICES ASSUME IInv, FundsInv, [Next]_vars, OneSlotUsed',
                      NEW r \in Request, pc'[r] = "append", cmd'[r].op = "bet"
               PROVE  cmd'[r].amount <= Balance(journal', cmd'[r].player)
    BY DEF FundsInv
  <2>1. OneSlotUsed
    BY StepOfTheOnlySlot DEF IInv
  <2>2. CASE UNCHANGED vars
    BY <2>1, <2>2 DEF vars, FundsInv
  <2>3. ASSUME NEW q \in Request,
               \/ Receive(q) \/ CheckSeen(q) \/ CheckFunds(q) \/ AppendEntry(q)
               \/ FindByKey(q) \/ CheckReversed(q) \/ ReadBalance(q) \/ StoreFails(q)
        PROVE  cmd'[r].amount <= Balance(journal', cmd'[r].player)
    <3>1. pc'[q] # "idle" /\ q = r
      <4>1. pc'[q] # "idle"
        BY <2>3 DEF Receive, CheckSeen, CheckFunds, AppendEntry, FindByKey, CheckReversed,
                    ReadBalance, StoreFails, Goto, Answer, IInv, TypeOK
      <4>2. QED
        BY <4>1 DEF OneSlotUsed
    <3>2. CheckFunds(r)
      <4>1. ~(Receive(r) \/ FindByKey(r) \/ CheckReversed(r) \/ ReadBalance(r)
              \/ AppendEntry(r) \/ StoreFails(r))
        BY DEF Receive, FindByKey, CheckReversed, ReadBalance, AppendEntry,
               StoreFails, Goto, Answer, IInv, TypeOK
      <4>2. ~CheckSeen(r)
        BY DEF CheckSeen, Goto, IInv, TypeOK
      <4>3. QED
        BY <2>3, <3>1, <4>1, <4>2
    <3>3. /\ cmd[r].amount <= Balance(journal, cmd[r].player)
          /\ UNCHANGED <<journal, cmd>>
      BY <3>2 DEF CheckFunds, Goto, Answer, IInv, TypeOK
    <3>4. QED
      BY <3>3
  <2>4. QED
    BY <2>2, <2>3 DEF Next
<1>3. IInv /\ FundsInv /\ [Next]_vars =>
        [OneSlotUsed' =>
           \A i \in DOMAIN journal' \ DOMAIN journal : NewRowCovered(i)]_vars
  <2> SUFFICES ASSUME IInv, FundsInv, [Next]_vars, OneSlotUsed',
                      NEW i \in DOMAIN journal' \ DOMAIN journal,
                      journal'[i].direction = "DEBIT", journal'[i].key[1] = 0
               PROVE  journal'[i].amount <= Balance(journal, journal'[i].player)
    BY DEF NewRowCovered
  <2>1. PICK r \in Request : /\ pc[r] \in {"append", "reverse"}
                             /\ journal' = Append(journal, Pending(r))
    BY DEF Next, vars, Receive, CheckSeen, CheckFunds, AppendEntry, FindByKey,
           CheckReversed, ReadBalance, StoreFails
  <2>2. journal'[i] = Pending(r)
    BY <2>1, PendingIsLegal, AppendProperties, LenProperties DEF IInv, TypeOK
  <2>3. pc[r] = "append"
    <3>1. SUFFICES ASSUME pc[r] = "reverse" PROVE FALSE
      BY <2>1
    <3>2. cmd[r] \in Command /\ cmd[r].op = "rollback"
      BY <3>1 DEF IInv, LocalInv
    <3>3. Pending(r).key = ReversalKey(cmd[r].key)
      BY <2>1, <3>2, PendingIsLegal DEF IInv
    <3>4. cmd[r].key[1] \in Nat
      BY <3>2, RollbackTarget, MaxNestIsNatural DEF Key
    <3>5. QED
      BY <2>2, <3>3, <3>4 DEF ReversalKey
  <2>4. Pending(r) = EntryOf(cmd[r]) /\ cmd[r].op = "bet"
    BY <2>2, <2>3 DEF Pending, EntryOf, IInv, LocalInv
  <2>5. OneSlotUsed
    BY StepOfTheOnlySlot DEF IInv
  <2>6. QED
    BY <2>2, <2>3, <2>4, <2>5 DEF EntryOf, FundsInv
<1>4. QED
  BY <1>1, <1>2, <1>3, Inductive, PTL DEF Spec, SerialBetsCovered
=============================================================================
