------------------------------- MODULE Ledger -------------------------------
(***************************************************************************)
(* The wallet service's request handlers (apps/wallet).  Every HTTP        *)
(* request runs in a goroutine of its own and makes a sequence of calls on *)
(* the repository; each call is atomic, the sequence is not: there is no   *)
(* transaction and no lock.  A Request is a slot in which one request      *)
(* after the other is served, so the size of Request bounds how many are   *)
(* in flight together.                                                     *)
(***************************************************************************)
EXTENDS Journal

CONSTANTS Request,    \* the requests that may be in flight together
          Command,    \* the requests the callers may send
          None        \* no command yet, no row found yet

OpCommand == [op : {"bet", "win"}, key : {0} \X Name, player : Player, amount : Amount]
RollbackCommand == [op : {"rollback"}, key : (0 .. MaxNest) \X Name]

ASSUME CommandsAreTyped == Command \subseteq (OpCommand \cup RollbackCommand)
ASSUME NoneIsNeither == None \notin Command \cup Entry

VARIABLES pc,         \* the repository call each request is about to make
          cmd,        \* the command it serves
          original,   \* Rollback's local copy of the row it found
          reply       \* the HTTP status of the last answer

vars == <<journal, pc, cmd, original, reply>>

Point == {"idle", "hasOp", "checkFunds", "append",
          "findByKey", "hasReversal", "reverse", "balance", "done"}
InService == Point \ {"idle", "done"}

TypeOK ==
    /\ journal \in Seq(Entry)
    /\ pc \in [Request -> Point]
    /\ cmd \in [Request -> Command \cup {None}]
    /\ original \in [Request -> Entry \cup {None}]
    /\ reply \in [Request -> {0, 200, 404, 409, 500}]

Init ==
    /\ JournalInit
    /\ pc = [r \in Request |-> "idle"]
    /\ cmd = [r \in Request |-> None]
    /\ original = [r \in Request |-> None]
    /\ reply = [r \in Request |-> 0]

---------------------------------------------------------------------------
Goto(r, point) ==
    /\ pc' = [pc EXCEPT ![r] = point]
    /\ UNCHANGED reply

Answer(r, status) ==
    /\ pc' = [pc EXCEPT ![r] = "done"]
    /\ reply' = [reply EXCEPT ![r] = status]

\* The row a bet or a win asks for.
EntryOf(c) ==
    [key       |-> c.key,
     player    |-> c.player,
     direction |-> IF c.op = "bet" THEN "DEBIT" ELSE "CREDIT",
     amount    |-> c.amount]

\* Mutant: the reversal repeats the original's direction.
PendingUnflipped(r) ==
    IF pc[r] = "reverse"
    THEN [Reversal(original[r]) EXCEPT !.direction = original[r].direction]
    ELSE EntryOf(cmd[r])

\* The row request r appends when it gets that far.
Pending(r) ==
    IF pc[r] = "reverse" THEN Reversal(original[r]) ELSE EntryOf(cmd[r])

\* A free slot takes any command, one sent before included: callers retry.
Receive(r) ==
    /\ pc[r] \in {"idle", "done"}
    /\ \E c \in Command :
         /\ cmd' = [cmd EXCEPT ![r] = c]
         /\ pc' = [pc EXCEPT ![r] = IF c.op = "rollback" THEN "findByKey" ELSE "hasOp"]
    /\ original' = [original EXCEPT ![r] = None]
    /\ reply' = [reply EXCEPT ![r] = 0]
    /\ UNCHANGED journal

\* apply: a key seen before skips to the answer, a bet checks funds first.
CheckSeen(r) ==
    /\ pc[r] = "hasOp"
    /\ Goto(r, IF HasOp(cmd[r].key) THEN "balance"
               ELSE IF cmd[r].op = "bet" THEN "checkFunds" ELSE "append")
    /\ UNCHANGED <<journal, cmd, original>>

\* Mutant: the floor is off by one.
CheckFundsOffByOne(r) ==
    /\ pc[r] = "checkFunds"
    /\ IF cmd[r].amount <= Balance(journal, cmd[r].player) + 1
       THEN Goto(r, "append")
       ELSE Answer(r, 409)
    /\ UNCHANGED <<journal, cmd, original>>

\* apply: the balance is read here and not again when the row is appended.
CheckFunds(r) ==
    /\ pc[r] = "checkFunds"
    /\ IF cmd[r].amount <= Balance(journal, cmd[r].player)
       THEN Goto(r, "append")
       ELSE Answer(r, 409)
    /\ UNCHANGED <<journal, cmd, original>>

\* Mutant: no unique index on the key.
AppendUnchecked(r) ==
    /\ pc[r] \in {"append", "reverse"}
    /\ Goto(r, "balance")
    /\ journal' = Append(journal, Pending(r))
    /\ UNCHANGED <<cmd, original>>

\* Append: the unique index on the key turns a second row away, which the
\* handler answers like any other store error.
AppendEntry(r) ==
    /\ pc[r] \in {"append", "reverse"}
    /\ IF HasOp(Pending(r).key)
       THEN Answer(r, 500) /\ UNCHANGED journal
       ELSE Goto(r, "balance") /\ journal' = Append(journal, Pending(r))
    /\ UNCHANGED <<cmd, original>>

\* Rollback: look the original up and keep a copy of it.
FindByKey(r) ==
    /\ pc[r] = "findByKey"
    /\ \/ /\ ~HasOp(cmd[r].key)
          /\ Answer(r, 404)
          /\ UNCHANGED original
       \/ \E i \in DOMAIN journal :
            /\ journal[i].key = cmd[r].key
            /\ original' = [original EXCEPT ![r] = journal[i]]
            /\ Goto(r, "hasReversal")
    /\ UNCHANGED <<journal, cmd>>

\* Rollback: a key reversed before is answered without a second reversal.
CheckReversed(r) ==
    /\ pc[r] = "hasReversal"
    /\ Goto(r, IF HasOp(ReversalKey(cmd[r].key)) THEN "balance" ELSE "reverse")
    /\ UNCHANGED <<journal, cmd, original>>

\* Every handler that succeeds ends by reading the balance it answers.
ReadBalance(r) ==
    /\ pc[r] = "balance"
    /\ Answer(r, 200)
    /\ UNCHANGED <<journal, cmd, original>>

\* Mutant: the error of the insert is dropped.
StoreFailsUnnoticed(r) ==
    /\ pc[r] \in {"append", "reverse"}
    /\ Answer(r, 200)
    /\ UNCHANGED <<journal, cmd, original>>

\* A repository call fails: the database is away, the caller has hung up and
\* the request's context is cancelled, or the service stops.  The insert may
\* have been committed all the same.
StoreFails(r) ==
    /\ pc[r] \in InService
    /\ Answer(r, 500)
    /\ \/ UNCHANGED journal
       \/ /\ pc[r] \in {"append", "reverse"}
          /\ ~HasOp(Pending(r).key)
          /\ journal' = Append(journal, Pending(r))
    /\ UNCHANGED <<cmd, original>>

Next ==
    \E r \in Request :
        \/ Receive(r)
        \/ CheckSeen(r)
        \/ CheckFunds(r)
        \/ AppendEntry(r)
        \/ FindByKey(r)
        \/ CheckReversed(r)
        \/ ReadBalance(r)
        \/ StoreFails(r)

Spec == Init /\ [][Next]_vars

---------------------------------------------------------------------------
\* No key is applied twice, however its requests interleave and retry: two
\* rows never share a key.  (apply and Rollback look for the key first and
\* the store refuses it again at the insert.)
KeyAppliedOnce ==
    \A i, j \in DOMAIN journal : journal[i].key = journal[j].key => i = j

\* A reversal mirrors a row written before it: same player and amount, the
\* other direction.  With KeyAppliedOnce, a row is reversed at most once.
ReversalsMirror ==
    \A i \in DOMAIN journal :
        journal[i].key[1] > 0 =>
            \E j \in 1 .. i - 1 : journal[i] = Reversal(journal[j])

\* The callers never use one key for two different operations.
KeysNameOneCommand ==
    \A c, d \in Command : c.op # "rollback" /\ d.op # "rollback" /\ c.key = d.key => c = d

\* What a caller is told was applied is in the journal exactly as asked for,
\* the answer to a retry included, if a key is used for one operation only.
AckedExactly ==
    KeysNameOneCommand =>
        \A r \in Request :
            pc[r] = "done" /\ reply[r] = 200 =>
                \E i \in DOMAIN journal :
                    IF cmd[r].op = "rollback"
                    THEN journal[i].key = ReversalKey(cmd[r].key)
                    ELSE journal[i] = EntryOf(cmd[r])

\* The rows a step appends, and whether the balance before it covers them.
NewRowCovered(i) ==
    journal'[i].direction = "DEBIT" /\ journal'[i].key[1] = 0
        => journal'[i].amount <= Balance(journal, journal'[i].player)

\* A bet is appended only when the balance covers its stake at that moment
\* (docs/ARCHITECTURE.md: "Locking: pessimistic (SELECT FOR UPDATE)").  The code
\* does not have it: nothing is locked between the check and the insert.
BetsCovered ==
    [][\A i \in DOMAIN journal' \ DOMAIN journal : NewRowCovered(i)]_vars

\* Only one slot has served anything yet: no two requests were ever in flight.
OneSlotUsed ==
    \A q, r \in Request : pc[q] # "idle" /\ pc[r] # "idle" => q = r

\* As long as requests are served one after the other, no bet is appended that
\* the balance does not cover, whatever was replayed, rolled back or failed.
SerialBetsCovered ==
    [][OneSlotUsed' =>
         \A i \in DOMAIN journal' \ DOMAIN journal : NewRowCovered(i)]_vars
=============================================================================
