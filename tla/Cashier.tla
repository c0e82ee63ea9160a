------------------------------- MODULE Cashier -------------------------------
(***************************************************************************)
(* The page of one signed-in player (apps/frontend: lib/use-chain.ts,      *)
(* lib/chain-actions.ts, components/cashier, and the balance that the slot *)
(* shares with them through app/game-provider.tsx).  The player's calls of *)
(* the cashier - faucet, deposit, withdraw - run side by side if the       *)
(* buttons let them; each is a sequence of awaits.  They share one busy    *)
(* flag, one progress panel and one displayed balance.  The chain mines in *)
(* order; the listener credits deposits, and the backend carries out       *)
(* withdrawals and rounds, in single steps: Deposits, Withdrawals and      *)
(* Rounds have theirs.  Amounts are whole chips.                           *)
(***************************************************************************)
EXTENDS Integers, Sequences, FiniteSets

CONSTANTS Op,           \* the player's calls of the cashier, each once
          Amounts,      \* what a form may ask for
          Spin,         \* the player's spins, each once
          Stakes,       \* what the bet bar may offer
          Payouts,      \* what a round may pay
          Funds,        \* the ledger balance at the start
          Chips,        \* the chips in the wallet at the start
          FaucetChips,  \* what the faucet mints (1000 in the code)
          Polls,        \* how often a deposit looks for its credit (8 in the code)
          MaxFaults     \* bound: calls that fail or get no answer

ASSUME AmountsArePositive == {Amounts, Stakes} \subseteq SUBSET (Nat \ {0})
ASSUME NumbersAreNatural ==
    /\ Payouts \subseteq Nat
    /\ {Funds, Chips, FaucetChips, MaxFaults} \subseteq Nat /\ Polls \in Nat \ {0}

VARIABLES pc,         \* the await each call is at
          kind,       \* its BusyOp
          amount,
          before,     \* the balance a deposit's closure holds
          polls,      \* how often it has looked
          busy,       \* the hook's flag
          flow,       \* txFlow: whose it is and its steps
          casino,     \* the displayed ledger balance
          play,       \* each spin's round
          stake,
          balance,    \* the ledger balance
          credited,   \* deposits the listener has credited
          debited,    \* withdrawals the ledger has debited and not refunded
          pool,       \* the wallet's transactions, in the order of their nonces
          receipt,    \* of each call's last transaction
          executed,   \* calls whose mint or deposit has taken effect
          chips,      \* in the wallet
          allowance,  \* the vault's
          faults,
          met,        \* what each call has met
          fell        \* the balance fell since it was read, or since a spin was sent

calls == <<pc, kind, amount, before, polls>>
page == <<busy, flow, casino>>
rounds == <<play, stake>>
ledger == <<balance, credited, debited>>
chain == <<pool, receipt, executed, chips, allowance>>
history == <<met, fell>>
vars == <<calls, page, rounds, ledger, chain, faults, history>>

Kind == {"faucet", "deposit", "withdraw"}
Key == {"mint", "approve", "deposit", "credit", "request", "release"}
Point == {"idle", "allowance", "approve", "mineApprove", "send", "mine", "poll",
          "post", "release", "refused", "served", "confirmed", "failed"}

NoFlow == [of |-> {}, steps |-> [k \in Key |-> "absent"], done |-> FALSE]

TypeOK ==
    /\ pc \in [Op -> Point]
    /\ kind \in [Op -> Kind]
    /\ amount \in [Op -> Amounts \cup {0}]
    /\ before \in [Op -> Nat]
    /\ polls \in [Op -> 0..Polls]
    /\ busy \in Kind \cup {"null"}
    /\ flow.of \in {{}} \cup {{o} : o \in Op} /\ flow.done \in BOOLEAN
    /\ flow.steps \in [Key -> {"absent", "pending", "active", "done", "error"}]
    /\ casino \in Nat
    /\ play \in [Spin -> {"idle", "post", "played", "refused", "over"}]
    /\ stake \in [Spin -> Stakes \cup {0}]
    /\ balance \in Nat
    /\ credited \subseteq executed /\ debited \subseteq Op /\ executed \subseteq Op
    /\ pool \in Seq([op : Op, what : {"approve", "move"}])
    /\ receipt \in [Op -> {"none", "ok", "noAllowance", "noChips"}]
    /\ chips \in Nat /\ allowance \in Nat
    /\ faults \in 0..MaxFaults
    /\ met \in [Op -> SUBSET {"overlap", "stale", "raised", "lost", "unread"}]
    /\ fell \in BOOLEAN

\* The page is loaded and its first balance may not have come yet: it shows 0.
Init ==
    /\ pc = [o \in Op |-> "idle"] /\ kind \in [Op -> Kind]
    /\ amount = [o \in Op |-> 0] /\ before = [o \in Op |-> 0] /\ polls = [o \in Op |-> 0]
    /\ busy = "null" /\ flow = NoFlow /\ casino = 0
    /\ play = [s \in Spin |-> "idle"] /\ stake = [s \in Spin |-> 0]
    /\ balance = Funds /\ credited = {} /\ debited = {}
    /\ pool = <<>> /\ receipt = [o \in Op |-> "none"] /\ executed = {}
    /\ chips = Chips /\ allowance = 0
    /\ faults = 0
    /\ met = [o \in Op |-> {}] /\ fell = FALSE

---------------------------------------------------------------------------
(* The panel.                                                              *)

Over(o) == pc[o] \in {"confirmed", "failed"}
Open == {o \in Op : pc[o] # "idle" /\ ~Over(o)}

\* Mutant: a flow with a step that failed is never done.
SettledIfDone(steps) == \A k \in Key : steps[k] \in {"absent", "done"}

\* Every step of the flow is done or has failed.
Settled(steps) == \A k \in Key : steps[k] \in {"absent", "done", "error"}

\* patchStep, for one or more keys of the flow there is, whoever's it is.
Patch(patch) ==
    LET steps == [k \in Key |-> IF k \in DOMAIN patch /\ flow.steps[k] # "absent"
                                THEN patch[k] ELSE flow.steps[k]]
    IN flow' = IF flow = NoFlow THEN flow
               ELSE [flow EXCEPT !.steps = steps, !.done = Settled(steps)]

StartFlow(o, steps) ==
    flow' = [of |-> {o}, done |-> FALSE,
             steps |-> [k \in Key |-> IF k \in DOMAIN steps THEN steps[k] ELSE "absent"]]

Close ==
    /\ flow.done
    /\ flow' = NoFlow
    /\ UNCHANGED <<calls, busy, casino, rounds, ledger, chain, faults, history>>

\* The query of the balance is answered; every call reads it as one step.
Read == casino' = balance /\ fell' = (fell /\ \E s \in Spin : play[s] = "post")

Refetch ==
    /\ casino # balance \/ fell
    /\ Read
    /\ UNCHANGED <<calls, busy, flow, rounds, ledger, chain, faults, met>>

---------------------------------------------------------------------------
(* What the calls have in common.                                          *)

Goto(o, point) == pc' = [pc EXCEPT ![o] = point]

Fault == faults < MaxFaults /\ faults' = faults + 1

Met(o, what) == met' = [met EXCEPT ![o] = @ \cup {what}]

\* A button is there unless its own kind is busy.
Click(o) ==
    /\ pc[o] = "idle" /\ busy # kind[o]
    /\ busy' = kind[o]
    /\ met' = [u \in Op |->
                 IF u = o THEN {e \in {"overlap", "stale"} :
                                   \/ e = "overlap" /\ (Open # {} \/ pool # <<>>)
                                   \/ e = "stale" /\ casino # balance}
                 ELSE IF u \in Open THEN met[u] \cup {"overlap"} ELSE met[u]]
    /\ UNCHANGED <<casino, rounds, ledger, chain, faults, fell>>

\* The finally of every call.
Finish(o, what) == Goto(o, what) /\ busy' = "null"

\* A transaction is signed and sent.
Submit(o, what) ==
    /\ pool' = Append(pool, [op |-> o, what |-> what])
    /\ receipt' = [receipt EXCEPT ![o] = "none"]
    /\ UNCHANGED <<executed, chips, allowance>>

\* It is not sent - the player refuses, the estimate fails - or its hash is lost.
SendFails(o, point, what) ==
    /\ pc[o] = point /\ Fault
    /\ \/ UNCHANGED <<chain, met>>
       \/ Submit(o, what) /\ Met(o, "lost")

\* The wait for the receipt fails; the transaction goes on.
WaitFails(o, point) ==
    /\ pc[o] = point /\ Fault
    /\ Met(o, "lost")
    /\ UNCHANGED chain

---------------------------------------------------------------------------
(* faucet.                                                                 *)

Faucet(o) ==
    /\ kind[o] = "faucet" /\ Click(o)
    /\ StartFlow(o, [mint |-> "active"])
    /\ Goto(o, "send")
    /\ UNCHANGED <<kind, amount, before, polls>>

SendMint(o) ==
    /\ kind[o] = "faucet" /\ pc[o] = "send"
    /\ Submit(o, "move")
    /\ Goto(o, "mine")
    /\ UNCHANGED <<kind, amount, before, polls, page, rounds, ledger, faults, history>>

MintMined(o) ==
    /\ kind[o] = "faucet" /\ pc[o] = "mine" /\ receipt[o] = "ok"
    /\ Patch([mint |-> "done"])
    /\ Finish(o, "confirmed")
    /\ UNCHANGED <<kind, amount, before, polls, casino, rounds, ledger, chain, faults, history>>

FaucetFails(o) ==
    /\ kind[o] = "faucet"
    /\ SendFails(o, "send", "move") \/ WaitFails(o, "mine")
    /\ Patch([mint |-> "error"])
    /\ Finish(o, "failed")
    /\ UNCHANGED <<kind, amount, before, polls, casino, rounds, ledger, fell>>

---------------------------------------------------------------------------
(* deposit.                                                                *)

Deposit(o, a) ==
    /\ kind[o] = "deposit" /\ Click(o)
    /\ amount' = [amount EXCEPT ![o] = a]
    /\ before' = [before EXCEPT ![o] = casino]
    /\ Goto(o, "allowance")
    /\ UNCHANGED <<kind, polls, flow>>

\* Mutant: an allowance that is left from before is taken for enough.
NeedsApproveIfNone(o) == allowance = 0

NeedsApprove(o) == allowance < amount[o]

\* The flow starts when the allowance is known, with its first step active.
ReadAllowance(o) ==
    /\ pc[o] = "allowance"
    /\ IF NeedsApprove(o)
       THEN /\ StartFlow(o, [approve |-> "active", deposit |-> "pending", credit |-> "pending"])
            /\ Goto(o, "approve")
       ELSE /\ StartFlow(o, [deposit |-> "active", credit |-> "pending"])
            /\ Goto(o, "send")
    /\ UNCHANGED <<kind, amount, before, polls, busy, casino, rounds, ledger, chain, faults, history>>

\* The read comes before the try: its exception passes by the finally.
AllowanceFails(o) ==
    /\ pc[o] = "allowance"
    /\ Fault /\ Met(o, "unread")
    /\ Goto(o, "failed")
    /\ UNCHANGED <<kind, amount, before, polls, page, rounds, ledger, chain, fell>>

SendApprove(o) ==
    /\ pc[o] = "approve"
    /\ Submit(o, "approve")
    /\ Goto(o, "mineApprove")
    /\ UNCHANGED <<kind, amount, before, polls, page, rounds, ledger, faults, history>>

ApproveMined(o) ==
    /\ pc[o] = "mineApprove" /\ receipt[o] = "ok"
    /\ Patch([approve |-> "done", deposit |-> "active"])
    /\ Goto(o, "send")
    /\ UNCHANGED <<kind, amount, before, polls, busy, casino, rounds, ledger, chain, faults, history>>

SendDeposit(o) ==
    /\ kind[o] = "deposit" /\ pc[o] = "send"
    /\ Submit(o, "move")
    /\ Goto(o, "mine")
    /\ UNCHANGED <<kind, amount, before, polls, page, rounds, ledger, faults, history>>

\* Mutant: a deposit that is sent is taken for mined.
DepositUnawaited(o) ==
    /\ kind[o] = "deposit" /\ pc[o] = "mine"
    /\ Patch([deposit |-> "done", credit |-> "active"])
    /\ Goto(o, "poll")
    /\ UNCHANGED <<kind, amount, before, polls, busy, casino, rounds, ledger, chain, faults, history>>

\* The demo wallet waits for a receipt and does not look at its status.
DepositMined(o) ==
    /\ kind[o] = "deposit" /\ pc[o] = "mine" /\ receipt[o] # "none"
    /\ Patch([deposit |-> "done", credit |-> "active"])
    /\ Goto(o, "poll")
    /\ UNCHANGED <<kind, amount, before, polls, busy, casino, rounds, ledger, chain, faults, history>>

\* The estimate of a transaction that would revert throws, and so does MetaMask's
\* receipt of one that did.
Reverted(o) == receipt[o] \in {"noAllowance", "noChips"} /\ pc[o] = "mine"

\* The catch: whatever is active in the flow there is has failed.
DepositFails(o) ==
    /\ kind[o] = "deposit"
    /\ \/ SendFails(o, "approve", "approve") \/ WaitFails(o, "mineApprove")
       \/ SendFails(o, "send", "move") \/ WaitFails(o, "mine")
       \/ Reverted(o) /\ UNCHANGED <<chain, faults, met>>
    /\ flow' = IF flow = NoFlow THEN flow
               ELSE [flow EXCEPT !.done = TRUE,
                        !.steps = [k \in Key |-> IF @[k] = "active" THEN "error" ELSE @[k]]]
    /\ Finish(o, "failed")
    /\ UNCHANGED <<kind, amount, before, polls, casino, rounds, ledger, fell>>

\* Mutant: a balance that has not risen will do.
RoseOrStayed(o) == balance >= before[o]

\* What pollUntilCredited takes for the credit.
Rose(o) == balance > before[o]

\* Mutant: one look more.
PollOnceMore(o) ==
    /\ pc[o] = "poll" /\ polls[o] <= Polls /\ ~Rose(o)
    /\ polls' = [polls EXCEPT ![o] = @ + 1]
    /\ UNCHANGED <<pc, kind, amount, before, page, rounds, ledger, chain, faults, history>>

\* pollUntilCredited looks; a read that fails counts like one that finds nothing.
Poll(o) ==
    /\ pc[o] = "poll" /\ polls[o] < Polls /\ ~Rose(o)
    /\ polls' = [polls EXCEPT ![o] = @ + 1]
    /\ UNCHANGED <<pc, kind, amount, before, page, rounds, ledger, chain, faults, history>>

PollFails(o) ==
    /\ pc[o] = "poll" /\ polls[o] < Polls
    /\ Fault
    /\ polls' = [polls EXCEPT ![o] = @ + 1]
    /\ UNCHANGED <<pc, kind, amount, before, page, rounds, ledger, chain, history>>

\* It has seen a rise, or gives up; the balance is read once more, and the call
\* is confirmed either way.
PollEnds(o) ==
    /\ pc[o] = "poll"
    /\ \/ polls[o] < Polls /\ Rose(o) /\ Patch([credit |-> "done"])
       \/ polls[o] = Polls /\ Patch([credit |-> "error"])
    /\ Read
    /\ Finish(o, "confirmed")
    /\ UNCHANGED <<kind, amount, before, polls, rounds, ledger, chain, faults, met>>

---------------------------------------------------------------------------
(* withdraw.                                                               *)

Withdraw(o, a) ==
    /\ kind[o] = "withdraw" /\ Click(o)
    /\ amount' = [amount EXCEPT ![o] = a]
    /\ StartFlow(o, [request |-> "active", release |-> "pending"])
    /\ Goto(o, "post")
    /\ UNCHANGED <<kind, before, polls>>

WithdrawAnswered(o) ==
    /\ pc[o] = "served"
    /\ Patch([request |-> "done", release |-> "done"])
    /\ Read
    /\ Finish(o, "confirmed")
    /\ UNCHANGED <<kind, amount, before, polls, rounds, ledger, chain, faults, met>>

\* Mutant: without the finally.
WithdrawFailsBusy(o) ==
    /\ pc[o] = "refused"
    /\ Goto(o, "failed")
    /\ Patch([request |-> "error"])
    /\ UNCHANGED <<kind, amount, before, polls, busy, casino, rounds, ledger, chain, faults, history>>

\* An error answer, or none, whether the request was served or never came to the
\* backend.  The release stays pending.
WithdrawFails(o) ==
    /\ \/ pc[o] = "refused" /\ UNCHANGED <<faults, met>>
       \/ pc[o] \in {"post", "served"} /\ Fault /\ Met(o, "lost")
    /\ Patch([request |-> "error"])
    /\ Finish(o, "failed")
    /\ UNCHANGED <<kind, amount, before, polls, casino, rounds, ledger, chain, fell>>

---------------------------------------------------------------------------
(* The slot's part: the stake is capped by the displayed balance.          *)

\* The bet bar keeps the stake between its least bet, one of Stakes, and a cap that
\* is none as long as the balance shown is 0.
InBar(n) == casino = 0 \/ n <= casino

\* Mutant: handleSpin relies on the bar.
OfferedUncapped(n) == InBar(n)

\* handleSpin asks the balance once more.
Offered(n) == InBar(n) /\ n <= casino

Play(s, n) ==
    /\ play[s] = "idle" /\ \A t \in Spin : play[t] \in {"idle", "over"}
    /\ Offered(n)
    /\ play' = [play EXCEPT ![s] = "post"]
    /\ stake' = [stake EXCEPT ![s] = n]
    /\ UNCHANGED <<calls, page, ledger, chain, faults, history>>

\* The round is shown; the balance is asked for again, but nobody waits for it.
\* A refused spin does not even ask.
PlayAnswered(s) ==
    /\ play[s] \in {"played", "refused"}
    /\ play' = [play EXCEPT ![s] = "over"]
    /\ UNCHANGED <<calls, page, stake, ledger, chain, faults, history>>

---------------------------------------------------------------------------
(* The backend and the chain.                                              *)

\* The balance rises by n; calls of others than o that are under way meet it.
Raise(n, who) ==
    /\ balance' = balance + n
    /\ met' = [o \in Op |-> IF o \in Open \ who THEN met[o] \cup {"raised"} ELSE met[o]]

ServePlay(s) ==
    /\ play[s] = "post"
    /\ IF stake[s] > balance
       THEN play' = [play EXCEPT ![s] = "refused"] /\ UNCHANGED <<balance, met, fell>>
       ELSE \E p \in Payouts :
              /\ play' = [play EXCEPT ![s] = "played"]
              /\ IF p > 0
                 THEN Raise(p - stake[s], {})
                 ELSE (balance' = balance - stake[s]) /\ UNCHANGED met
              /\ fell' = (fell \/ p < stake[s])
    /\ UNCHANGED <<calls, page, stake, credited, debited, chain, faults>>

\* The ledger is debited, or the withdrawal is refused.
Debit(o) ==
    /\ pc[o] = "post"
    /\ IF amount[o] <= balance
       THEN /\ balance' = balance - amount[o] /\ debited' = debited \cup {o} /\ fell' = TRUE
            /\ Goto(o, "release")
       ELSE Goto(o, "refused") /\ UNCHANGED <<balance, debited, fell>>
    /\ UNCHANGED <<kind, amount, before, polls, page, rounds, credited, chain, faults, met>>

\* The vault pays, or the debit is refunded.
Release(o) ==
    /\ pc[o] = "release"
    /\ \/ chips' = chips + amount[o] /\ Goto(o, "served") /\ UNCHANGED <<balance, debited, met>>
       \/ Raise(amount[o], {o}) /\ debited' = debited \ {o} /\ Goto(o, "refused") /\ UNCHANGED chips
    /\ UNCHANGED <<kind, amount, before, polls, page, rounds, credited, pool, receipt, executed,
                   allowance, faults, fell>>

\* The listener credits a deposit, any time after it was mined.
Credit(o) ==
    /\ o \in executed \ credited /\ kind[o] = "deposit"
    /\ Raise(amount[o], {o})
    /\ credited' = credited \cup {o}
    /\ UNCHANGED <<calls, page, rounds, debited, chain, faults, fell>>

Receipt(o, what) ==
    /\ pool' = Tail(pool)
    /\ receipt' = [receipt EXCEPT ![o] = what]

MineApprove ==
    /\ pool # <<>> /\ Head(pool).what = "approve"
    /\ Receipt(Head(pool).op, "ok")
    /\ allowance' = amount[Head(pool).op]
    /\ UNCHANGED <<calls, page, rounds, ledger, executed, chips, faults, history>>

MineMint ==
    /\ pool # <<>> /\ kind[Head(pool).op] = "faucet"
    /\ Receipt(Head(pool).op, "ok")
    /\ chips' = chips + FaucetChips /\ executed' = executed \cup {Head(pool).op}
    /\ UNCHANGED <<calls, page, rounds, ledger, allowance, faults, history>>

\* The vault takes the chips within its allowance, or the transaction reverts.
MineDeposit ==
    /\ pool # <<>> /\ Head(pool).what = "move" /\ kind[Head(pool).op] = "deposit"
    /\ LET o == Head(pool).op IN
       IF allowance < amount[o] THEN Receipt(o, "noAllowance") /\ UNCHANGED <<executed, chips, allowance>>
       ELSE IF chips < amount[o] THEN Receipt(o, "noChips") /\ UNCHANGED <<executed, chips, allowance>>
       ELSE /\ Receipt(o, "ok")
            /\ chips' = chips - amount[o] /\ allowance' = allowance - amount[o]
            /\ executed' = executed \cup {o}
    /\ UNCHANGED <<calls, page, rounds, ledger, faults, history>>

---------------------------------------------------------------------------
OnPage ==
    \/ Close \/ Refetch
    \/ \E o \in Op :
         \/ Faucet(o) \/ SendMint(o) \/ MintMined(o) \/ FaucetFails(o)
         \/ \E a \in Amounts : Deposit(o, a) \/ Withdraw(o, a)
         \/ ReadAllowance(o) \/ AllowanceFails(o)
         \/ SendApprove(o) \/ ApproveMined(o) \/ SendDeposit(o) \/ DepositMined(o)
         \/ DepositFails(o) \/ Poll(o) \/ PollFails(o) \/ PollEnds(o)
         \/ WithdrawAnswered(o) \/ WithdrawFails(o)
    \/ \E s \in Spin : PlayAnswered(s) \/ \E n \in Stakes : Play(s, n)

Elsewhere ==
    \/ \E s \in Spin : ServePlay(s)
    \/ \E o \in Op : Debit(o) \/ Release(o) \/ Credit(o)
    \/ MineApprove \/ MineMint \/ MineDeposit

Next == OnPage \/ Elsewhere

Spec == Init /\ [][Next]_vars

---------------------------------------------------------------------------
(* Properties.                                                             *)

\* "Listener confirmed the deposit on-chain" is true (use-chain.ts:240): the
\* deposit is credited, if the balance shown at the click was the ledger's and
\* nothing else raised it since: no win, no refund, no other deposit.
ConfirmedCreditIsTrue ==
    \A o \in Op : /\ flow.of = {o} /\ kind[o] = "deposit" /\ flow.steps["credit"] = "done"
                  /\ met[o] \cap {"stale", "raised", "overlap"} = {}
                  => o \in credited

\* What was approved suffices, whatever earlier deposits left of their allowance:
\* a deposit reverts for want of it only if calls overlapped.
ApprovedDepositsGoThrough ==
    \A o \in Op : receipt[o] = "noAllowance" => "overlap" \in met[o]

\* The panel tells the truth about the call it is for, unless calls overlapped: a
\* step that is done has happened - the vault has the chips, the ledger is
\* debited - and one that failed has not, unless its answer was lost.  (A deposit
\* that reverts for want of chips shows as mined in a demo wallet.)  None reverts
\* for want of the allowance its first step approved.
FlowTellsTheTruth ==
    /\ ApprovedDepositsGoThrough
    /\ \A o \in Op : flow.of = {o} /\ "overlap" \notin met[o] =>
        /\ flow.steps["mint"] = "done" \/ flow.steps["deposit"] = "done"
              => o \in executed \/ receipt[o] = "noChips"
        /\ flow.steps["request"] = "done" => o \in debited
        /\ \A k \in {"mint", "deposit", "request"} :
              flow.steps[k] = "error" /\ "lost" \notin met[o] => o \notin executed \cup debited

\* The buttons come back: one is busy while a call of its kind is under way, and
\* after it only if the allowance could not be read; and a call that is under way
\* alone keeps its button busy.
BusyMeansUnderWay ==
    /\ busy = "null" \/ (\E o \in Open : kind[o] = busy)
         \/ (busy = "deposit" /\ \E o \in Op : "unread" \in met[o])
    /\ \A o \in Open : busy = kind[o] \/ "overlap" \in met[o]

\* The panel of a call that is over can be closed, unless calls overlapped or the
\* call is a withdrawal that failed, whose second step stays pending for good.
FinishedFlowsClose ==
    \A o \in Op : flow.of = {o} /\ Over(o) /\ "overlap" \notin met[o] =>
        flow.done \/ (kind[o] = "withdraw" /\ pc[o] = "failed")

\* After any mix of calls and failures the cashier can be used again.
NothingIsLeftBusy == TypeOK /\ BusyMeansUnderWay /\ FinishedFlowsClose

\* No stake is refused that the displayed balance covered (SlotGame.tsx:13: "the
\* UI never offers a stake the backend would reject"), unless the ledger fell
\* after the balance that capped it was read.
RefusedOnlyIfFallen ==
    [][\A s \in Spin : play[s] = "post" /\ play'[s] = "refused" => fell]_vars
=============================================================================
