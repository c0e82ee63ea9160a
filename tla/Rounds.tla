------------------------------- MODULE Rounds -------------------------------
(***************************************************************************)
(* The game engine's round (apps/backend, modules/game/engine): validate,  *)
(* pay with the ledger or with a free spin, draw and evaluate, credit the  *)
(* win, grant free spins, save the round, publish it.  The rounds of one   *)
(* player interleave at every await.  The wallet, the bonus table, the     *)
(* seeds and the history are stores of their own: nothing spans two of     *)
(* them.  Every call on one of them is one step, which may fail.  The daily*)
(* reward (modules/bonus) adds to the free spins the rounds take.          *)
(***************************************************************************)
EXTENDS Integers, FiniteSets, Functions

CONSTANTS Round,          \* the play calls of one player
          Stakes,         \* the stakes they may name
          Outcomes,       \* what an evaluation may return
          Funds,          \* the player's ledger balance at the start
          Spins,          \* the player's free spins at the start
          Claim,          \* the claimDaily calls of the player
          Reward,         \* the free spins of a day
          Cooldown,       \* the time between two rewards
          MaxTime         \* bound: when the clock of the model stops

ASSUME StakesArePositive == Stakes \subseteq Nat \ {0}
ASSUME OutcomesAreNatural == Outcomes \subseteq [payout : Nat, spins : Nat]
ASSUME AccountsAreNatural == Funds \in Nat /\ Spins \in Nat
ASSUME RewardsAreNatural == Reward \in Nat /\ Cooldown \in Nat /\ MaxTime \in Nat

VARIABLES pc,         \* the call each round makes next
          order,      \* the request's stake and useFreeSpin
          outcome,    \* what evaluate returned
          bets,       \* the rounds with a bet: row in the ledger
          wins,       \* the rounds with a win: row in the ledger
          spent,      \* the rounds that took one off free_spins
          granted,    \* the rounds that added to free_spins
          saved,      \* the rounds with a row in game_rounds
          published,  \* the rounds in the event queue
          answer,
          now,        \* the clock of the database
          claim,      \* where each claimDaily is
          at          \* when it was rewarded

stores == <<bets, wins, spent, granted, saved, published>>
rounds == <<pc, order, outcome, stores, answer>>
daily == <<now, claim, at>>
vars == <<rounds, daily>>

Point == {"validate", "pay", "bet", "draw", "win", "grant", "save", "publish", "end"}
Order == [stake : Stakes, free : BOOLEAN]
NoPrize == [payout |-> 0, spins |-> 0]
Never == -1

TypeOK ==
    /\ pc \in [Round -> Point]
    /\ order \in [Round -> Order]
    /\ outcome \in [Round -> Outcomes \cup {NoPrize}]
    /\ bets \subseteq Round /\ wins \subseteq Round
    /\ spent \subseteq Round /\ granted \subseteq Round
    /\ saved \subseteq Round /\ published \subseteq Round
    /\ answer \in [Round -> {"none", "ok", "error"}]
    /\ now \in 0..MaxTime
    /\ claim \in [Claim -> {"idle", "update", "ok", "refused", "error"}]
    /\ at \in [Claim -> {Never} \cup 0..MaxTime]

Init ==
    /\ pc = [r \in Round |-> "validate"]
    /\ order \in [Round -> Order]
    /\ outcome = [r \in Round |-> NoPrize]
    /\ bets = {} /\ wins = {} /\ spent = {} /\ granted = {}
    /\ saved = {} /\ published = {}
    /\ answer = [r \in Round |-> "none"]
    /\ now = 0
    /\ claim = [c \in Claim |-> "idle"]
    /\ at = [c \in Claim |-> Never]

---------------------------------------------------------------------------
Stake(r) == order[r].stake
Payout(r) == outcome[r].payout

Total(f(_), R) == SumFunction([r \in R |-> f(r)])

Balance == Funds - Total(Stake, bets) + Total(Payout, wins)

Rewarded == {c \in Claim : at[c] # Never}

FreeSpins ==
    Spins - Cardinality(spent) + Total(LAMBDA r : outcome[r].spins, granted)
          + Reward * Cardinality(Rewarded)

Goto(r, point) ==
    /\ pc' = [pc EXCEPT ![r] = point]
    /\ UNCHANGED <<order, answer>>

Answer(r, what) ==
    /\ pc' = [pc EXCEPT ![r] = "end"]
    /\ answer' = [answer EXCEPT ![r] = what]
    /\ UNCHANGED order

\* A call that fails answers an error and ends the round where it is.
Fails(r) ==
    /\ Answer(r, "error")
    /\ UNCHANGED outcome

\* An unknown game, a stake of zero or bad params end the call here.
Validate(r) ==
    /\ pc[r] = "validate"
    /\ Goto(r, "pay") \/ Answer(r, "error")
    /\ UNCHANGED <<outcome, stores>>

\* Mutant: the balance of free spins is not part of the update's condition.
UseFreeSpinUnchecked(r) ==
    /\ pc[r] = "pay" /\ order[r].free
    /\ spent' = spent \cup {r} /\ Goto(r, "draw")
    /\ UNCHANGED <<outcome, bets, wins, granted, saved, published>>

UseFreeSpin(r) ==
    /\ pc[r] = "pay" /\ order[r].free
    /\ IF FreeSpins > 0
       THEN spent' = spent \cup {r} /\ Goto(r, "draw")
       ELSE Answer(r, "error") /\ UNCHANGED spent
    /\ UNCHANGED <<outcome, bets, wins, granted, saved, published>>

UseFreeSpinFails(r) ==
    /\ pc[r] = "pay" /\ order[r].free
    /\ Fails(r)
    /\ \/ UNCHANGED spent
       \/ FreeSpins > 0 /\ spent' = spent \cup {r}
    /\ UNCHANGED <<bets, wins, granted, saved, published>>

\* The wallet reads the balance in one step and writes the row in another, so
\* the bets of two rounds may both find the same funds.
CheckFunds(r) ==
    /\ pc[r] = "pay" /\ ~order[r].free
    /\ IF Stake(r) <= Balance THEN Goto(r, "bet") ELSE Answer(r, "error")
    /\ UNCHANGED <<outcome, stores>>

\* The bet's key is new in every round, so the wallet never finds it used.
Bet(r) ==
    /\ pc[r] = "bet"
    /\ bets' = bets \cup {r}
    /\ Goto(r, "draw")
    /\ UNCHANGED <<outcome, wins, spent, granted, saved, published>>

\* Mutant: a bet whose result is an error is played all the same.
BetFailsUnnoticed(r) ==
    /\ pc[r] = "bet"
    /\ Goto(r, "draw")
    /\ UNCHANGED <<outcome, stores>>

\* The wallet cannot be reached, or wrote the row and its answer is lost.
BetFails(r) ==
    /\ pc[r] = "bet"
    /\ Fails(r)
    /\ bets' \in {bets, bets \cup {r}}
    /\ UNCHANGED <<wins, spent, granted, saved, published>>

\* The draw and the evaluation it seeds; what is not won is not called for.
Draw(r) ==
    /\ pc[r] = "draw"
    /\ \E o \in Outcomes :
         /\ outcome' = [outcome EXCEPT ![r] = o]
         /\ Goto(r, IF o.payout > 0 THEN "win" ELSE IF o.spins > 0 THEN "grant" ELSE "save")
    /\ UNCHANGED stores

DrawFails(r) ==
    /\ pc[r] = "draw"
    /\ Fails(r)
    /\ UNCHANGED stores

\* Mutant: a win leaves no room for free spins in the same round.
WinThenSave(r) ==
    /\ pc[r] = "win"
    /\ wins' = wins \cup {r}
    /\ Goto(r, "save")
    /\ UNCHANGED <<outcome, bets, spent, granted, saved, published>>

Win(r) ==
    /\ pc[r] = "win"
    /\ wins' = wins \cup {r}
    /\ Goto(r, IF outcome[r].spins > 0 THEN "grant" ELSE "save")
    /\ UNCHANGED <<outcome, bets, spent, granted, saved, published>>

WinFails(r) ==
    /\ pc[r] = "win"
    /\ Fails(r)
    /\ wins' \in {wins, wins \cup {r}}
    /\ UNCHANGED <<bets, spent, granted, saved, published>>

Grant(r) ==
    /\ pc[r] = "grant"
    /\ granted' = granted \cup {r}
    /\ Goto(r, "save")
    /\ UNCHANGED <<outcome, bets, wins, spent, saved, published>>

GrantFails(r) ==
    /\ pc[r] = "grant"
    /\ Fails(r)
    /\ granted' \in {granted, granted \cup {r}}
    /\ UNCHANGED <<bets, wins, spent, saved, published>>

\* Mutant: a round that wins nothing is not kept in the history.
SaveWinsOnly(r) ==
    /\ pc[r] = "save"
    /\ saved' = IF r \in wins THEN saved \cup {r} ELSE saved
    /\ Goto(r, "publish")
    /\ UNCHANGED <<outcome, bets, wins, spent, granted, published>>

Save(r) ==
    /\ pc[r] = "save"
    /\ saved' = saved \cup {r}
    /\ Goto(r, "publish")
    /\ UNCHANGED <<outcome, bets, wins, spent, granted, published>>

SaveFails(r) ==
    /\ pc[r] = "save"
    /\ Fails(r)
    /\ saved' \in {saved, saved \cup {r}}
    /\ UNCHANGED <<bets, wins, spent, granted, published>>

\* Mutant: a status no caller knows.
PublishUnknown(r) ==
    /\ pc[r] = "publish"
    /\ published' = published \cup {r}
    /\ Answer(r, "published")
    /\ UNCHANGED <<outcome, bets, wins, spent, granted, saved>>

\* publish never throws: an event that cannot be queued is logged and gone.
Publish(r) ==
    /\ pc[r] = "publish"
    /\ \/ published' = published \cup {r}
       \/ UNCHANGED published
    /\ Answer(r, "ok")
    /\ UNCHANGED <<outcome, bets, wins, spent, granted, saved>>

---------------------------------------------------------------------------
(* The daily reward.                                                       *)

\* The upsert that sees to it that the player has a row.
EnsureProfile(c) ==
    /\ claim[c] = "idle"
    /\ claim' = [claim EXCEPT ![c] = "update"]
    /\ UNCHANGED <<now, at>>

\* The time since the last reward, by the database's clock.
CooldownIsOver == \A c \in Rewarded : at[c] <= now - Cooldown

\* Mutant: the time is checked when the call arrives, not in the update.
ClaimUnchecked(c) ==
    /\ claim[c] = "update"
    /\ claim' = [claim EXCEPT ![c] = "ok"] /\ at' = [at EXCEPT ![c] = now]
    /\ UNCHANGED now

\* One conditional UPDATE adds the reward, counts the streak, sets the time.
ClaimDaily(c) ==
    /\ claim[c] = "update"
    /\ IF CooldownIsOver
       THEN claim' = [claim EXCEPT ![c] = "ok"] /\ at' = [at EXCEPT ![c] = now]
       ELSE claim' = [claim EXCEPT ![c] = "refused"] /\ UNCHANGED at
    /\ UNCHANGED now

\* A statement fails, or its answer is lost.
ClaimFails(c) ==
    /\ claim[c] \in {"idle", "update"}
    /\ claim' = [claim EXCEPT ![c] = "error"]
    /\ \/ UNCHANGED at
       \/ claim[c] = "update" /\ CooldownIsOver /\ at' = [at EXCEPT ![c] = now]
    /\ UNCHANGED now

Tick == now < MaxTime /\ now' = now + 1 /\ UNCHANGED <<claim, at>>

---------------------------------------------------------------------------
\* The backend stops: the calls in service end where they are, unanswered.
Restart ==
    /\ \/ \E r \in Round : pc[r] \notin {"validate", "end"}
       \/ \E c \in Claim : claim[c] = "update"
    /\ pc' = [r \in Round |-> IF pc[r] = "validate" THEN "validate" ELSE "end"]
    /\ claim' = [c \in Claim |-> IF claim[c] = "update" THEN "error" ELSE claim[c]]
    /\ UNCHANGED <<order, outcome, stores, answer, now, at>>

Step(r) ==
    \/ Validate(r)
    \/ UseFreeSpin(r) \/ UseFreeSpinFails(r)
    \/ CheckFunds(r) \/ Bet(r) \/ BetFails(r)
    \/ Draw(r) \/ DrawFails(r)
    \/ Win(r) \/ WinFails(r)
    \/ Grant(r) \/ GrantFails(r)
    \/ Save(r) \/ SaveFails(r)
    \/ Publish(r)

Daily ==
    \/ Tick
    \/ \E c \in Claim : EnsureProfile(c) \/ ClaimDaily(c) \/ ClaimFails(c)

Next ==
    \/ Restart
    \/ \E r \in Round : Step(r) /\ UNCHANGED daily
    \/ Daily /\ UNCHANGED rounds

Spec == Init /\ [][Next]_vars

\* A round in service goes on: every await is answered or fails.
FairSpec == Spec /\ \A r \in Round : WF_vars(Step(r) /\ UNCHANGED daily)

---------------------------------------------------------------------------
(* Properties.                                                             *)

Paid == bets \cup spent

\* Nothing is won, granted or written to the history without a stake, one round
\* is never paid twice over, from the ledger and with a free spin, and no spin pays
\* for two rounds: however they race for the last, the count stays above zero.
\* The state is well typed.
PrizesArePaidFor ==
    /\ TypeOK
    /\ wins \cup granted \cup saved \subseteq Paid
    /\ bets \cap spent = {}
    /\ FreeSpins >= 0

\* However claims race, fail and are made again, two rewards are a cooldown
\* apart; who is told of a reward has it, and who is refused has none.
RewardsKeepTheCooldown ==
    /\ \A c, d \in Rewarded : c # d => at[c] + Cooldown <= at[d] \/ at[d] + Cooldown <= at[c]
    /\ \A c \in Claim : /\ claim[c] = "ok" => c \in Rewarded
                        /\ claim[c] = "refused" => c \notin Rewarded

\* A round in the history is settled: its win is in the ledger and its free
\* spins are granted.  Who is told "ok" finds the round in the history, and
\* what is published is there too.
HistoryIsSettled ==
    /\ \A r \in saved : /\ outcome[r].payout > 0 => r \in wins
                        /\ outcome[r].spins > 0 => r \in granted
    /\ published \cup {r \in Round : answer[r] = "ok"} \subseteq saved
=============================================================================
