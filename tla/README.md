# Verification of the casino: TLA+ models, TLC runs, TLAPS proofs

This directory models the parts of the casino whose correctness depends on the
order of steps: the wallet's ledger, the on-chain deposit listener, the withdraw
saga, the provably-fair seeds, the round of a game with its free spins and daily
rewards, and the login sessions; the start of the services with their migrations, and
the event queue; the API client, the cashier, the slot cabinet and the fairness panel
of the browser; and the two slot games, whose correctness is a matter of tables and
boundaries. Each part is a module of its own. TLC checks every module on a small
instance; TLAPS proves the safety properties of the runs for every value of the
constants, in modules `...Proofs` beside the models.

Paths below are relative to `src/`; `backend/` is `apps/backend/src/modules/`,
`wallet/` is `apps/wallet/internal/ledger/`.

## 1. The system

```
 browser (Next.js)  --HTTP, JWT-->  backend (NestJS)  --HTTP-->  wallet (Go)
      |                               |    |   |                    |
      | deposit (wallet tx)           |    |   +-- Redis queue      +-- Postgres:
      v                               |    +------ Postgres:            ledger_entries
   CasinoVault (EVM)  <--poll, send---+        seeds, rounds, bonuses,
                                               tokens, deposits, withdrawals
```

| component | code | state | operations |
|---|---|---|---|
| Wallet ledger | `wallet/app/service.go`, `adapters/httpapi/handler.go`, `adapters/postgres/repository.go`, `domain/` | `ledger_entries`, append-only, unique idempotency key; the balance is a sum over it, floored at zero | bet, win, rollback, balance |
| Deposit listener | `backend/onchain/onchain-listener.service.ts`, `providers/postgres-onchain.data-provider.ts`, `units.ts` | `onchain_cursor`, `onchain_deposits`; two flags that keep a timer from overlapping itself | poll, reconcile, creditDeposit |
| Withdraw saga | `backend/onchain/onchain-withdraw.service.ts`, `sendWithdrawal` of the listener | `onchain_withdrawals` | withdraw |
| CasinoVault, ChipToken | `apps/contracts-evm/contracts/` | the vault's token balance | deposit, withdraw |
| Provably-fair seeds | `backend/provably-fair/` | `pf_seeds`, one active row per player by a partial unique index | commitment, draw, rotate, reveal, verify |
| Game engine | `backend/game/engine/`, `backend/game/providers/` | `game_rounds` | play, history |
| Bonus economy | `backend/bonus/` | `player_bonuses` | daily claim, free spins |
| Slot games | `backend/game/games/`, `engine/rng.ts` | none: pure functions of seed, nonce, params | evaluate |
| Sessions | `backend/auth/` | nonces in memory, `refresh_tokens` | nonce, verify, refresh, logout |
| Event bus, reporting | `apps/backend/src/shared/events/` | a queue of jobs in Redis, with attempts and a failed set | publish, handle, retry |
| API client, session | `apps/frontend/src/lib/api.ts`, `auth.ts`, `app/session-provider.tsx` | a token per tab and one in local storage, the refresh cookie, one shared refresh per tab | request, refresh, sign in, sign out, reload |
| Cashier | `lib/use-chain.ts`, `chain-actions.ts`, `components/cashier/` | `busy`, the panel `txFlow`, the displayed balance | faucet, deposit, withdraw, close |
| Slot cabinet | `lib/use-spin.ts`, `components/slot/` | the spin's phase and window, each reel's strip and animations, the celebration's timers | spin, reveal, loop, stop |
| Fairness panel | `components/verify/Verify.tsx`, `lib/fair-verify.ts` | the commitment shown, the report of the last check | fetch, reveal and recompute |
| Lobby, pages | `apps/frontend/src/` | none that outlives a view | show |
| Start and migrations | `apps/backend/src/main.ts`, `shared/db/migrate.ts`, `apps/wallet/cmd/server/`, `wallet/adapters/postgres/migrate.go`, `infra/migrations/` | `schema_migrations` | apply each file once, serve |

**How they interact.** The backend is one Node process: every request is a chain
of awaits, and other requests run at each of them. No transaction spans two
statements anywhere, neither in the backend nor in the wallet. A round calls in
turn the bonus table or the wallet, the seeds, the wallet again, the bonus table,
the history and the queue; a withdrawal calls the wallet, the table, the chain,
the table and perhaps the wallet again; the listener goes from the chain to the
table, the wallet and the table. What makes those sequences safe or not is the
idempotency key of each wallet call, the unique indexes, conditional UPDATEs, and
the order of the steps.

**What is hard.**

- *Interleaving*: bets between a balance check and an insert; poll and reconcile
  on one deposit; draws, rotations and reveals on one seed; two rounds on one free
  spin; two refreshes with one token.
- *Failure between two stores*: any call may fail before or after it took effect,
  and the process may stop. Some sequences have a pass that resumes them
  (deposits), others do not (rounds, withdrawals).
- *Delivery*: callers retry with the same key; a transaction's answer is lost
  while the transaction is not. A tab sends a request again after it refreshed its
  session; every tab and request of a browser shares one cookie that works once. An
  event is published once and handled again until it succeeds or is given up.
- *Restarts*: the services share one database, start together and are started again
  when they exit.
- *Stale reads*: the browser compares, offers and announces by a balance that was
  read some seconds ago.
- *The chain*: heads that are dropped, transactions that revert when they are
  executed although they passed the gas estimate.

**What makes each component correct.**

| component | correct means |
|---|---|
| Wallet | a key is applied once; a reversal mirrors one row; a 200 is true; bets are covered |
| Deposits | only final deposits are credited, each once and in full, none is skipped, all are credited in the end |
| Withdrawals | ledger and vault agree; every debit is paid or refunded; the answer is true |
| Seeds | one active seed; no outcome twice; a revealed seed is never used again; every played seed is told |
| Rounds | prizes need a stake; the history holds settled rounds; a stake taken becomes a round; free spins never go below zero |
| Sessions | a challenge logs in once; a token is replaced, not multiplied; reuse ends the family |
| Bonus | two rewards are a cooldown apart, however claims race; who is told of a reward has it |
| Slots | lines pay their longest runs; wilds never hurt; cells follow the weights; the figures shown are the tables' |
| API client | a request is carried out once, comes back, and is made for the player shown; expiry is hidden; the browser is not taken for a thief |
| Cashier | what its panel says has happened; an allowance suffices; buttons come back; no stake is offered that the balance shown does not cover |
| Cabinet | reels that stand show the last round; reels that are awaited spin; every result is reached; the celebration over a win is that win's |
| Fairness panel | "provably fair" is said of genuine rounds only, "failed" of a genuine one only if its seed was retired before; the hash shown is the one in use |
| Start and migrations | each file is executed once and recorded with it; who serves has its tables; everyone serves in the end |
| Event bus | a written event is reported, in the failed set, in the log, or gone with the process that produced it |

## 2. Modules

| module | models | source lines per |
|---|---|---|
| `Journal` | one row, keys, reversal, balance, and the abstract contract of the ledger | schema, `entry.go`, `repository.go` |
| `Ledger` | the request handlers of the wallet, repository call by repository call | `service.go`, `handler.go` |
| `Deposits` | the chain, poll, reconcile, the wallet as they see it | `onchain-listener.service.ts` |
| `Withdrawals` | the withdraw saga and the vault | `onchain-withdraw.service.ts`, `CasinoVault.sol` |
| `Seeds` | the SQL statements of `pf_seeds` and the requests made of them | `backend/provably-fair/` |
| `Commitments` | what the seeds' contract promises, one step per operation | `provably-fair.contract.ts`, `seed-data-provider.contract.ts` |
| `Rounds` | the round's life cycle over five stores, and the daily reward | `game-engine.service.ts`, `backend/bonus/` and the stores they call |
| `Slots` | both games as functions of random values, stake and params, and the engine's checks before them | `game/games/`, `engine/rng.ts`, the frontend's paytable panel |
| `Sessions` | challenges, refresh tokens, rotation, reuse detection | `backend/auth/` |
| `Client` | tabs of one browser, their tokens and cookie, the shared refresh, and the server's sessions as they see them | `lib/api.ts`, `lib/auth.ts`, `session-provider.tsx`, `auth.controller.ts` |
| `Cashier` | calls of the cashier, their panel, the chain's transactions in order, the ledger as the page sees it | `lib/use-chain.ts`, `chain-actions.ts`, `components/cashier/`, `SlotGame.tsx` |
| `Cabinet` | the spin hook and the reels over frames and timers | `lib/use-spin.ts`, `Reel.tsx`, `SlotCabinet.tsx` |
| `WinFX` | the celebration's effect and its two timers | `WinFX.tsx`, `SlotCabinet.tsx` |
| `Verify` | the fairness panel: the query, the check and its report, over `Commitments` | `Verify.tsx`, `fair-verify.ts`, `providers.tsx` |
| `PlayPage` | `Cabinet`, `WinFX` and `Verify` on one spin hook | `game-provider.tsx`, `SlotGame.tsx` |
| `Migrations` | processes that start and apply their files to one database | `migrate.ts`, `migrate.go`, `server/main.go`, `main.ts` |
| `Events` | producers, the queue, workers and the subscriber | `bullmq-event-bus.ts`, `events.module.ts`, `reporting.subscriber.ts` |
| `Services` | `Migrations` and `Events` under one supervisor | `docker-compose.yml`, `main.ts` |
| `LedgerProofs`, `SeedsProofs`, `SessionsProofs`, `ServicesProofs`, `ClientProofs` | the inductive invariant of the module, the lemmas it rests on, and the theorems (section 4) | |
| `RoundsProofs` | the same for `Rounds` and `Slots`, after the theory of finite sums both need | |
| `OnchainProofs` | the same for `Deposits` and `Withdrawals` | |
| `PageProofs` | the same for `PlayPage` and `Cashier` | |
| `MC...` | the instance of each module, or composition, that TLC checks | |

In every module a *step* is what the code does between two awaits (or, in the
wallet, one repository call): a statement the database executes atomically, with
the control that follows from its answer. `pc` says which step a request makes
next. A failing call has an action of its own (`...Fails`, `StatementFails`,
`StoreFails`), with the disjuncts "it never took effect" and "it took effect and
the answer is lost"; both are then handled as the code's catch or return does.

### Journal and Ledger

`journal` is `ledger_entries` in insertion order. A key is a caller's name with a
number of `rollback:` prefixes, since `reversalKey` prefixes the target's key and
a reversal is itself a row that can be rolled back. `Ledger` follows
`apply` and `Rollback`: `CheckSeen` is HasOp, `CheckFunds` the balance read of a
bet, `AppendEntry` the insert with its unique index, `FindByKey` and
`CheckReversed` the two reads of a rollback, `ReadBalance` the read every success
ends with. A `Request` is a slot that serves one command after another, so that
|Request| is how many are in flight together; commands are taken from `Command`
any number of times, which is what a retrying caller does. `StoreFails` stands for
every store error, a cancelled context and a crash of the service, which is every
request in flight failing.

`Journal`'s specification is abstract: the journal grows one row at a time, by a
fresh key, and a reversal's key holds only the mirror image of a row. `Ledger`
implements it (`JournalSpec`, a property of the run and a theorem).

### Deposits

`block`, `head`, `tallest` are the chain: `Mine` adds a block with any of the
pending transactions, `Reorg` drops blocks, to at most `ReorgDepth` below the
greatest height. `ReorgsAreShallow` assumes that this is within
`ONCHAIN_CONFIRMATIONS`, which is what that setting is for. `poll` and `reconcile`
are two workers of one process, each with its local variables `todo`, `current`
and (poll's) `safeHead`, which die with the pass. The order of a pass's deposits
is left open. The wallet is `ledger`, a set of keyed rows with the idempotent
append that `Ledger` proves; `CreditCollides` is the one case its interleaving
shows here: both passes find the key unused and one insert is refused.

### Withdrawals

Every call of `withdraw` makes an id of its own and so an idempotency key of its
own. `Debit`, `CreateRow`, `Send`, `MarkSent` are the way that succeeds,
`MarkFailed` and `Refund` the two nested catches. `Send` checks the vault, as
viem's gas estimate does, and hands the transaction to the chain; `Execute` pays or
reverts later. `met` is a history variable: the failures each call has met. It
lets the properties name exactly the failures after which ledger and vault part.
Bets and wins of the wallet are single steps here, as the interleaving inside the
wallet is `Ledger`'s subject.

### Seeds

A row of `pf_seeds` is named by its index, which stands for the seed and its hash.
`FindActive` and `CreateActive` are `ensureActive`, `DrawNonce` the UPDATE ...
RETURNING of a draw, `RevealActive` that of reveal and rotate. Each request is of
any kind and made once.

`Commitments` is the contract the service's interface states: a commitment, a draw, a
rotation or reveal of a player is one step, a draw takes the active seed's next nonce,
and what has been told is no longer active, so that it is never drawn from again.
`Seeds` implements it: `Handed` and `Told`, read off the answers, are the contract's
`handed` and `told`, and every statement of a request is one of its steps or none
(`CommitmentsSpec`). A statement whose answer is lost is a step too, with nothing
handed or told. The fairness panel is modelled over the contract, not over the
statements.

### Rounds

The stores are sets of the rounds that wrote to them, so that balances are
derived, as in the wallet. `Outcomes` is what an evaluation may return; it does
not depend on the stake, which is so in the 5x3 slot, where line bet and lines are
params of their own. The wallet's bet is two steps, `CheckFunds` and `Bet`, as it
is in `Ledger`. `Restart` ends every round in service where it is.

The free spins of the player are derived too: what there was, less `spent`, plus
`granted`, plus a `Reward` for every claim that was rewarded. The row of
`player_bonuses` is written by three single UPDATEs (use, grant, claim), each of
which is one step on that sum. A daily claim is `EnsureProfile`, the upsert, and
`ClaimDaily`, the conditional UPDATE by the database's clock `now`; `at` is when
each claim was rewarded, of which `last_daily_at` is the latest.

### Slots

A round's stream gives numbers in [0, 1) that are multiples of 2^-52; here they are
integers below `Resolution`, and comparisons are multiplied out. Weights, strips,
lines and paytables are the source's own. The evaluators are functions from the
drawn values to the result `evaluate` returns; the loops over cells and weights are
recursive functions, the sums over lines the community modules' `SumFunction`. The
steps are `Refuse` (unknown game, stake of zero, params out of bounds),
`PlayClassic` and `PlayVideo`. The hash that makes the stream is left out: the
values may be any.

The frontend has tables of its own (`lib/slot.ts`, a "mirror of the backend's
slot.config.ts"), and they are definitions of their own here: `PanelSymbols`,
`PanelWeights`, `PanelPays`, `PanelLines`, and `MinBet`, the bet bar's. From the backend
the page has a grid, and of each win the line's number and its amount; `LitLines` are
the lines that the cabinet lights up, none if the payout is zero. `PanelReturn` is the
closed form of the frontend's `computeRTP` on its own weights and pays, `ExactReturn` the
enumeration of the calibration script on the backend's. `PageTellsTheRound` compares the
two sides round by round: a table recalibrated on one side, lines listed in another
order or a least bet below the number of lines break it.

Most of the properties depend on the tables: that scatters are reels, which the payout
for three to five of them relies on, is so because no strip shows two within
three places; what a run pays as and its ceiling are read off the paytables.

### Sessions

One player's `nonces` and `tokens`. `Verify` consumes its nonce without an await
(`NonceStore` is in memory). `Refresh` presents any token ever issued, at any
time: the browser that retries and whoever stole the cookie. `killed` is a history
variable, the number of rows at the last detected reuse. `Expire` and `Forget` may
happen at any time. Signatures, JWTs and the player's upsert are left out.

### Client

`token[t]` is the module variable of tab `t`, `stored` the local storage and `cookie`
the refresh cookie that all tabs share; `GetToken` and `SetToken` are the code's,
with the fall back to the storage. A request is sent (`Send`) with the token of that
moment, answered or refused by the server, and on a 401 starts or joins its tab's
refresh (`TryRefresh`, `ShareRefresh`); `RefreshSucceeds`, `RefreshRefused` and
`RefreshLost` are the three ends of `tryRefresh`, `Settle` is what its awaiters do
next: the one replay or the error. `Forget` is the `finally` that empties
`refreshing`, a step after the promise's answer. Every `rawFetch`, one to /auth too, asks
`getToken`, which keeps in memory what it finds in the storage, where another tab may have
put it (`CacheToken`).

`Connect`, `Disconnect` and `Reload` are those of the session provider. A sign-in goes
from `Connect` (the challenge and the wallet's prompt) through `Sign` (the call with the
signature) to `SignedIn`. It can fail at each of them: `NotSigned` is a challenge that
fails or a signature that is rejected, before there is a call; `ServeVerify` refuses a
challenge that is gone or a signature that is not the player's; `AuthFails` is an answer
that is lost. All end in the one catch, which sets "disconnected" and an error and touches
no token: `status` is "failed" then. The server is one action per route
(`ServeVerify`, `ServeRefresh`, `ServeLogout`, `ServeRequest`), each of which is one
step: what happens between its statements is `Sessions`' subject. `met` names what
went wrong in a behaviour, so that the properties can say exactly what they need.

### Cashier

A call of the cashier (`Op`) is a faucet, a deposit or a withdrawal and goes through
the awaits of `useChain`: the allowance's read, each transaction's submission and
receipt, the five polls of the balance. `busy` is the one flag and `flow` the one
panel all calls share; `Patch` writes a step by key whichever call's panel it is.
`pool` is the sequence of the account's transactions, which the chain executes in
their order; `allowance` and `chips` are its token's. The backend appears as what it
does to `balance`: `Credit`, `Debit`, `Release`, `ServePlay`. `Raise` is any other
rise. Either writer is modelled, by an action each where they differ (the demo's
takes a reverted transaction for mined).

### Cabinet

`FreeSpin` and `Decelerate` are a reel's two effects with React's order of clean-ups
and effects; what they ask of `requestAnimationFrame` is in `frames`, what runs on
the element in `running`. `Frame` is the browser's next frame, which a hidden page
does not get, while timers and answers go on there. A strip is named by the round it
ends on, filler by `Filler`; `atEnd` is the reel's offset. `counting`, `tag` and
`counted` are the count-up of a win's payout, a chain of ticks that the next spin does
not cancel, only the next win.

### WinFX, Verify and PlayPage

The three are on one page and share the spin hook, whose `lastRound` the panel checks
and whose win the celebration is for. `PlayPage` conjoins each action of the hook with
what it means to the other two: `Spin` takes the win off the screen, for which the
effect of `WinFX` runs again when that win was big (`Clear`); `Reveal` sets the round the
panel may check; `Serve` is the backend's draw of a posted round, a step of the
seeds' contract.

In `Verify` a seed's hash is its index and an outcome is the pair it derives from, so
that comparing hashes and outcomes is comparing those. `forged` is a set of rounds
whose answer is not their draw's outcome: what a verifier is for. `query` is the
commitment's request with its one retry; `check` goes through `handleVerify`, which
closes over the round of the click (`of`) and gets the seed that is active when its
request arrives (`got`). `Other` is any other tab or client of the player.
`unseen` is a history variable: whether something has happened to the seeds that the
page was not told of.

### Migrations, Events and Services

A process (the wallet or a backend) goes from `down` through the statements of its
migration runner to `serving`. Postgres is modelled where the statements meet: CREATE
TABLE IF NOT EXISTS looks and then creates, so that one of two at once is refused; a
file whose objects another open transaction is creating waits for its end (`IsHeld`,
`StopWaiting`); the row's key refuses a second record. Any error ends the process, as
`log.Fatalf` and the rejected `bootstrap` do, and `Crash` ends it anywhere.

In `Events` a producer writes and then publishes: `Add` is the job accepted by the queue,
`Publish` its answer, `PublishFails` an error with or without the job. `job` is the state of
the job in the queue, `from` the backend that produces it, `by` the one whose worker has it. BullMQ is modelled from its
options in `events.module.ts`, and its default of one more try for a job whose worker
died. `Services` puts the two together: producers and workers run in backends that
serve, and a backend that stops takes them with it (`Dies`).

## 3. Runs

| run | checks | shows |
|---|---|---|
| `ledger_concurrent` | `TypeOK KeyAppliedOnce AckedExactly JournalSpec SerialBetsCovered` | two requests in flight, retried, failing at any call |
| `ledger_doublespend` | `BetsCovered` (violated) | two bets overdraw the player |
| `deposits_passes` | `CreditsAreTrue NothingSkipped ConfirmedIsCredited` | poll, reconcile, one reorganisation, two failures or restarts |
| `withdrawals_faults` | `AnswersAreTrue LedgerMatchesVault EveryDebitSettles` | three withdrawals, eight kinds of failure |
| `seeds_requests` | `WellFormed NoOutcomeTwice EveryDrawIsCounted CommitmentsSpec` | four requests of two players, any kinds, any failures |
| `rounds_faults` | `PrizesArePaidFor RewardsKeepTheCooldown HistoryIsSettled` | two rounds and two daily claims, any call failing |
| `sessions_requests` | `SessionsAreEarned OneLiveTokenPerLogin TheftEndsFamily` | two requests in flight on up to four tokens |
| `slots_rounds` | `WinsAreOnTheGrid CellsFollowWeights PageTellsTheRound` | 65 thousand rounds of both games and the calls that are refused |
| `client_tabs` | `CallsComeBackOnce ExpiryStaysHidden HonestBrowserIsNoThief TabsAreWhatTheyShow` | two tabs and two requests, tokens that expire, one failure: an answer that is lost, a sign-in that fails or is refused, a cookie that expires |
| `cashier_calls` | `ConfirmedCreditIsTrue FlowTellsTheTruth NothingIsLeftBusy RefusedOnlyIfFallen` | two calls side by side and a spin, one failure anywhere |
| `page_halves` | `ResultIsOneRounds SpinningReelsLoop VerifierIsTrue ResultsAreReached` | three spins on a page that is hidden at any time; two spins and their checks, with other tabs, failures and forged answers |
| `services_restarts` | `SchemaIsWhole EventsAreAccounted EveryoneServes WrittenEventsEnd` | a wallet and two backends that start together and crash, and an event whose publish, handler and worker fail |

Some properties are conjunctions of named parts, each stated and commented beside
it: `CreditsAreTrue` is `TypeOK`, `CreditedIsFinal` and `MarkedIsPaid`; `LedgerMatchesVault`
has `PaidIsDebited`; `WellFormed` is `TypeOK` and `OneActivePerPlayer`;
`EveryDrawIsCounted` is `EveryNonceHasItsDraw` and `RevealCountsEveryDraw`;
`SessionsAreEarned` is `OneLoginPerChallenge` and `RotationRevokesParent`;
`WinsAreOnTheGrid` is `TypeOK`, `RunsAreLongest`, `WildsNeverShorten`,
`ScattersAreReels` and `PayoutHasItsCeiling`; `CallsComeBackOnce` is `TypeOK`, `PlayedOnce` and
`WaitersAreAwaited`; `TabsAreWhatTheyShow` is `ActsForThePlayerShown` and
`SignedOutStaysOut`; `FlowTellsTheTruth` has `ApprovedDepositsGoThrough`;
`NothingIsLeftBusy` is `TypeOK`, `BusyMeansUnderWay` and `FinishedFlowsClose`;
`ResultIsOneRounds` is `TypeOK`, `StopIsTheGrid`, `PayoutIsTheRounds` and
`CelebrationIsTheWins`; `VerifierIsTrue` is `TypeOK`, `ReportIsTrue` and
`ShownHashIsInUse`. `AnswersAreTrue`, `PrizesArePaidFor`, `SessionsAreEarned`,
`SchemaIsWhole` and `EventsAreAccounted` have their module's `TypeOK`. Most parts have
mutants of their own.

**Bounds, and why they are enough.**

- *ledger*: two slots. Every hazard of the handlers is a race of two requests, or a
  sequence of requests on one key, which a slot serves without limit. Three keys:
  a win that covers only one of two bets. `MaxNest = 1`: a reversal and the reversal
  of a reversal; deeper nesting repeats the step. The proofs have none of these
  bounds.
- *deposits*: two transactions, in one block or in two; three blocks with one
  confirmation make two ranges to scan; one reorganisation that moves a transaction
  to another block; two faults, so that the retry of a failed pass may fail too.
- *withdrawals*: three withdrawals of 2, 2 and 3 from a balance of 5 and a vault of
  3: any two are debited, the vault covers one, a refund makes room for the third.
- *seeds*: three requests of one player suffice for a request that finds a seed,
  one that retires it and one that replaces it; the fourth belongs to another player.
- *rounds*: two rounds race for every store; one free spin and evaluations that win
  nothing, money, spins, or both, so a spin that was won is raced for too. Two daily
  claims, a cooldown of two ticks and a clock that stops at two: claims that race for
  one reward, a claim a tick too early, and one in time. 1.3 million states.
- *sessions*: two requests, two logins, four tokens: a rotation, its reuse, and a
  login that goes on beside it.
- *slots*: values in hundredths, so that the weights' ends, which are whole
  hundredths, are values themselves: 29 and 30 lie on both sides of the first end,
  96 is the first that draws a wild. All 3^9 streams of the three fill the classic
  grid with cherries, lemons and wilds in every arrangement. The 5x3 slot stops each reel at one of five
  places, both ends of the strip, wilds, scatters and crowns, in all 5^5 ways, for
  1 and 20 lines and the greatest line bet; 0, 21, 101 and what is no integer are
  refused. Classic stakes are the page's least, one below it, one that five does not
  divide, and zero. Not covered: the rounding of `float * total` in doubles, which could
  matter only for a value within 2^-52 of a weight's end.
- *client*: two tabs share a cookie, two requests share a refresh or come late for
  it; two players, so that a tab can act for the wrong one; two sessions: a login and
  either its rotation or another login; two calls to /auth at a time, a sign-in that waits
  for its signature counted; and one failure: an answer lost before or after the server
  acted, a sign-in that fails before its call or is refused, or a cookie that expires.
  1.7 million states.
- *cashier*: two calls of any kinds with one or two chips, from a balance of two and
  two chips; one stake of one; two polls for five, as one already races with what
  else raises the balance, and two with the next refresh; one failure. 1.2 million
  states.
- *page*: the cabinet and the panel share only the hook: neither writes what the other
  reads, but for a posted round's draw, which both halves have, so that a behaviour of
  the page is one of each half, and TLC looks at the halves one at a time
  (`MCPlayPage`): the panel's requests are never answered, or no reel is drawn and no
  round wins. The panel's half has two spins, three seeds and two operations of others:
  a round, its check, a seed between, and a check that comes too late.
- *services*: three processes, of which two have one list, with two files; two
  crashes, so that a restart may fail too. One event: events meet only in a worker
  that dies, which treats each alike. Three faults use up the three attempts.
- *cabinet*: three reels as in the code; three spins, so that a spin can follow one
  whose reels had not stopped and one that failed; hidden twice, before and after the
  answer.

**Deadlock.** `Ledger` never stops and is checked for deadlock. The other runs say
`CHECK_DEADLOCK FALSE`: their requests are made once each, or their chain is bounded,
so a behaviour ends when all is done.

**Fairness.** `Deposits!FairSpec`: blocks are mined up to the bound, and both
timers go on. `schedule` and `scheduleReconcile` are set intervals of the process,
each pass clears its flag in a finally, and every await in a pass is answered or
throws; a restart starts the timers again. Failures are bounded by `MaxFaults`, that
is, they stop in the end. `Withdrawals!SagaFairSpec`: a request in
service goes on, since its awaits are answered or throw, and the chain executes what
it was handed. Nothing forces a call to succeed: the failing disjuncts count as
steps. `Cabinet!FairSpec`: a hidden page is shown again, a visible one gets frames,
and a finite animation finishes. Nobody is forced to spin and no answer to come;
`PlayPage!PageFairSpec` adds nothing to it. `Services!FairSpec`: compose restarts what has
exited (`restart: unless-stopped`), the database and the queue answer or fail, a
producer that has written goes on to its publish, and the workers of a backend that
serves take and work on jobs. Crashes are bounded, that is, they stop in the end.

## 4. Proofs

Each `...Proofs` module extends its model, or two that are one subject, and is about any number of requests, players,
tabs, processes or whatever else the model's constants count, of any amounts, and
without the bounds of the run: bounds are constants of which the proofs know that they
are natural numbers. Every model has one inductive invariant, in named parts: `IInv`,
with a theorem `Invariance` (in `LedgerProofs` the lemma `Inductive`) that says
`Spec => []IInv`, in `OnchainProofs`, `PageProofs` and `RoundsProofs` one for each of
their two models. The other theorems follow from it. `Saga...` in `Withdrawals`,
`Page...` in `PlayPage` and `Game...` in `Slots` are the model's `Spec`, `Init` and
`Next`, named so that one module can extend both models.

| module | theorem | states |
|---|---|---|
| `LedgerProofs` | `TypeCorrect` | `Spec => []TypeOK` |
| | `EveryKeyOnce` | `Spec => []KeyAppliedOnce` |
| | `ReversalsAreMirrors` | `Spec => []ReversalsMirror` |
| | `AcknowledgedExactly` | `Spec => []AckedExactly` |
| | `HandlersKeepContract` | `Spec => JournalSpec`, the refinement of `Journal` |
| | `SerialBetsAreCovered` | `Spec => SerialBetsCovered` |
| `SeedsProofs` | `OneActiveSeed` | `Spec => []WellFormed` |
| | `OutcomesDiffer` | `Spec => []NoOutcomeTwice` |
| | `DrawsAreCounted` | `Spec => []EveryDrawIsCounted` |
| | `ImplementsCommitments` | `Spec => CommitmentsSpec`, the refinement of `Commitments` |
| `SessionsProofs` | `SessionsEarned` | `Spec => []SessionsAreEarned` |
| | `LoginsHaveOneToken` | `Spec => []OneLiveTokenPerLogin` |
| | `TheftIsFinal` | `Spec => []TheftEndsFamily` |
| `RoundsProofs` | `PrizesHaveStakes` | `Spec => []PrizesArePaidFor` |
| | `RewardsAreApart` | `Spec => []RewardsKeepTheCooldown` |
| | `HistorySettles` | `Spec => []HistoryIsSettled` |
| | `WinsAreAlwaysOnTheGrid` | `GameSpec => []WinsAreOnTheGrid` |
| | `CellsAlwaysFollowWeights` | `GameSpec => []CellsFollowWeights` |
| | `PageAlwaysTellsTheRound` | `GameSpec => []PageTellsTheRound` |
| `OnchainProofs` | `AnswersTrue` | `SagaSpec => []AnswersAreTrue` |
| | `LedgerAndVaultAgree` | `SagaSpec => []LedgerMatchesVault` |
| | `CreditsTrue` | `Spec => []CreditsAreTrue` |
| | `CursorSkipsNothing` | `Spec => []NothingSkipped` |
| `ServicesProofs` | `SchemaWhole` | `Spec => []SchemaIsWhole` |
| | `EventsAccounted` | `Spec => []EventsAreAccounted` |
| `ClientProofs` | `CallsReturn` | `Spec => []CallsComeBackOnce` |
| | `HonestBrowsersPass` | `Spec => []HonestBrowserIsNoThief` |
| | `ExpiryIsHidden` | `Spec => []ExpiryStaysHidden` |
| | `TabsShowTheTruth` | `Spec => []TabsAreWhatTheyShow` |
| `PageProofs` | `ResultIsAlwaysOneRounds` | `PageSpec => []ResultIsOneRounds` |
| | `SpinningReelsAlwaysLoop` | `PageSpec => []SpinningReelsLoop` |
| | `VerifierIsAlwaysTrue` | `PageSpec => []VerifierIsTrue` |
| | `ConfirmedCreditIsAlwaysTrue` | `Spec => []ConfirmedCreditIsTrue` |
| | `FlowAlwaysTellsTheTruth` | `Spec => []FlowTellsTheTruth` |
| | `NothingIsEverLeftBusy` | `Spec => []NothingIsLeftBusy` |
| | `StakesAreRefusedOnlyIfFallen` | `Spec => RefusedOnlyIfFallen` |

### Why each invariant needs its parts

**Ledger.** `IInv` has the two journal invariants and
- `LocalInv`: what `pc` says about a request's command, and that a rollback's local
  copy is a row with the target's key. Without it an append could be anything.
- `AnswerInv`: whoever is about to read the balance, or has answered 200, has its
  key in the journal; and rows stay, since every step is a `Post`.
- `Provenance`: every row with a caller's key is the row of some command. With
  `KeysNameOneCommand` (a key names one operation) the row under a key is then
  *the* row asked for, which is what `AckedExactly` needs for retries.

`StepIsPost` shows that every step posts one legal row or leaves the journal alone;
`ContractKeepsJournal` that a legal row preserves `KeyAppliedOnce` and
`ReversalsMirror`. The refinement follows from the first, the invariants from both.
`SerialBetsAreCovered` adds `FundsInv`: while only one slot has been used, a bet that is
about to be appended is still covered, since nobody else appends.

**Seeds.** `OnItsWay` says which kinds of request reach which statement, and
`AnswersStand` that a row which was handed out has counted it and a row that was told is
final: the next draw's nonce is beyond every answered one, which is `NoOutcomeTwice`.
`NoncesAreCounted` is the count behind `EveryDrawIsCounted`; it compares cardinalities,
which needs `Ended` to be finite although `Request` may not be: each step ends one
request at most. For the refinement, a statement with one active row is the contract's
step (`OneRowUpdates`), with none it changes nothing, and `OneActivePerPlayer` says that
there are no more.

**Withdrawals.** `Underway` says of every step of a call where its money is: debited or
not, on the chain or not; `Settled` says it of each answer. `PaidIsDebited` is the same of the vault.
No other call can disturb them (`OthersAreUntouched`), as every withdrawal has a key
and a row of its own.

**Sessions.** `RequestsAreEarned` ties a request that is about to write a token to what
earned it: a challenge that is gone and that no other request or row has, or a token that
is revoked already. `ChallengesAreSpent` keeps a challenge from opening a second login.
`PurgeHolds` says that what was there at a detected reuse is revoked. `SerialInv` is
what holds while one slot is used: between `Revoke` and `Create` a login has no live
token, and the token being rotated is younger than the last purge. `TokensEvolve`
(rows stay, and never become valid again) carries all of them over a step.

**Rounds.** `CallsAreMade` says of every point of a round which of its calls have taken
effect; `PrizesInv` that wins, spins and history entries are those of paid rounds, and that
a round paid with money or with a free spin, not both. `ClaimsInv` dates the rewards. That
`FreeSpins` never falls below zero is a statement about a sum over the outcomes of
all rounds, and `CountsAreFinite` makes it one of finitely many. What a sum is
(`SumRemove`, `SumAdd`: one element more adds its value, whichever the fold takes first)
is proved in the first part of the module.

**Slots.** A round is one step, and `GameInv` only says that what it returns is its
game's function of the call and the values drawn, for any resolution and any values.
The work is in what the functions compute.
- *Weights.* `WeightedIndex` is a recursion over six options, which `TakenIs` unrolls:
  what is left after `k` of them is the value less the weights so far. The first that
  is below zero is then the end of the value's share (`IndexIsInShare`).
- *Runs.* `RunOf` says of the loop's state after `i` cells what it has seen: its cells
  are its symbol, which one of them shows, and wilds; it is all `i` of them, unless the
  cell after it ended it. `LongerRuns` carries that over a cell; after five it says that the run
  pays for its own symbol and no other has a longer one (`RunIsLongest`). That wilds
  never shorten a run follows from this alone: the run that was is one of the line with
  the wild.
- *Scatters.* Each strip has one (`StripsAre`) and a window shows three different places
  of a strip (`WindowIsOnStrip`), so cells with a scatter and reels with one are as many
  (`ScattersOnReels`).
- *Ceilings.* A sum of at most `n` numbers up to `b` is at most `n * b` (`SumBound`);
  the line's stake is rounded down, so five of them are within the stake.
- *What the page tells.* `ClassicCellsAre`: a cell is one of the six symbols at any
  resolution; `CopiesAgree`: the page's lines and pays are those of the backend, entry by
  entry. `LinePaysTheThree` is then about one line: it wins if and only if a player sees three of a
  symbol or wilds on it, and as that symbol. From the least bet on a line's
  stake is not zero, so a round with a winning line has a payout (`WinnersPay`), and the
  lines lit up are the winning ones (`LinesAreTold`).
- *Return.* What a line pays depends on its symbols one after the other (`Meet`), so the
  216 outcomes fold into sums of six; the backend's enumeration and the page's closed form
  on the page's tables both come to 945,592 millionths (`PanelIs`).

**Deposits.** `ChainInv` and `HeightsInv` bound the cursor and what poll has read of the
head by the confirmed heights, which `ReorgsAreShallow` keeps out of the reach of
`Reorg`. `FinalInv`: what is recorded, or in the hands of a pass, is in such a block.
`ScanInv`, which `NothingSkipped` needs: while poll is half way through a range, each
deposit of it is recorded, in hand, or still to do; so the cursor may advance only
past what is recorded. `PassInv` says what a pass holds at each point; of reconcile,
that what it lists stays recorded. `PassStep` is what the statements of either pass,
and their failures, have in common; one lemma keeps the invariant over it.

**Services.** `FilesAreHeld`: of two processes in a transaction on one file, the file is
recorded already: the locks of the first make the second wait. `JobsAreCounted`: a job
the queue still works on has attempts left, and was handled once more than it was cut
off with its worker at most. The processes' file lists are any, shared or not.

**Client.** `RequestsInv`, `SharingInv` and `ShowingInv` tie each promise to the call it
waits for; with them a refresh is pending exactly if somebody waits for it. The
conditional properties need an invariant for each condition:
- `CrossInv` and `FinishedInv`: as long as no calls crossed there is one call at a
  time, and requests under way are of connected tabs.
- `CalmInv` (for `HonestBrowserIsNoThief`): as long as no answer was lost and no calls
  crossed, a call is sent with the cookie that is still the browser's when it is served,
  and this cookie is live unless an answer is on its way.
- `QuietInv` (for `ExpiryStaysHidden`): as long as nobody signed out either and the
  cookie has not expired, a refresh succeeds; with `FreshInv`, the token it brings is
  not stale when the replay arrives.
- `PlayersInv` (for `TabsAreWhatTheyShow`): all sessions the browser may still act with
  (`InUse`: cookie, storage, tabs, requests, and refreshes sent or answered) are one player's, the one shown.
- `OutInv`: a tab out of use holds no token, and with none in use nor does the storage.

**The page.** `PageInv` is a half for the panel and one for the slot, and a step of one
half leaves the other alone.
- The panel: `SeedsInv` says that only the last seed may be active, so whatever seed a
  reveal tells, it is none that a later draw can use. `DrawsInv`: a round that was
  answered has its draw, of a seed that is there; `CheckInv`: the seed a check was answered
  is told and not older than its round's, which is the condition of `ReportIsTrue`.
  `HashInv`: a hash on the screen, or the one a query in flight will bring, is the active
  seed's, but for the reasons in `unseen`.
- The slot: `HookInv` ties the phase to the one round that is awaited, being revealed, or
  shown; that there is one makes "the result's" well defined. `ReelsInv` says of a reel
  beside a result where its stop is: a frame away, running, or done with the strip at its
  end; `CountInv` and `FxInv` that count-up and celebration are this result's or left
  over from the click.

**Cashier.** `CallInv` says of every point of a call what has become of its transaction
and its debit, `PoolInv` that the chain holds one transaction of a call at most. The
properties speak of calls that none overlapped, and `AloneInv` is what that buys: such a
call is the only one on the page and the only one in the pool. Then
- `AllowanceInv`: what it approved is there until its deposit is mined.
- `FlowInv`: the panel is its own and as far as the call is (`Tells`, step by step).
- `CreditInv`: the balance has not passed the one at the click but by its own credit,
  which is what `ConfirmedCreditIsTrue` reads off a balance that did.
- `BusyMeansUnderWay` and `FellInv` are inductive beside these; the second bounds every
  stake that was let pass, so that `RefusedOnlyIfFallen` is a step of it.

What a step does to the calls and their transactions is said once, in five shapes (`LegStep`,
`SubmitStep`, `MineStep`, `ClickStep`, `StillStep`), and the parts are proved from those.

### What the proofs assume

The named assumptions of the modules, which TLC evaluates on every run. Most give a
constant its type (`StakesAreDigits`: the DTO lets only digits pass as a stake;
`DrawsAreValues`: a stream's values are below the resolution). Those that say more:
commands and rows are not `None`, and `Nobody` is neither a player nor a tab
(`NoneIsNeither`, `NoneIsNoDeposit`, `NobodyIsNoOne`): they stand for null. Amounts are natural and withdrawals positive, as the DTOs demand.
`ChallengesExist`: somebody may sign in. `ReorgsAreShallow`: the chain drops no block that
has `ONCHAIN_CONFIRMATIONS` on it, the premise of that setting. `QueueOptions`: the queue
makes one attempt at least. `SerialBetsAreCovered`, `LoginsHaveOneToken` and the second
halves of `TheftIsFinal` speak of requests that come one at a time, in the property
itself; `Client`'s conditions are those of section 5.

### What is only model-checked, and why

- *Liveness* (`ConfirmedIsCredited`, `EveryDebitSettles`, `EveryoneServes`,
  `WrittenEventsEnd`, `ResultsAreReached`): fairness and ENABLED are outside the
  prover's reach.
- Induction over data: the induction theorems of the library take an operator, which
  the provers cannot instantiate. Where a proof here needs induction, over the subsets
  of a finite set in `RoundsProofs`, it goes by the least cardinality of a counterexample
  (`LeastNumber`, `SubsetInduction`). The arithmetic of the wallet's balance over a
  sequence of rows beyond "it is a number, and the same journal gives the same one" is
  not proved.

## 5. What the code does otherwise than it says

| run | the code | it says |
|---|---|---|
| `ledger_doublespend` | `apply` reads the balance and inserts without a lock | `docs/ARCHITECTURE.md:46`: pessimistic locking, SELECT FOR UPDATE |

**Stated by the model, without a run of its own.**

- A lost answer of `writeContract` is refunded although the transaction may be mined,
  where `onchain-withdraw.service.ts:27` says "money only leaves the ledger if it actually
  left the vault". It is one of the failures `LedgerMatchesVault` names (`Parting`).
- `rotate` drops the seed it retires, where `provably-fair.contract.ts:7` says "the
  seed is revealed after rotation". `Retire` of `Commitments` may tell or not.
- The panel reveals the seed that is active, not the round's: a second click on one
  round, or a click after a rotation, in another tab or after a lost answer, tells a
  genuine round "Verification mismatch!", where `Verify.tsx:58` says it proves "the spin
  wasn't tampered". `ReportIsTrue` says when: the round's seed is older than the one told.
- No failure after the stake is rolled back: `wallet.rollback` has no caller, where
  `e2e/tests/05-rollback.test.mjs:6` says the backend uses it "internally for stuck-op
  recovery". `HistoryIsSettled` says what holds instead: such a round is in no history.
- The classic slot's pays return 94.56%: `ExactReturn` is 945,592 of 1,000,000 (`ReturnIs`, a
  lemma of `RoundsProofs`), as `docs/PROJECT.md:213` measured, where `slot.config.ts:26` says
  "Calibrated to 96.04% theoretical RTP via EXACT per-line enumeration", `lib/slot.ts:72`
  and `Paytable.tsx:12` repeat it and `README.md:30` publishes "~96%". What the panel shows
  is computed from the pays, and so it is the 94.56%.
- The closed form of the paytable panel is exact on the tables there are
  (`PageTellsTheRound`), where `slot-calibrate.mjs:6` says of it that it counts too much,
  and `lib/slot.ts:71` that it approximates.
- A stake that is accepted but below five (`game-engine.service.ts` asks for more than
  zero) is taken, and wins nothing whatever shows: each line's share is rounded down to
  zero. The page's least bet keeps its own players from it, which `PageTellsTheRound` needs.

**Named in the properties' conditions.** Each condition is needed: without it TLC
shows the behaviour on the same instance (`"overlap"` in `ConfirmedCreditIsTrue` on
one with three calls: a deposit, a faucet that frees its button, and a second deposit
whose panel the first one's confirmation lands on).

- Wallet: a rollback of a win that was staked since debits more than the player has
  (`service.go:48` says it never overdraws).
- Withdrawals: "balance refunded" is answered when the refund failed
  (`AnswersAreTrue`); a restart between debit and transaction, or a transaction that
  reverts, leaves the debit (`Parting`).
- Sessions: two refreshes at once with one token leave two live tokens, and one in
  flight survives the purge after a theft (`OneSlotUsed`).
- Client: a sign-out that races a request under way loses: the request's refresh
  stores a token again (`"unfinished"` in `SignedOutStaysOut`); a request that was
  refused for one player is replayed for the next who signs in
  (`ActsForThePlayerShown`); a sign-in that fails leaves the page "disconnected" with the
  token the tab had, or found in the storage on its way, and the next reload is
  "connected" with it (the "failed" tabs, of which `SignedOutStaysOut` does not speak);
  an old cookie presented after its answer was lost ends every session (`"lost"`), and so
  do two tabs that refresh at once (`"crossed"` in `HonestBrowserIsNoThief`). A refresh
  refused for any reason, a 429 or 503 included, drops the token, and the tab stays
  "connected", where `session-provider.tsx:51` says it keeps the session until a request
  is refused with a 401: nothing resets it then.
- Cashier: any rise of the balance in the poll's time is announced as the deposit's
  credit (`"raised"`, `"stale"` in `ConfirmedCreditIsTrue`, against
  `use-chain.ts:239`); a failed read of the allowance leaves the Deposit button busy
  (`"unread"` in `BusyMeansUnderWay`), since it comes before the `try`; a call that
  ends clears the flag another has set, and their patches land on one panel
  (`"overlap"`); the panel of a withdrawal that failed cannot be closed
  (`FinishedFlowsClose`); the demo wallet takes a reverted transaction for mined
  (`FlowTellsTheTruth`); the stake is capped by a balance of some seconds ago
  (`RefusedOnlyIfFallen`, against `SlotGame.tsx:13`).
- Fairness panel: a reveal whose answer is lost leaves the hash of a retired seed on
  the screen, since the `catch` fetches nothing, and so do a failed query, a rotation in
  another tab, and a first query that is still under way at the click (`unseen` in
  `ShownHashIsInUse`). The report of one round stays beside the next spin's outcome
  until the next click.
- Start: of two processes that create `schema_migrations`, or execute one file, at
  once, one exits and is started again; without a supervisor it would stay down
  (`EveryoneServes` needs the fairness of `Start`).
- Events: publishing is tried once (`logged` in `EventsAreAccounted`), where
  `docs/ARCHITECTURE.md:130` has an outbox; the log has an event as lost whose job was
  accepted, if the answer was lost; an event is handled twice if a worker dies
  before it says that it is done (`stalled`).
- Cabinet: a result that is revealed before the click's own frame has come, as on a
  page that is hidden in between, leaves the loop running over the stop (`late` in
  `StopIsTheGrid`, against `Reel.tsx:36`). A spin that fails leaves its reels looping
  until the next one. The amount of an earlier win shows beside a new one for a frame,
  if it was still counted up at the click (`leftover` in `PayoutIsTheRounds`).
  `SpinningReelsLoop` and `StopIsTheGrid` speak of the phases "spinning" and "result"
  only.

**Not stated at all**: a draw that finds no seed plays on one nobody was shown the
hash of, where `README.md:141` publishes it "before you play"; a free spin plays for the
request's stake and `BONUS_FREE_SPIN_STAKE` is never read; the 5x3 slot pays by line
bet and lines, which nothing compares with the stake that was taken; `daily_streak`
counts rewards and is never reset, where `0007_player_bonuses.sql:12` says
consecutive days; the shower of coins "on a win" (`WinFX.tsx:19`) starts again at the
click after a big win, since its effect depends on `big` too (`Clear`); the deposit's toast says "confirmed" when no credit was seen.

## 6. Not modelled, and why

- *The wallet's in-memory repository*: chosen by `WALLET_STORE=memory`, for tests. Its
  calls are atomic under a mutex and answer as Postgres does, so that `Ledger` speaks
  for it as long as the process lives.
- *int64 amounts*: sums are integers here; no property speaks of width.
- *Reconcile's batch of 50* is above the bound of the run.
- *Several backends*, except at the start and at the queue: the nonce store and the
  timers are those of one process, as it is deployed.
- *Hashing, HMAC, signatures, JWTs*: pure functions; a seed or token is a name.
- *The contracts' ownership, the owner's mint, transfers between players*: contract
  code that no property here depends on.
- *The wallet extension's connection, network switch and account changes*: calls into
  `window.ethereum`, whose answers the session provider only shows. A connection that
  fails comes before anything is asked of the backend, and sets the error alone.
- *The lobby, history and profile pages, styles, toasts, sound*: reads and presentation.
- *A graceful shutdown's drain*: `Stop` cuts off what is in service, which is worse.
- *Configuration, error filter, logging, health, scripts, end-to-end tests*: stateless
  or outside of the running system.

## 7. Plan

1. Done: `Journal`, `Ledger`; `Deposits`; `Withdrawals`; `Seeds` and its refinement of
   `Commitments`; `Rounds` with the daily reward; `Sessions`; `Slots`; `Client`;
   `Cashier`; `Cabinet`, `WinFX` and `Verify` on `PlayPage`; `Migrations` and `Events` in
   `Services`. Proved: the safety properties of their runs, and both refinements.
2. `Deposits`' set of keyed rows and `Rounds`' sets against `Journal`, so that the
   wallet they assume is the one that is proved: a theorem each in `OnchainProofs` and
   `RoundsProofs`.
3. Action properties from the invariants that are there: a revoked token stays revoked
   (`TokensEvolve` says it of a step), a seed that was told stays as it is, what is
   credited stays credited.
