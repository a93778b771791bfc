# Verification of copyodds-services

copyodds-services copies the trades of Polymarket leaders into the accounts of
their followers. This directory holds TLA+ models of the parts of it that carry
money through concurrent, retried and crash-prone code, the TLC configurations
that check them on small instances, and proofs that TLAPS checks.

Paths below are relative to the repository (`src/...` is its TypeScript source).

| module | what it models | proofs |
|---|---|---|
| `CopyDispatch` | the real-money copy pipeline, from a leader's signal to the settled row | `CopyDispatchProofs` |
| `CopyLots` | the lots of a position and everything that closes them | `CopyLotsProofs` |
| `CopySettlement` | redeems, worthless settlements, their reconciliation and the daily ledger | `CopySettlementProofs` |
| `CopyFunding` | the funding warning that stops buys | `CopyGuardProofs` |
| `CopyRisk` | daily caps, pauses after failures, cooldowns | `CopyGuardProofs` |
| `VirtualCopy` | a simulated account: executions, closes, settlement, reconciliation | `CopyGuardProofs` |
| `DepositPayout` | withdrawals and purchases paid from the deposit wallet | `CustodyProofs` |
| `EoaForward` | forwarding of deposits from the custodial account | `CustodyProofs` |
| `GasShop` | gas balance, package orders, affiliate tier, commissions | `CustodyProofs` |
| `RobotRuntime` | the copy worker's index of robots and its control events | `ProcessesProofs` |
| `CronLease`, `LeaseGrant` | the lease of a scheduled job, and what a lease promises | `ProcessesProofs` |
| `AnalyzeQueue` | the queue of analyses on demand, on top of `CronLease` | `ProcessesProofs` |
| `WorkerSessions` | the worker's NATS sessions, dispatch queue, loops and shutdown | `ProcessesProofs` |
| `AddressPipeline` | an address between the stages and the board of smart money | `ProcessesProofs` |

`MCCopyDispatch`, `MCCopyLots`, `MCSystem` and `MCProcesses` give the constants their values;
the last two put several components into one run, `SystemProofs` and the end of `ProcessesProofs`
prove about what they compose. `SumProofs` holds the lemmas on sums that the proofs about money and
shares cite. A `.cfg` is one run, section 6. `PROJECT.json` holds the same as data: components, runs, mutants, map to the source, findings, hazards, theorems.

Run `tlc -config BuyRace.cfg MCCopyDispatch.tla` (the module of each run is in section 6) and
`tlapm CopyLotsProofs.tla` (likewise the others).

## 1. The system

Two kinds of process share one PostgreSQL database (through Prisma, isolation
READ COMMITTED unless stated) and NATS:

- the **API** (`src/server.ts`): HTTP routes, cron jobs, and copy dispatches
  when NATS cannot be reached;
- the **copy worker** (`src/entry/copyWorker.ts`): the NATS subscribers, the
  replay and sweep loops, the robot runtime.

Nothing but the database orders what the two do: every lock in the code
(`leaderTradeDispatchLocks`, `userDispatchLocks`, `forwardInFlight`, ...) is a `Map` of
one process.

### 1.1 The copy domain (`src/copyTrading`)

**Leader signal intake** - `routes/internal/copyTradeLeaderSignal.ts`.
State: `LeaderTrade` (unique on leader, transaction, log index; `processed`).
Operation: store the trade, or recognise a duplicate and ask
`shouldRedispatchLeaderTrade`; then announce it. Calls
`publishCopyTradingDispatch` (NATS core, at most once) and dispatches in the API
process if that fails. Hard: the message can be lost after the trade was stored;
duplicates arrive at any time. Right when: every stored trade is dispatched, and
a duplicate never orders twice.

**Dispatch of a leader trade** - `services/dispatchLeaderTrade.ts` and helpers.
State: `CopyTradeRow` (unique on trade and subscription; status, `retryCount`,
error code), `processed`, two in-process locks. Operations: reset stale rows,
resolve subscriptions, create rows, run a pool of row tasks, mark the trade
processed. A task claims its row by compare-and-set, checks, sizes, takes the
follower's lock, places the order, records the outcome, settles. Hard: three
callers (NATS, API, sweep/replay) in two processes; state read before awaits and
used after them; orders that were executed though the call failed; crashes with
a claimed row. Right when: a follower pays once per trade unless the code
reopened the row, tries are bounded, settled rows stay settled, nothing is stuck.

**Worker loops** - `dispatch/copyDispatchLoops.ts`, `replayUnprocessedLeaderTrades.ts`,
`services/retrySweep.ts`, `dispatch/copyTradingNatsSubscriber.ts`.
State: a bounded local queue, reconnect backoff, `running` flags. Operations:
replay open trades and those worth a redispatch, archive expired trades without
rows, requeue failed rows whose backoff is over, drop messages when the queue is
full. Hard: decisions on lists read earlier. Right when: what is lost is
replayed, what is settled is not.

**Position lots** - `services/copyPositionLots.ts`, `copySellSize.ts`.
State: `CopyPositionLot` (entry and remaining size, unique per buy row), lot
closes. Operations: record a buy, consume lots FIFO, backfill, reconcile.
Consumers: dispatch SELLs, manual sells, redeem, worthless settlement, the
executions page, dust clearing. Hard: lots are read, then written with absolute
sizes, by several consumers. Right when: entry equals remaining plus closed.

**Funding state** - `copyFundingMonitor.ts`, `copyFundingCheck.ts`,
`copyOrderFundingPrecheck.ts`. State: warnings on subscriptions, cached balances,
grace timers. Operations: mark, clear, pause. Hard: a warning changes between the
moment a dispatch reads it and the moment it acts on it.

**Executions page** - `routes/copyTrade.ts`. A GET that writes: it resets the
user's stale rows and repairs failed SELL rows whose lots are gone. Also CRUD of
subscriptions, which publishes control events.

**Robot runtime** - `runtime/RobotRuntimeManager.ts`, `events/*`. State: an
in-memory index of subscriptions by id and by leader, reloaded from the database
on control events. Hard: reloads and events interleave; events are lost. Right when: the
index leaves no robot out but one whose change was lost, and a dispatch serves only what the
database confirms.

**Risk and sizing** - `riskService.ts`, `copyRatioSizing.ts`,
`copyRiskDailyNotional.ts`, `services/trading/*`. State: sums over rows, failure
streaks, pauses. Hard: caps are read before the order and reserved by nothing.

**Redeem and worthless settlement** - `copyRedeemSettlement.ts`,
`copyExpiredWorthlessSettlement.ts`, `autoRedeemFailureGuard.ts`,
`services/cron/redeemCron.ts`. State: attempts, failure counts, lots. Hard: the
chain transaction and the ledger are two steps; cron and user redeem at once.

**PnL ledgers** - `copyPnlDailyLedger.ts`, `copyPnlSummaryLedger.ts`. Aggregates
derived from closes, rebuilt or incremented.

### 1.2 Beside the copy domain

**Virtual copy trading** (`src/virtualCopyTrading`): simulated accounts, claims
with a token and an expiry, Serializable transactions, advisory locks. Hard: a
lease that expires under a slow executor; right when a virtual fill is booked once
and cash plus positions are conserved.

**Custody** (`services/custody`, `services/polymarket/polymarketDepositWithdrawV2.ts`):
deposit ingest idempotent by transaction and log index; EOA forward jobs
PENDING / PENDING_GAS / IN_PROGRESS / COMPLETED / FAILED; withdrawals
PENDING -> RELAYER_SUBMITTED -> CONFIRMED / FAILED under an idempotency key. Hard:
the relayer is outside the transaction. Right when what was paid is credited, no withdrawal is
submitted twice for one key and one is open per user, except by the races section 5 names.

**Gas, packages, affiliate** (`services/gas`, `services/affiliate`): a balance, its
log and two ledgers in one transaction. Hard: the balance is compared before it is
decremented.

**Authentication** (`services/auth`, `services/email`): codes, challenges, step-up
tokens (in memory, single use, expiring), rate limits.

**Cron leases** (`services/cron/cronLease.ts`): one owner per key until a TTL ends.

**Smart money** (`services/smartMoney`): scoring of traders, an analysis queue, and the way of
an address through stages to a board of traders to copy; over a hundred files, most of them
arithmetic on fetched data. Hard: stage and board row are two tables written one after the
other by lanes of work that run beside each other, time out and fail. Right when no address is
left where no lane looks.

**Manual trading and market data** (`routes/trade.ts`, `services/polymarket`): manual
orders (a consumer of lots) and caches of external data.

**Share to X, admin dashboard, audit, wallet API client, configuration, middlewares,
metrics**: rewards once a day, reports, logging, remote calls, plumbing.

### 1.3 How they interact

```
 signal -> API --NATS copy.trading--> worker queue --\
            \--(NATS down)-----------------------------> dispatch -> row tasks -> exchange
 timers  -> replay, sweep ---------------------------/       |           |
 page    -> stale reset, repair ----------- CopyTradeRow <---/           +-> lots, warnings, streak
 control events -> robot runtime index -> resolve of a dispatch
 redeem, worthless settlement, manual sells, page, dust -> lots -> PnL ledgers
```

The hazards of this code, each at its line and with the properties that watch it,
are listed in `PROJECT.json` under `hazards`.

## 2. Plan

Done: the modules of the table above. What is left, most important first:

1. **CopyRow** - the abstract life of one row (none, queued, claimed, settled), which
   `CopyDispatch` is to implement, with the proof of each step.
2. **CopySettle** - the SELL tasks of `CopyDispatch` composed with `CopyLots`: a SELL sized before
   the follower's lock, a partial SELL and its retry.
3. **RetryPolicy**, settlement proceeds, sell size - pure operators against reference definitions.
4. Authentication stores (codes, challenges, step-up tokens), the on-demand lane of smart money, the
   V3 migration of withdrawals, the ingest and auto-wrap of deposits.

## 3. CopyDispatch

### State

| variable | in the code |
|---|---|
| `lt[t]` | `LeaderTrade`: absent, stored (`processed = false`), processed |
| `old` | trades created before the lookback of the replay (`COPY_DISPATCH_REPLAY_LOOKBACK_HOURS`, 48) |
| `row[<<t, s>>]` | the `CopyTradeRow`: `st` its status, `rc` its `retryCount`, `code` its error code, `aged` that `updatedAt` is older than `COPY_STALE_SUBMITTING_MS`, `id` its primary key (a new row of the same key gets a new one) |
| `sub[s]` | the `CopySubscription`: on / paused / off, and its funding warning |
| `leaderOn` | `CopyLeader.enabled` |
| `nats[t]` | messages of the trade between publisher and dispatch |
| `disp[d]` | one call of `dispatchLeaderTrade` (or one item of a sweep), its step and locals |
| `task[d][s]` | the task `mapPool` runs for a row: its step, the `retryCount`, id and warning it read, whether it holds the claim, what the exchange answered |
| `repair` | rows an executions page has read and not yet written |
| `execs`, `reopened` | history only: orders executed, times a key became orderable again |
| `used` | how much of each bound is spent |

A slot of `ApiSlots` or `WorkerSlots` is a dispatch that process can have under way; two
slots of one process exclude each other per trade (`LockFree`) and per follower
(`UserFree`), two processes do not.

### Actions

`Signal` (route and announcement), `Deliver`, `Lose`; `Replay`, `Archive`, `SweepRead`,
`SweepRequeue`; `Outlives` (a trade leaves the lookback, after which no replay lists it); the dispatch `Begin` (lock, stale reset, leader check), `Resolve`, `FanOut`,
`ReadRows`, `Finish`, `MarkProcessed`, `Abort`, `OrphanEnds`, `DispatchThrows`; the row task
`Claim`, `LiveCheck`, `Prepare`, `TakeUserLock`, `Post`, `Return`, `Record`, `Settle`, `Throw`,
`Catch`, `CatchThrows`; around them `Age`, `PageResetsStale`, `RepairRead`, `RepairWrite`,
`Crash`, `Change`. One step is what runs between two awaits another actor can observe.
`PROJECT.json` maps each definition to its lines.

Three details carry most of the behaviour:

- `Claim` is `updateMany({ id, status: 'queued' })`; every later write of a task is
  `update({ id })` without a status, so it overwrites whatever the row has become, and
  throws when the row was deleted.
- `mapPool` rejects when one task throws; the others run on while the trade's lock is
  free (`Abort`, the `orphan` dispatch).
- `execs` counts what the exchange executed, whatever the caller was told: `Return` may
  throw after it.

### What is abstracted

- Sizes, prices, lots, caps: the branch they select is a free choice of `Prepare`, `Post`,
  `Record`, `Settle` and `Catch`. In `RepairRead` "has lot closes" becomes "an order of this
  key was executed", which admits more rows than the code.
- The classification of an error from its message is a free choice of `Catch`.
- Error codes are kept only where a decision depends on them: the retryable ones, and
  `buy_funding`.
- The robot runtime index may hold anything (`Resolve`), a replay's candidate list may name
  any trade (`Replay`).
- A process that dies between storing a trade and announcing it is `Announce` followed by
  `Lose`. A dispatch timeout only stops the caller's wait, so it is no action.
- Several counts read one after the other by `shouldRedispatchLeaderTrade` are read at once;
  so are the two updates of the stale reset, which touch disjoint rows.
- The lookback of the replay loses what outlives it: a BUY row that a dispatch left queued because
  every subscription was blocked stays queued for ever if the warning lasts longer. `Outlives` may
  happen to any stored trade at any time, and `NothingStuck` and `TradesProcessed` say "unless it did".
  The page sizes of replay and sweep (500, 40) are left out: they delay.
- The virtual dispatch started by the same function, the metadata job and the pnl
  recomputation write to other tables or columns; they touch `updatedAt`, which delays
  `Age` and a backoff.
- `COPY_MAX_RETRIES = 0` is excluded (`RetriesAssumption`); the default is 5.

## 4. The copy domain beside the dispatch

### CopyLots

One follower, one outcome token. `lots`, `rem`, `closed` are the `CopyPositionLot`s with their
remaining size and the sum of their closes; `sold` what is closed under each sell key; `row` the SELL
rows; `summary` the stored total PnL, `wrote` who wrote it last; `day` the day of the daily ledger; `wk`
what each request or job is doing. `BuyFilled` and `RecordCopyBuyLot` create lots. Every consumer runs
through three steps of one READ COMMITTED transaction: `ReadLots`, `ReadTotal` (the plain read of the
total, `copyPnlSummaryLedger.ts:47`) and `CommitLots`, which writes the sizes and the total it computed,
so that two may overlap in either; `ConsumeThrows` and `Crash` end one early. What does keep two apart
at `ReadTotal` are the row locks the code takes before it (`Locks`): the updated row of the first lot, and
the `UserCopyPnlDaily` of the day. A day that begins in between (`DayBegins`) undoes the second. The first
total of a user is a create; two of them at once conflict, which is the throw.

Consumers are the dispatch of a SELL (`SellStart` ... `SellRest`), the executions page (`PageStart` ...
`PageWriteSum`, whose sum takes no lock), a manual close, a redeem, a worthless settlement and the clearing
of dust. Shares are counted in units of the dust bound and a share makes one unit of profit. Other tokens
of the follower write the same total, as consumers of another first lot: two of one day exclude each other
by the row of the day, as here. `PageClosesOnlyWhenFlat` says what a comment in the code asks of the page;
the page takes an account position of 0 for granted (`copyTrade.ts:1319`), so no run checks it.

### CopySettlement

Each token is a condition with one share. `held`, `tx`, `market` are what the chain has; `lot`,
`log`, `fails`, `exec`, `pnl`, `events`, `daily` are the open lots, `PolymarketRedeemLog`, the attempt
state, the executions with their transactions, what their closes made, the keys of the PnL events and
the daily sums. A job (`sweep`, `reconcile`, `route`, `page`, `history`: the repair of the executions page,
which passes no positions, `copyTrade.ts:1392`) is a `Plan` of phases; each phase fetches its subjects once
and acts on them later. `seen` is what the Data API list said when the job began: the market's state, a
price near zero before the position is redeemable, or nothing at all. The code takes a position that is
missing for gone once its lot is old (`copyExpiredWorthlessSettlement.ts:113-125`), so `Expire` may book it
as worthless or leave it, whichever the age says. How often a list departs from the chain is bounded with
the crashes (`MaxFaults`). The passing run uses the sweep and the route; `page`, `reconcile` and `history`
are covered by the proofs only. Half a share of the proceeds is the only size kept.

### CopyFunding and CopyRisk

`CopyFunding` has the gas points, the balance, the warning, the precheck cache of each process
(`precheck`) and the steps of a trader, the funding page and the deposit callback between which the
balance may change. A sell that fills completely looks at the balance (`SellReads`); one that was
matched in part and is put back as failed, or throws, does not (`SellReturns`, `dispatchLeaderTrade.ts:903-949`).
`excused` remembers that a warning was raised on an old balance or that nothing will lower it. `CopyRisk` has the rows of a follower in one market on one day, `failCount`, `pause`
and `cooldown`, and the steps of a row between its claim, its checks and what its outcome writes
back; `overtaken` and `under` remember which rows were past their check when another filled or paused.
Left out: the market cap, whitelists and size filters, which read one order only.

Worth knowing: a message of `copyFundingMonitor.ts:415` promises that buys resume after a recharge of
gas, but what a recharge calls (`gasPackage.ts:504`, `gas.ts:974`) touches paused subscriptions only
and nothing pauses them any more: the warning stays until the funding page is opened, a sell or a
deposit clears it. Deposits forwarded from the custodial account are skipped and lower nothing.

### VirtualCopy

One account, one token: `account`, `exec` (status, claim token, retries), `lot` (with its place in the
order of `openedAt`), `closed`, `ledger`, the market's `resolution`, the executors (`worker`), the lifecycle
sweep, the reconciliation. Steps that lock the account in a Serializable transaction are one action; what
an executor reads before it (`LooksAtMarket`) is a step of its own. Nothing ties the order book to the
resolution of the market, so a lot may be bought after it, and after the settlement, which happens once per
token (`virtualCopySettlement.ts:57`): such a lot stays open until a sell or a manual close. A BUY is refused
over an open position larger than `VDust` unless its configuration says otherwise (`VAddsOn`,
`skipBuyIfOpenPosition`); several lots are closed oldest first (`PlanCloses`). `late` remembers executions
taken from a worker that was only slow. A stale claim with its retries used up stays SIMULATING
(`virtualCopyExecutionService.ts:834`).

The caps and the cooldown of a robot, which skip a BUY in its transaction, are a free choice of
`SkipsInFill`. Amounts are whole, so what the code rounds to twenty digits is not seen: `VirtualConserved` is
about units, not about the last digit. The reconciliation compares to the last digit
(`virtualCopyReconciliation.ts:63`), looks at the snapshots of equity and at every account, and reads the
cash before it sums the ledger; `ReconcileSums` therefore may pause the platform whenever it runs, and must
when its sums differ or a lot is out of bounds. Nothing in `src/` lifts that pause.

## 5. The processes and the money around it

### DepositPayout, EoaForward, GasShop

`DepositPayout`: request rows by idempotency key, relayer batches, API calls that recover old
requests, replay, count, create, submit, wait and credit; answers of the relayer are lost, requests
age, credentials are refused for their rate, the process stops. `EoaForward`: the balance of the
custodial account, transfers broadcast (`sent`), `CustodyWithdrawRequest` rows, forwards of callbacks
(one at a time per process) and of polls beside them. The account pays its gas in POL (`pol`: whether what it
has pays a transfer at the price of the moment, which `PolMoves` changes at any time): without it a forward
is not begun (PENDING_GAS, `custodialEoaDepositForward.ts:264-283`), or the request it has created FAILS
(`ChecksGas`, `fundPolymarketDepositService.ts:278-301`; an RPC error of that check is ignored), or its broadcast
is refused. Left out there: the permit relayer, which needs no POL, the loop over tokens, ingest and auto-wrap,
and the status of `CustodyEoaForwardJob`, which no code decides on: it is shown, and a stop can leave it
IN_PROGRESS beside an empty account. `GasShop`: `gas`, package `order`s and how
often they were granted, `commission`s and `payouts`, the `tier`; calls read, then lock and write.

### RobotRuntime

`robotOn` is the database, `edit` the requests that change it and publish an event, `wire`, `inbox`
and `reload` the event on its way, `index` what the worker serves, `unheard` the robots whose change the
worker has missed since it last read their row. One leader. An event is lost between the load of the
index and the subscription (`copyWorker.ts:16`), in an outage, in a dead connection of the API
(`natsRobotControlClient.ts:21` never replaces it), or by a failed load; a leader that is enabled again
by the edit of one robot (`subscriptionSync.ts:98`) reloads only that robot. The comment of
`resolveDispatchSubscriptions.ts:7` says that the fallback to the database avoids missed orders; it is
taken only when the index confirms no robot at all.

### WorkerSessions

The two subscribers draw their connection from one promise (`promise`, `link`), which either may
forget and the robot loop closes; `pending` and `inFlight` are the bounded dispatch queue; `loops`
the replay and the sweep; `shutdown` the calls of `copyWorker.ts`. A stop that finds the trading session
between its connection and its subscription (`copyTradingNatsSubscriber.ts:167`) leaves the shutdown
waiting for a message (`subscribedLate`).

### CronLease, LeaseGrant, AnalyzeQueue

`CronLease` has the row of each key (`leaseOwner`, `leaseLapsed`) and, per process, the initial and
the interval run of a job. A lease may lapse at any time, so two processes may be inside; what it does
promise is `LeaseGrant`, which `CronLease` implements (`LeaseGranted`). Two runs of one process share
an owner (`registerServerCrons.ts:508`), and the first release frees the lease of both. `AnalyzeQueue`
extends it with the jobs, the wake-up timer, the `running` flag set after several awaits, and the passes.
An enqueue in flight during a stop leaves a job without a timer (`late`). The start of the queue is two
steps: it is on before its statement is through (`QueueStarts`), which then fails the jobs of the last process
and whatever a live one has, and sets the timer (`StartEnds`). If it throws, the server only logs it
(`server.ts:315`, `StartThrows`): the process runs on without a timer (`unstarted`) until a call that creates or
finds a job sets one; one that is refused because the queue is full does not. A pass that throws in its
`findFirst` or claim is an unhandled rejection, which ends the process like any other stop; errors of the look
and the lease only delay. FAILED, DONE and expired jobs are one status, ENDED. Assumed: a process stops
or dies only when another one starts after it.

### AddressPipeline

One address: its `stage` in `SmartMoneyRawAddress` and its row of the `board`
(`SmartMoneyLeaderboardRow`, and `ScoreCache` while there is none). A lane of work is a list of calls
still to be made (`todo`) with the call an error makes instead (`catch`); it reads, waits and writes one
call after the other beside the other lanes. `TimesOut` lets the work of a lane go on as the lane
`late`; `Fails`, `Crashes` are the faults. `Crosses` names the only fault-free steps that can lose an
address.

Differences between comments and code met here, without a run of their own: Gamma
picks by the score cache whatever the stage and may let an eliminated address in again
(`smartMoneyGammaEnrichment.ts:115-122`); after a revival or a recheck an address can reach the board
without a Deep analysis (`smartMoneyCopyabilityEnrich.ts:67`, `smartMoneyEliminated.ts:161`); a crash
between the two statements of a purge, or an elimination that fails after the removal and is followed by
a restore of COPY_POOL, loses the address to every lane. The proof added one more: with three lanes, a
"not ready" verdict of Gamma computed off the board takes an address off that Enrich has just let in,
while a Deep analysis picked in between restores COPY_POOL.

## 6. Runs

All runs say `CHECK_DEADLOCK FALSE`: what users, chains and faults do is bounded, so a behaviour comes
to rest when the bounds are used up.

| run | module | instance | states |
|---|---|---|---|
| `BuyRace` | `MCCopyDispatch` | BUY, a slot of the API and one of the worker, 2 tries, 1 crash, 1 change | 3.8 M |
| `SellRace` | `MCCopyDispatch` | SELL, the same slots, 2 tries, 2 signals, 1 page read (reset or repair) | 1.9 M |
| `BuyLive` | `MCCopyDispatch` | BUY, worker only, fair, 1 crash, 1 change | 100 k |
| `SellLive` | `MCCopyDispatch` | SELL, API and worker, fair, 1 crash, 1 change | 153 k |
| `Lots` | `MCCopyLots` | two lots of 1 and 3 shares, two workers, one SELL row, two executions, 3 operations, 2 days | 1.9 M |
| `Settlement` | `CopySettlement` | two tokens, sweep and route, one transaction, 4 executions, 1 crash or list that misleads | 0.9 M |
| `System` | `MCSystem` | one of 17 parts: the components of sections 4 and 5 that hold money | 0.5 M |
| `Processes` | `MCProcesses` | one of 9 parts: robots, sessions, jobs, analyses, addresses | 0.4 M |

`MCSystem` and `MCProcesses` exist because their components share no state in these models: a
behaviour picks one part at the start and the rest stands still, so one run checks each component
with several choices of its actors. Parts of `System`: a withdrawal, a purchase, two payments; gas
and packages, tiers, commissions; forwards without and with faults and lacks of gas; virtual orders, buys, a sell, several
lots with a settlement;
the risk checks of two robots, of one, of a buy and a sell; funding without and with failed reads.
Parts of `Processes`: robots (with an outage, or a stop, a failed read or a leader switched off), sessions,
scheduled jobs, two passes, a busy leaderboard job, two processes whose lease lapses while jobs come from one,
two that both create jobs, restarts and failed starts, any address with one lane at a time, two lanes.

### What they ask

A property with "needs" says that a bad outcome comes only of the one overlap or fault the code is
exposed to; the mutants in `PROJECT.json`, one for each property, show that it fails when a plausible
bug adds another way. P: also proved for all values of the constants (section 7).

| property | says | run | |
|---|---|---|---|
| `OrdersAccounted` | orders executed, claims that may still execute one, and one if the row invites another, never exceed one plus the counted reopenings | BuyRace | P |
| `FundingSkipFinal` | a BUY skipped because all subscriptions carried a warning is not taken up | BuyRace | P |
| `RetriesBounded` | tries stay within the maximum, and what is queued or claimed has one left | SellRace | P |
| `SettledRowsStay` | filled, dead and skipped rows are rewritten only by who had read this very row | SellRace | P |
| `NothingStuck` | no row stays queued or claimed for ever, unless its trade outlived the lookback | BuyLive | |
| `TradesProcessed` | a stored trade is processed in the end, unless it outlived the lookback | SellLive | |
| `LotAccounted` | no bought share leaves a lot without a close, up to the dust of an empty lot | Lots | P |
| `ExcessNeedsOverlap` | shares are closed twice, or given back, only by a transaction that read before another wrote | Lots | P |
| `SummaryDriftNeedsOverlap` | the stored total departs from the closes only by a page that summed before a commit, or a consumer that wrote over a page or a consumer of another day | Lots | P |
| `RedeemPaid` | an execution or a log names only transactions that paid | Settlement | P |
| `WinnerWaitsForRedeem` | a winner that can be redeemed is closed without proceeds only by a job whose list left it out or priced it near zero | Settlement | P |
| `SharedTxRepaired` | a transaction booked for two conditions is taken from one of them in the end | Settlement | |
| `PaidIffCredited` | what is credited was mined; what was mined is credited unless failed or stopped | System | P |
| `SecondBatchNeedsRateLimit` | a second batch of a key needs a call refused for its rate | System | P |
| `SecondOpenNeedsOverlap` | two requests are open together only by a create between count and create | System | P |
| `DebitsMatchTransfers` | what left the account is debited, and the converse, up to named faults | System | P |
| `DepositsForwarded` | deposits leave the account in the end, once its POL lasts | System | |
| `GrantedTwiceNeedsOverlap` | gas of an order is granted twice only by two overlapping calls | System | P |
| `OverspendNeedsOverlap` | the balance goes below zero only by a spend between check and decrement | System | P |
| `ClaimedIsPaid` | a claimed commission was paid unless its claim was cut off | System | P |
| `PaidAgainNeedsLostAnswer` | a commission is paid again only after a payout without answer | System | P |
| `TierDropNeedsOverlap` | a tier drops only by an administrator or by a write computed before a raise | System | P |
| `VirtualConserved` | cash is what the ledger adds up to, closed and remaining make the entry, of every lot | System | P |
| `OpenLotsCanClose` | no account ends over an open lot, whenever it was bought | System | P |
| `FilledStaysFilled` | a fill is lost only to a worker that lost its claim by being slow | System | P |
| `CapExceededNeedsOverlap` | a cap is exceeded only by a row past its check when another filled | System | P |
| `PauseLiftedByLateRow` | a pause is lifted only by a row under way when it began, or a sell | System | P |
| `WarnedBesideBalance` | the warning stands beside a balance only while work is under way, or excused | System | P |
| `BuysResume` | with gas and balance for good buys are let through in the end | System | |
| `LeftOutNeedsLoss` | a robot is left out only after a change of it was lost | Processes | P |
| `SubscribersReturn` | both subscribers come back with the server | Processes | |
| `ShutdownEnds` | a shutdown ends, or trading subscribed late | Processes | |
| `LeaseGranted` | the lease implements `LeaseGrant` | Processes | P |
| `SideBySideNeedsTwoWakes` | two passes analyse together only in a process woken twice, or past a lease | Processes | P |
| `PendingEnds` | an analysis that waits is taken up in the end, unless a start threw and nothing woke its queue | Processes | |
| `LostNeedsCrossing` | an idle address in COPY_POOL off the board needs a crossing or a fault | Processes | P |
| `BoardAgrees` | again and again the stage is settled and agrees with the board | Processes | |
| `SystemTypeOK`, `ProcessesTypeOK` | the types of all components | both | P |

### Runs that fail

Each checks what a comment of the repository says and shows what the code does instead:

| run | module | the repository says | the code does |
|---|---|---|---|
| `MoreOrdersThanMaxRetries` | `MCCopyDispatch` | `config/env.ts`: with a maximum of n, at most n orders | the page's stale reset does not count the try and the slow claimant orders too: two orders with a maximum of 1 |
| `BlockedBuyStaysQueued` | `MCCopyDispatch` | `dispatchLeaderTrade.ts`: a BUY blocked by warnings is skipped at once | rows queued by an earlier dispatch keep their status (`skipDuplicates`), and a later signal orders them |
| `MissingTakenForFlat` | `CopySettlement` | `copyExpiredWorthlessSettlement.ts:629`: a position missing from the response is never taken for chain-flat | it is, once its lot is past the grace of losers (`:113-125`): a held winner that the list leaves out is booked with proceeds of 0 |
| `DailyLedgerMissesRevision` | `CopySettlement` | `copyPnlDailyLedger.ts:102`: each fact applies its delta exactly once | a close revised back and forth repeats an event key, and the second revision is swallowed |

Met without a run of its own: `config/env.ts:1958` says that the last failure turns a row dead, but a partial
SELL and a SELL without a lot write `failed` with the count at the maximum (`dispatchLeaderTrade.ts:912`), which
no sweep takes up.

### Bounds

Two dispatches in two processes are the least that escape the in-process locks, and a third caller of the
same process only queues behind a lock. Two tries separate "retried" from "last try". One crash, one
change and one page read each happen at every possible point; SELL and BUY are separate because `Side`
splits most branches. A trade outlives the lookback (`MaxOld`) in the runs about liveness only: all it does is to
stop the replay, so that nothing can happen with it that the safety runs do not see without it. In the other components the same holds: two actors overlap, each bound on
faults, stops or operations is one or two, and the names in the cfgs say what is bounded. Every hazard
asked about needs two actors and one fault at most, except `LostNeedsCrossing`, where three lanes show
one more case than two; its theorem has no bound. Two lots of different size let a sell end in the middle of
the second, and two virtual buys that add on let one close both; one transaction for two tokens is what
makes `SharedTx` possible. `MaxDay` 2 (days count from 1) lets one midnight fall between any two steps. The workers of `Lots` do the
same things and are named in nothing a property says, so they are a symmetry set.

### Fairness

- `NothingStuck`, `TradesProcessed`: `copyDispatchLoops.ts` starts the replay and the sweep on timers as
  long as the worker lives, so a trade that is a candidate again and again is taken (strong fairness
  of `Replay` and `SweepRead`: other dispatches may take the slot in between). The event loop runs
  whatever is due (weak fairness of `DispatchStep` and `TaskStep`), time passes (`Age`). `Throw` can hit a
  task wherever the claim can, so strong fairness of `Claim` says that the database does not refuse
  every single time. Crashes and throwing dispatches are bounded (`MaxCrashes`): without that bound
  no liveness holds.
- `SharedTxRepaired`: a job goes on, and the sweep starts again and again (`redeemCron.ts`).
- `DepositsForwarded`: the chain mines what it took, a forward goes on, the balance page is polled; and the
  POL suffices from some time on (`<>[]pol`, a premise of the property, for nothing in the code buys it).
- `BuysResume`: tasks, the callback and the page go on, and the user looks at the page again and again.
- `SubscribersReturn`, `ShutdownEnds`: each loop, connection attempt, drain and task goes on.
- `PendingEnds`: passes go on, timers fire, starts end or throw, and time passes.
- `BoardAgrees`: a lane at work goes on, and the repairs run with every batch
  (`smartMoneyPipelineCron.ts`).

Nothing is assumed of signals, delivery, the exchange, relayers, edits, outages or crashes.

## 7. Proofs

Every theorem holds for all sets of actors and keys and all bounds, from the named assumptions of the
modules only (sets of slots, rows, links, lots and keys finite where something is counted or summed,
bounds natural numbers, special values outside the sets they mark). A module of proofs states the inductive invariant of its
component, one lemma per action or per effect, and the theorems. Each inductive invariant was checked
by TLC first.

| module | theorem | states |
|---|---|---|
| `CopyDispatchProofs` | `TypeCorrect`, `RetriesCorrect`, `SettledCorrect`, `OrdersCorrect`, `FundingSkipCorrect` | `TypeOK`, `RetriesBounded`, `SettledRowsStay`, `OrdersAccounted`, `FundingSkipFinal` |
| `CopyLotsProofs` | `LotsAccounted`, `ExcessOverlaps`, `LotsTyped`, `SummaryDrifts` | `LotAccounted`, `ExcessNeedsOverlap`, types, `SummaryDriftNeedsOverlap` |
| `CopySettlementProofs` | `RedeemsPaid`, `WinnersWait`, `SettleTyped` | `RedeemPaid`, `WinnerWaitsForRedeem`, types |
| `CopyGuardProofs` | `FundingTyped`, `WarningsCorrect`, `RiskTyped`, `CapsCorrect`, `PausesCorrect`, `LotsCloseable`, `FillsStay`, `VirtualTyped`, `MoneyConserved` | types, `WarnedBesideBalance`, `CapExceededNeedsOverlap`, `PauseLiftedByLateRow`, `OpenLotsCanClose`, `FilledStaysFilled`, `VirtualConserved` |
| `CustodyProofs` | `PayTyped`, `PaidCorrect`, `BatchesCorrect`, `OpensCorrect`, `ForwardTyped`, `ForwardsDebited`, `ShopTyped`, `GrantsCorrect`, `ClaimsCorrect`, `OverspendsCorrect`, `PayoutsCorrect`, `TiersCorrect` | types, `PaidIffCredited`, `SecondBatchNeedsRateLimit`, `SecondOpenNeedsOverlap`, `DebitsMatchTransfers`, `GrantedTwiceNeedsOverlap`, `ClaimedIsPaid`, `OverspendNeedsOverlap`, `PaidAgainNeedsLostAnswer`, `TierDropNeedsOverlap` |
| `SystemProofs` | `SystemTyped`, `SystemCorrect`, `SystemSteps` | `SystemTypeOK`; the invariants and the action properties of the run System, of the composition |
| `ProcessesProofs` | `RobotTyped`, `DispatchesCorrect`, `SessionsTyped`, `QueueTyped`, `AnalysesCorrect`, `CronImplementsGrant`, `LostCorrect`, `AddressesTyped` | types, `LeftOutNeedsLoss`, `SideBySideNeedsTwoWakes`, `LeaseGranted`, `LostNeedsCrossing` |
| | `ProcessesTyped`, `ProcessesCorrect`, `ProcessesImplementGrant` | `ProcessesTypeOK`; the same of the composition |
| `SumProofs` | lemmas only | what a change of one summand does to a sum |

**CopyDispatch.** Lemmas first reduce every task step to two facts: what it can make of its row
(`RowEffect`) and of its own task (`TaskEffect`); the invariants are then preserved for a handful of
effects instead of for each of eleven actions. `RetriesBounded` is inductive beside `TypeOK`: a task only
carries a count below the maximum, so the count it writes back, however old, is at most the maximum.
`OrdersAccounted` is not inductive: `OrdersInv` adds that a task's step fits its dispatch and its claim flag
(`TasksInStep`), that an idle slot has idle tasks (`SlotsIdle`), and that a failed row carries a retryable
code (`FailedRetryable`), so that sweeping a row never makes it more orderable than it was. Each
step then changes `execs + |Holders| + orderable - reopened` by at most 0. `FundingSkipFinal` needs
`FundingInv`: no dispatch has a task on a row that was skipped for funding.

**CopyLots.** `LotsInv` is `LotSizes` (what a lot may hold), `WorkShape` (what a worker may carry),
`SnapCovers(w)` (what a transaction read of a lot, with what is closed by now, still covers the entry) and
`DustCovers(w)` (the same for the ids the clearing of dust has read), beside `LotAccounted`. The absolute
size a transaction writes is then enough whoever wrote in between: a lost update makes the closes
larger, never smaller. `TotalsInv` says of the total what locks give: a consumer past its read either still
holds the total as it is, or another day's consumer or a page wrote it since; and two consumers past it are
of different days. `ExcessNeedsOverlap` follows step by step: a commit that read what is there
moves exactly as much to the closes as it takes from the lot. `ClosesInv` follows what is booked: whoever
will close shares holds the key of a row or of an execution, and a page's list names lots, then rows
(`KeyedWork`), so that a commit adds the same profit to the total and to the sum of the closes.

**CopySettlement.** `SettleInv` is `SettleShape`, `JobShape`, `LogPaid` and `ExecPaid` (what the log and the
executions name was mined and paid), and `JobKnows(j)`: what a job saw lost or redeemed stays so, and a lot it
is about to close without proceeds is of a lost market or one its list was `Unclear` about (`Closable`). All that
a job carries over its awaits rests on facts that cannot change back - a mined transaction, a
redeemed share, a lost market, an execution that exists. `TypedInv` adds the types of the data and
`Redeeming(j)`: a redeem the sweep has in flight is about a token that may fail once more, since no other
job raises the count. It needs `Tokens` to be numbers, for a job treats them in an order.

**CopyGuard.** `FundingInv` adds `WarningDue` to the types: whoever is about to raise the warning on a
balance, or has lowered it, is at a step that explains it. (Its proof sharpened `WarnedBesideBalance`: a
filled buy turned out not to be needed as an excuse.) `RiskInv` adds `RowsAt` (where a row is fits its
status), `PauseSeen` (who may lift a pause was under way when it began) and `CapsLeft`: a row past its checks
that nobody overtook still has room under both caps. `VirtualInv` is `VirtualShape`, `LostIsLate` (a worker
whose claim is gone was slow), `SweepInv` (the sweep that read no open lot is right as long as the account
takes no orders) and `OpenLotsCanClose`. Its money needs `BooksInv` beside it: an execution that can still be
filled has no lot and nothing closed yet (`Unfilled`) and the settlement is booked once (`Unsettled`). What a sell
takes of each lot never exceeds what remains of it, whatever the order and the number of the lots, so a fill,
a close and the settlement change the cash and one entry of the ledger by the same sum.

**Sums.** The cash, the ledger and the profit of the closes are sums of a function over a finite set
(`SumFunctionOnSet`). The induction rules of the library cannot be instantiated here, so `SumProofs`
argues by a smallest counterexample in the well-founded order of the finite subsets (`SmallestSubset`):
sums exist (`SumsExist`), are integers (`SumTyped`), and change by what one summand changes
(`SumChanges`, `SumBooks`).

**Custody.** `PayInv` is types, `Counted` (a call that counted no open request and was not raced sees none),
`TxKnown`, `PaidIsMined`, `OneOwner` (one call at work per key at a time, but for recoveries), `FirstBatch`,
`BatchFollowed` (a mined batch has a call or a row that will credit it), `MarksPending`, `CreatesAlone`.
`FwdInv` is types, `SentOK`, `FwdCallsOK`, `RowsOK`, `Owed` (an undebited transfer whose answer was not lost
has a call about to debit it) and `Funded` (a transfer nobody raced is the first pending one and covered by
the balance).

**GasShop.** `GasInv` is types with one part per story: `SpendInv` (a spend that was not raced still has its
gas), `TierInv` (a tier computed and not raced is not below), `OrderInv` (a grant leaves its order
fulfilled, and a call that will grant again has crossed), `ClaimInv` (a claimed commission is in the hands
of one claim, paid, or unlucky).

**Processes.** `RobotInv` says that while the worker loads, `read`, and while it is up, `index`, is
`UpTo` date: every robot that should copy and is missing has an event announced or went unheard
(`EditNames`, `Deaf` say which events can exist). `QueueInv` says that a pass past its claim holds the lease
or its process lost it (`InsideHolds`) and that a process has one pass at a time unless it was woken
twice (`OnePass`). The lease implements `LeaseGrant` under the mapping `CronHolder`, `CronInside`,
step by step: each step is a `Grant`, `Leave`, `Lapse`, `Vanish` or a stutter; `NewIsIdle` is needed
so that the start of a process forgets no run. The passes of the analyses write a row of the same table,
but never the row of the job (`PassLeavesCron`).

`SessionInv` bounds the dispatch queue and says where the subscribers, the loops and the shutdown
can be; that a subscriber which connects gets a link at all needs a spare one beside the promise and the two
it is told apart from (`LinksAssumption`). `JobsInv` adds to the types that a job has its active key exactly
while it waits or runs, and `AskedFor`: every job, and every call that is about to create one, was asked
for, so that stops, crashes and lost creations never leave more jobs than there were requests
(`QueueAssumption`: finitely many processes).

**AddressPipeline.** `PipelineInv` says that until something crosses or fails, every lane has an orderly
list of calls (`TodoOK`: COPY_POOL is written right after the board lets the address in; the calls of the
flush and of Deep stand where their lane puts them), a lane about to write COPY_POOL or to restore it
has the address on the board (`WillPool`), one that restores it has an address to restore (`MayRestore`),
and COPY_POOL off the board is a flush between its two statements (`Halfway`). An idle flush has no
such statement, so an idle address is not lost. The model was changed by this proof: a lemma that
failed showed the case of three lanes told in section 5, and `Crosses` now counts it. The types are
a story of their own (`PipelineTyped`): a lane carries what it read as arguments of calls it makes later,
so the invariant says of every call on every list what it may carry (`LaneCalls`), and one lemma for each kind
of call says that it leads only to such calls.

**The compositions.** A behaviour of `MCSystem` or `MCProcesses` chooses a part; a step of the part is
a step of one component, since the parts only narrow who acts, and a stutter of the others
(`ComponentSteps`, `PartSteps`). So the conjunction of the components' invariants is inductive
(`ComponentsInv`, `PartsInv`; the latter needs that while the scheduled jobs are watched nobody has asked for
an analysis). What the runs `System` and `Processes` check on small instances is thereby proved of the very
specification they check. `SystemAssumption` and `ProcessesAssumption` say that the names the parts use exist.

### Only model-checked

- Liveness (`NothingStuck`, `TradesProcessed`, `SharedTxRepaired`, `DepositsForwarded`, `BuysResume`,
  `SubscribersReturn`, `ShutdownEnds`, `PendingEnds`, `BoardAgrees`): outside the prover's reach, as is `ENABLED`.
- Every safety property of a passing run is proved. `LotsTypeOK`, `SettleTypeOK` and the like that no
  cfg names appear in section 7 only.
- The disagreements of section 6.

## 8. Not modelled

Sizes, prices and formulas throughout, unless a module says otherwise. Authentication and step-up: codes,
challenges and tokens (an older send that fails deletes a newer code; sends are recorded only after
the mail was sent). The limit of 50 enabled subscriptions a user, a check before an upsert
(`subscriptionSync.ts:48`). Manual trading but for its lots, share to X, the metadata jobs, admin
reports. The start of the candidate pipeline, which takes no lease. The discovery of addresses and
the pools they compete for. Left out for good: address parsing, HTTP plumbing, formatting, metrics and
the arithmetic of trader scores, which have no protocol; `scripts/`, which are run offline; the exchange,
the relayer and the chain, which appear only as what the code can observe of them.
