# A verification of polymarket-engine

TLA+ models of the live trading runtime of this repository, with its crashes and
restarts and with its positions and losses, of its data recorder, of its
simulator's orders and circuit breaker, and of its backtest, model-checked with
TLC, with theorems proved by TLAPS. Paths are relative to the repository root.

## 1. Inventory

### The live runtime (`src/live`)

One JavaScript process. `runLive.js` builds an `EventLoop`, which owns every
other part and calls it; nothing runs in parallel, but every `await` lets
something else run: the tick, a SIGINT/SIGTERM handler, the snapshot timer, and
the exchange, which acts on requests and on its own.

| component | state | operations | hard behaviour |
|---|---|---|---|
| order state machine, `state/orderStateMachine.js` | the state of an order | `canTransition`, `transitionOrder` | closed orders must stay closed however late an answer comes |
| order store, `state/orderStore.js` | three maps: by id, by signal key, by external id | `create` (refuses a second open order of a signal), `transition`, `listOpenOrders`, look-ups | the maps must agree with each other and with the exchange |
| execution engine, `execution_engine/index.js` | none of its own; the locals of calls in progress | `placeOrder`, `applyFill`, `cancelOrder`, `cancelAllOrders`, `getOpenOrders`, `refreshOrderStatus`, `cancelStaleOrders` | everything checked before an await may be false after it; a submission that fails may have been accepted |
| signal deduper, `state/signalDeduper.js` | recent signal keys with a time to live | `has`, `mark`, `clearExpired` | entries expire while their order is open |
| risk engine, `risk_engine/index.js` | open-order ids, rejects and PnL of the day, halt | `checkOrder`, `recordReject`, `trackOrder`, `syncOpenOrders`, `emergencyStop` | the day change lifts any halt; the order limit is tested before the order counts |
| kill switch, `monitoring/killSwitch.js` | halt latch, consecutive errors, progress of each order | `evaluate`, `recordApi*`, `recordOrder*`, `halt` | asked before an await only |
| event loop, `eventLoop.js` | run flag, recovery flag, tick counters | `init`, `tick`, `run`, the stop handler | the stop handler overtakes the tick |
| reconciliation, `sync/reconciliation.js` | none | `syncPositions` | walks records that change under it |
| startup recovery and snapshot, `sync/startupRecovery.js`, `state/snapshot.js` | the snapshot file | `runStartupRecovery`, `buildSnapshot`, `applySnapshot`, the periodic writer | crash and restart; orders restored twice |
| position store, `state/positionStore.js` | quantity, average price, realized PnL per token | `applyFill`, `set` | fills through zero; quantities overwritten by balances that are old |
| order gate, `risk_engine/index.js` `checkOrder`, `execution/slippage.js` | none | size, notional, position, slippage and depth checks | the position it sees is not all there is to come |
| client and retry, `polymarketClient.js`, `retry.js` | caches | one method per exchange request | lost answers, repeated attempts |
| alerts, health, observability, scanner, signals, builder, logging, configuration | counters, caches | see `PROJECT.json` | numeric |

### Around it

* `src/data/recorder.js`, `tradeDedup.js`: a polling recorder with hourly files
  and a stop that may come at any await.
* `src/engine`: a pure simulator. `tick` advances child orders against a
  synthetic book, resolves partial fills (retry, replace, unwind), applies
  fills to positions and checks itself (`reconcile`); a circuit breaker
  (`system.js`), which the tick tells of slips, rejects, poor fills and invalid
  markets, gates it through the pre-trade check (`risk.js`).
* `src/backtest`: replays a recording through the live signal engine with a fill
  model and a portfolio of its own; positions are closed by time, by signal or at
  the end. `src/research`: offline statistics.
* `src/App.jsx`: a dashboard, which runs the simulator's tick every two seconds
  and whose START/STOP button also resets the breaker.

### What makes each part correct

* Orders: a signal has at most one open order, in the store and on the exchange;
  an external id leads to the order it was given to; a record that says closed
  is right; nothing stays in flight for ever.
* Limits: the open-order set covers the orders that work, so the concurrent-order
  limit holds on the exchange.
* Halting: after a stop nothing is entered, what is left is cancelled, and the
  process ends.
* Recovery: an order is restored once, and its signal stays blocked.
* Accounts: no fill loses value; the store agrees with the exchange in the end; the
  position cap binds what the gate can see; a day's loss ends the day's trading.
* Simulator: a fill is counted once, in the order, the ledger and the position.
* Circuit breaker: it is never closed over a list at its threshold, it lasts its
  time, and it lets go for good once nothing bad is reported.
* Backtest: cash, positions, profit and fees add up, and every position that is
  due is tried.
* Recorder: stop ends after the round in progress, and loses nothing.

The hazards behind these are listed line by line in `PROJECT.json`.

## 2. Modules

| module | models |
|---|---|
| `OrderStateMachine` | states, the transition table, `transitionOrder` |
| `ExecutionEngine` | the engine with store, deduper, the halting and counting parts of risk engine and kill switch, and the exchange |
| `EventLoop` | EXTENDS it: one tick loop and the stop handlers as the callers |
| `OrderLedger` | abstract specification of the order bookkeeping |
| `PositionStore` | a position and what a fill does to it |
| `OrderGate` | EXTENDS it: `checkOrder` and the slippage guard, with sizes and books |
| `Accounts` | EXTENDS it: orders with sizes, fills and the events that report them, reconciled balances, the loss of the day and its halts |
| `PreTrade` | the sizing of a recommendation and the simulator's pre-trade check |
| `Breaker` | EXTENDS it: the circuit breaker, what a tick reports to it, the button |
| `Backtest` | the replay of a recording: fill model, portfolio, time stop, final sweep |
| `ExecutionEngineProofs`, `EventLoopProofs`, `AccountsProofs`, `BreakerProofs`, `RecorderProofs`, `SimOrdersProofs`, `RecoveryProofs`, `BacktestProofs` | theorems |
| `Recovery` | EXTENDS the engine: crashes, the snapshot file, startup recovery, reconciliation |
| `Recorder` | the data recorder: rounds, hourly files, wallet-trade dedup, stop |
| `SimOrders` | the simulator's orders: the passes of a tick, child orders, partial fills, the fill ledger |
| `MCExecutionEngine`, `MCEventLoop`, `MCRecovery`, `MCRecorder`, `MCSimOrders`, `MCAccounts`, `MCBreaker`, `MCBacktest` | instances for TLC (symmetry sets, books) |

### How the model corresponds to the code

The program is single-threaded, so the code between two awaits is one action.
A call in progress is a record in `calls[c]`, whose `op` names the await it is
suspended at (`placeOrder` waits twice: for the order book and for the
submission); the record's other fields are the locals used after the await.
`PlaceBegin` is the code up to the first await, `PlaceSubmit`, `PlaceRefused`
and `PlaceDuplicate` the ways it goes on, `PlaceAccepted` and `PlaceError` what
follows the submission.  A caller has one call at a time, several callers run
interleaved.

The exchange is an environment. A submission on the `wire` arrives once, at any
time, even after the call that made it got an error, or never. Cancel, cancel-all,
listing and status requests are read-modify actions of the exchange that may be
repeated (a retried attempt) and are never certain to be answered; orders fill,
expire and are closed by their owner at any time.

Data is abstracted to what the properties tell apart: a signal is its key, an
order is its state, key and external id. Prices, sizes, books and the checks on
them appear as a choice (`PlaceRefused` is always possible), fills as whole or
partial with or without a loss that halts. Counters saturate at the value the
code compares them with.

`EventLoop` adds where the tick is (`pc`), the recommendations left, the progress
of each handler, and two sets of ages: orders beyond `orderTimeoutMs` (`aged`)
and beyond `stuckOrderTimeoutMs` (`stuck`). Here `Callers` is the tick and the
signal handlers, so the engine is called only as the program calls it.

`Recovery` adds what happens between one process and the next. A crash takes the
memory; the snapshot file, the exchange and submissions on the wire stay. `phase`
says which await of `init` or of a reconciliation the one caller, `Tick`, is at
(`"positions"` stands for the wallet requests of the recovery); in the phase `"tick"` it calls
the engine as the tick does, in any order. The shutdown handler is a sweep
followed by a crash, its flush one more write. The writer copies the open orders
when it begins and replaces the file when it ends; a write that changes nothing
is left out. `recKey[e]` is the key that `recoverySignalKey` computes for an
order: its market, token, side and creation time never change, and two orders may agree
in them. Deduper entries do not expire here, since a key's 30 s bucket is over long
before its 5 min entry, and the UTC day does not change. `issued` (the signal
that each order was made for, across processes) and `found` (the last recovery's list) are
history variables.

`Recorder` has one activity, `loop`, which is `start()` and then its rounds, and
one call of `stop()`. The book requests of a round are in flight together
(`asked`); each answer is an action, and the one that is last goes on with the
round in the same action, as `Promise.all` does. `timer` keeps three values,
because the code tests whether `this._timer` is null and never clears it when
it fires. The records written are a sequence, with the file they went to. The
wallet-trade feed delivers any set of trades of its window, again and again; the
clock runs on during a round, up to `RoundTime`.

`SimOrders` takes a tick of the simulator apart: the tick is a pure function, and
its steps are actions so that the market's choices (how much of a child order is
matched, or slips; whether the price has drifted) are separate. Orders live in one table,
the lists of the code hold their ids. `reconcile` always leaves the fill keys of
the ledger and the positions of the ledger, so positions are not a variable.

`Accounts` is the part of the live runtime that counts. Order records are reduced
to open or not (`ExecutionEngine` has the rest), but have sizes, and so do fills:
`account` is what the exchange's fills make of each token, `positions` what the
store believes, `pending` the fills whose events have not come. `PlaceOrder` is
`placeOrder` with all its gates, `ApplyFill` is `applyFill`, which drops the event
of a record that was closed before; a reconciliation reads one balance
(`BalanceAsked`) and writes it after the await (`BalanceReturns`). Since the tick is
one thread, no order is placed between the two, but fills happen. `FillEvents` says
whether anybody calls `applyFill`: nobody does in the runtime as it stands, so the
passing run shows what the code promises a caller, and `daily_loss` what happens
without one. Prices are integers, and the average price is rounded where `round4` rounds it.

`Breaker` takes the same tick apart as `SimOrders`, from the side of its reports: an
order that is advanced may fill, slip, be filled poorly or end rejected, a
recommendation is approved or refused by the check of `PreTrade`, and `EndTick` is
`updateCB`, one definition for each of its lines. Of the recorded events only what
the thresholds look at is kept, so lists of slips are sequences and the others
counts. Time is counted in ticks since the last trip. `Breached` takes drawdown and
exposure as an input: with the ledger empty neither is ever in breach today.

In `Backtest` the recording is the environment: any book of a small set may come for
a token, then a tick. A tick is taken apart into the time stop, one token after the
other, and the recommendations, at most one a token, of any size. `Decide` ends the
first part, during warm-up the whole tick. `due` and `sold` are history variables.
Prices are multiples of a unit that keeps every average whole.

## 3. Runs

| run | question | instance |
|---|---|---|
| `engine` | do the store, risk engine and exchange agree whatever two callers do? does the engine implement the ledger? | 2 callers, 1 key, 2 orders, 2 external ids |
| `loop` | the same for the real callers: the order limit, nothing after a stop | tick and one handler, 2 keys, 2 orders, limit 1, 2 recommendations a tick, one UTC day |
| `loop_live` | does everything resolve, under fairness? | tick and one handler, 1 key, 1 order, day changes allowed |
| `stop_cancels_all` | is anything left when the process has ended? | as `loop`, no request fails |
| `recovery` | after crashes at any step and stale snapshots, is every listed order known, and still open? | 1 signal key, 2 recovery keys, 3 orders, 2 external ids, 3 boots, requests and writes that fail |
| `recovery_duplicates` | is a signal that was acted on placed again after a restart? | the same, 2 boots, nothing fails |
| `accounts` | do positions keep their value and agree with the exchange? does the cap hold? does a day's loss end the day? | 1 token, 2 orders of at most 2 contracts, 3 books, a restored position |
| `daily_loss` | is a loss noticed in the runtime as it is wired? | the same, no fill events |
| `recorder` | are the records what the backtester relies on: whole rounds, in order, in their files, each trade once? do rounds and stops end? | 2 tokens of which one is traded, 2 rounds, hours of one tick |
| `sim_orders` | is any order lost between the queues? do chains end? do child orders stay within the order? is a partial fill resolved, under fairness? | 2 new orders of size 3, patient, with aggressive unwinds, retry budget 1, limits of one spawn |
| `breaker` | is the breaker closed only when healthy, open long enough, and closed for good in quiet times? do sizing and check agree? | 1 order alive, 2 recommendations a tick, windows and thresholds of 1 to 3, a recovery of 2 ticks, the real limits of sizes |
| `backtest` | do the accounts add up, and is every exit tried? | 1 token, 5 books, 8 ticks, holds and retries of 2 ticks |

**Bounds.** Every property speaks of at most two orders, so two order ids and two
external ids show a violation if there is one. One key makes every pair of
orders compete for the signal; the loop uses two, because its questions are about
the order limit. With two callers every method can overtake every other one, and
itself. `MaxRejects`, `MaxErrors` and `MaxConcurrent` are the smallest values at
which the thresholds are met and can be missed. The order ids are never reused:
a run ends when they are spent, and the loop idles (it may stop altogether, so
deadlock is checked for the engine and not for the loop, which ends at exit).

In `Recovery`, three boots are a process that places, one that recovers the order
and saves both records of it, and one that restores both; two external ids, with
recovery keys shared or distinct, are two orders whose records compete. Three
order ids are one order and its recovered record, and a second order.

In `Recorder`, two tokens give concurrent requests of which one retires a token
while the other is in flight; the second round is the first with a left-over
timer. The dedup question needs two rounds: one that writes the trade late, and the
next, which prunes when the trade is exactly `Ttl` old and sees it again. It is asked under `Ttl >= Window + RoundTime`
(30 minutes against the feed's about seven, the reason the code gives).

In `Accounts`, one order after another takes a position through zero, and two at
once exceed the cap that each was checked against; the three books are one
with two levels, one that is too thin and one that is too wide, so that every gate
both passes and refuses. In `Breaker`, a window beyond its threshold shows what
stays in a list after a trip; two ticks of recovery are the least that can be cut
short; the sizes asked for lie on both sides of every limit. In `Backtest`, the books
differ in whether all, a part or nothing of a position can be sold, two of them with
the same best bid; eight ticks are a purchase, its hold, a failed exit, its retry
time and a purchase in the same token again. Tokens share only the cash.

In `SimOrders`, size 3 gives a patient order two children (the other sliced
strategies differ in the size of a slice alone) and an order whose remainder is
below the smallest quantity as well as one above it. A budget of one retry and a
spawn depth of one let each chain run into its end; two orders are enough to
exceed the limit of one spawn a tick. Deadlock is checked, which also shows that
the bound `MaxOrders` never stops a spawn.

**Fairness** (`recorder`). Requests end, because the client gives each a
timeout, and ready continuations run. The timer is part of the loop. Nobody has
to call `stop`. (`sim_orders`, `breaker`) Ticks come every two seconds and run
through, in `breaker` while the dashboard runs; nobody has to press the button, and
nothing is assumed of what ticks report: the two liveness properties are about
runs whose reports turn good. (`accounts`) The loop goes on with its passes, not
every balance request fails, and events are delivered.

**Fairness** (`loop_live`). Weak fairness of the tick, of a handler that has
started, of process exit and of every suspended call: Node runs every ready
continuation. Weak fairness of answers and of submissions: `withRetry` makes
finitely many attempts, each with a timeout, and a request does not travel for
ever. Orders age because time passes. Strong fairness of the answer to cancel-all
and of its arrival: the halted loop repeats it each tick, and the assumption is
that it does not fail every time. Neither a signal nor a fill nor the exchange's
own cancellation is fair.

**What they show.** The passing runs show the properties of section 1 for
orders, limits, halting, recovery, accounts, recording, the simulator's orders and
breaker and the backtest. The others
show disagreements between what the repository says and what the code does:

* `stop_cancels_all`: a submission in flight when the stop signal comes is
  accepted after the cancel-all and rests when the process has ended
  (`docs/LIVE_RUNBOOK.md:156` names this the path that cancels all).
* `recovery_duplicates`: a recovered order gets a key of its own source and action, so
  it blocks no signal. An order that was placed after the last snapshot is placed
  again (`startupRecovery.js:6`, `:17`).
* `daily_loss`: nothing in the runtime calls `applyFill`, the only place where a loss
  is realized, so the daily loss limit never trips (`CHANGELOG.md:284` lists it).

Met while modelling, without a run of their own:

* `placeOrder` asks the kill switch only before it awaits the order book. The risk
  engine's halt, asked after it, is lifted by the first call of a new UTC day, and
  the order goes out (`docs/OPERATIONS.md:168`: "Trading operations are blocked").
* The recorder's `this._timer` still holds the handle of the timer that started the
  round, so from the second round on `stop()` closes the file under it and does
  not wait; the rest of the round is lost (`recorder.js:335`).
* The key of a simulated fill is marked as known before `applyFills` tests it, so no
  fill ever reaches the ledger or a position (`tick.js:94`). With the ledger empty the
  simulator has no exposure, no drawdown and no PnL.
* The pre-trade check refuses sizes below 15 (`risk.js:144`) although the sizing's
  floor is 5 contracts and 5 dollars; `config.js:18` says why a fixed 15 had to go. A
  recommendation in between, as the last room of a position often is, is counted as a
  reject, and eight of these trip the breaker.
* While the breaker is open every recommendation is refused and recorded as a
  reject, so that it may trip again in the very call of `updateCB` that let it
  recover. `QuietRecovers` speaks of times without refusals for this reason.
* An active order's last slip is recorded again at every later tick (`tick.js:224`),
  and fills of orders from before a trip count as probes (`tick.js:228`).
* The drawdown scale is applied twice, by the sizing (`alpha.js:271`) and the check
  (`risk.js:92`); the sizing uses the exposure of the last tick (`tick.js:193`).
* In the backtest a position whose exit failed, or succeeded in part, may be extended
  by a recommendation of the same tick, contrary to `runner.js:285`. The retry time of
  failed exits does not bound a bid that jitters (`runner.js:209` says it does): only
  the last failed bid is remembered. A sale by signal of more than is held pays the
  fee on, and has the average price of, the size before it is clamped.
* An order that reduces a position which is above the cap is refused while the
  position stays above it (`risk_engine/index.js:185`). The slippage check takes the
  absolute difference, so a better price is refused as well (`:199`).
* A record that is closed by a status answer before the event of its fill has come
  drops the event, and its profit is never recorded; a fill that a balance
  has shown before its event comes is counted twice until the next balance. Positions
  that reconciliation restores have an average price of zero. The profit of the day
  and the halts do not survive a restart.
* A `stop()` of the recorder while `start()` still opens its file waits for a
  round that never begins.
* A simulated order that is filled in part forgets this when it is retried and
  executes more than its size (`system.js:56` expects otherwise); an unwind that
  is filled in part is unwound again, which opens the position again
  (`execution.js:200`); a deferred replacement is reported missing (`system.js:73`).
* Of two remote orders with the same recovery key only the first gets a record
  (`startupRecovery.js:146`); `KnownAfterRecovery` excepts them.
* A reconciliation whose list fails empties the risk engine's open-order set
  (`reconciliation.js:246`), so `TrackedCoversLive` holds in `EventLoop` only.
* A record restored in SIGNAL_DETECTED is never resolved, contrary to
  `snapshot.js:208`, which knows only of placed orders. A recovery that was not ok is never
  retried. The kill switch's halt is saved, but not restored.

## 4. Proofs

Assumptions: `None` is no key, order or external id; order ids and external ids
are different values; limits are positive naturals; for the loop, the callers are
the tick and the handlers, and the sets of ids are finite. Nothing bounds
the number of callers, keys, orders or external ids.

`EngineInv` is the inductive invariant of the engine. Its parts beyond the
properties are why these hold:

* `LatestIsOpen`: the entry of a key in the store's signal map is the only order
  of the key that may be open. `OneOpenOrderPerSignal` follows; alone it is not
  inductive, because the store only looks at that entry.
* `WireAndBook`: what is on the wire was never accepted, and its record has no
  external id. So an acceptance is always the first of its order.
* `CallsKnow`: what a suspended call holds is still true where it matters: the
  external id it read is still its order's, and an answer it was given cannot be
  overtaken, because the exchange never reopens an order.

`AtMostOneLiveOrder` follows from the invariant. `EngineImplementsLedger` maps
every step to one of the ledger's or to a stutter. `EventLoopProofs` adds
`LoopInv`: handlers only sweep (`SignalsSweep`), so the tick's listing still
covers the working orders when it is installed (`ListCovers`), the room its risk
check found is still there when the order is accepted (`SubmitHasRoom`), and an
answered sweep left nothing (`SweptClean`). These are exactly the facts that make
the check-then-await code safe for one tick loop, and they fail for two.
`LoopUsesEngine` shows that every behaviour of the loop is one of the engine.
`NothingEntersAfterStop` needs the assumption that the day does not change: the
first risk call of a new day lifts the stop. `OneOpenOrder`, `InFlightOrdersOwned`,
`TrackedCovers` and `ClosedStaysGone` are theorems about parts of these invariants
that no run lists on its own.

`AccountsProofs` assumes of the limits that they are naturals and of the books that
they have a best price. `GateKeepsLimits` and `EveryFillKeepsValue` are facts of the
operators, for every size, price and position, the second by cases on whether a fill
adds, reduces, closes or turns the position. `AccountsInv` adds to the types that a fill
waiting to be reported is of an order that is still known (`PendingKnown`), without
which `ApplyFill` could not be followed, and that a day's profit at the limit has
halted the risk engine or the day is over (`LossHalts`): the history variable
`lossSeen` alone says nothing of the state. `StoreKeepsValue` and `LossEndsTheDay`
follow. `CapHolds` assumes that what is held at the start is within the cap, which the
code does not check: its orders reduce a larger position, but nothing else would. The
cap alone is not inductive: an order that rests may be filled long after its check.
`CapKnown` counts it from the day it is placed: even if all that rests on one side of a
token were filled, the account would be within the cap and what was placed blindly.
`FitsIn` states that sum by its partial sums, so a step that changes one order shifts
those after it, and no induction over the orders is needed.

`BreakerProofs` assumes that each threshold is within its window. `BreakerInv` is the
types, `HealthyUnlessOpen` and `AgeKnown`: no more ticks have passed since the last
trip of an open breaker than it was seen open, so that one that lets go was seen
open for the recovery time, which is `PauseIsKept`. The step of a tick's end rests on
`TickLeavesHealthy`, which goes through `updateCB` check by check, each of which keeps
what the ones before it have cleared. `VerdictKeepsLimits` and `CheckKeepsSize` are about `PreTrade` alone:
although the check lowers the size in another order than the sizing does, a size
that is within every limit passes each check unchanged.

`RecorderProofs` assumes that the deduper remembers a trade for as long as the feed may
repeat it and a round may last, as the defaults do. `RecorderInv` says what of a round is
on disk at each await: the records since the last marker are as many books as were
counted, each of a token that was answered and in the file that is open (`RoundKnown`,
`Counts`), and the number of the last marker is the counter's; files are those of the
round's hour (`FilesKnown`); what the deduper remembers was born before its round was
over, and what it has forgotten the feed has forgotten too (`TradesKnown`). The log
keeps only the round in progress and the marker before it: `RecentIs` and `CountGrows`
are about that cut.

`SimOrdersProofs` assumes that sizes and slices are positive and that `None` is neither a
number nor an order in hand. `SimInv` follows an order through the tick: every id that
was given out is in exactly one of the six lists and the hand, and there once
(`NoneTwiceAnywhere`, `OnePlace`); which of them are empty between the passes
(`PhaseKnown`); history holds what is over (`HistoryIsOver`). An order that has a
successor is over and no longer changes (`ParentsOver`), so what `ChainsEnd` says of a
pair stays true once it is said. The lemmas `OneChanges`, `OneComes` and `OneSpawned` are
the three ways the table of orders changes, `Follows` what a step may do to an order it
works on; each action is an instance of them. The fills of a tick are a set: no two
have the same key.

`ActiveOrdersRest` needs sums over the children of an order. `MapThenSumSet` is a
recursive choice; `SizeSumFacts` gets from it, by `SetInduction`, that the sum of a
set is the size of any member and the sum of the others, and the rest goes by that.
`RestInv` says of an order that waits that its children are told apart by number and
generation, and that what was filled whole and what waits is no more than its size
(`Rests`). In hand it says so of the child that was reached (`Worked`): what has been
counted covers the filled children before it, and with all that is ahead stays within
the size. That both sums are needed is the point: a filled child is counted again in
every tick and a partial match only in its own, so the count of an order alone would
not bear the next pass. `Unmatched` says that a child that waits has no key among
those of the tick, although deferred and spawned orders are taken again in it: what is
matched makes the order partial, and that takes it off the book or slices it anew with
the next generation (`RetriedRests`). `KeysKnown` says that all fills' keys are
known, and so has a consequence of its own, `LedgerStaysEmpty`: the defect of
`applyFills` in section 3, for every market and not only in the states TLC saw.

`RecoveryProofs` assumes that the process is one caller, that the keys a recovery makes
are keys of orders and no signals, and that there is at least one start. `EngineInv`
does not hold here: a restart brings back stale records, leaves orders on the exchange that no
record names, and makes two records of one order. What holds of records whatever
their age is `RecordsKnown`, of the store, the file and the draft of a snapshot alike:
an external id in a record was given by the exchange, a record that a recovery made
has the id its key came from, and of the records with one recovery key at most one is
not over. `RestoredKnown` says where the two indexes lead between the load of the file and
the answer of the exchange, which is why a recovery that passes over a listed
order passes over one that has a working record, as `KnownAfterRecovery` asks.
`IndexKnown` and `TickKnows` keep the rest of the process's memory right from await to
await, and `ClosedRecordsAreGone` follows as in the engine: the exchange reopens
nothing. The steps are in three families: the exchange (`ExchangeGoesOn`), what changes
the call only (`CallGoesOn`), what moves records on (`OrdersSettle`); starts, recoveries and
snapshots are done one by one.

`BacktestProofs` assumes of a recording that it has finitely many tokens and that its
prices and sizes are natural numbers.
`FillKeepsLimits` is about `simulateFill` alone, for every book: a level is taken only
while the average of all that was taken stays within the slippage limit, so the limit
holds level by level along the fold that walks the book. `BacktestInv` adds to
the types and the two properties that a position was opened before now
(`OpenedBefore`), or a failure noted later could be older than its position, and that
what the sweep at the end has passed was sold or could not be (`SweepKnown`). What
`ExitsAreTried` asks for is lost only when a book or the time moves, and then
every position is to be looked at again.

The accounts are about a sum over tokens (`Cost`), so the proof first shows that such
a sum exists, is a natural number and does not depend on the order of its terms
(`AddsExists`, `AddsAny`, `CostFacts`), and that changing one position changes one term
(`OneCostChanges`). `Rounded` is what profit and fees leave unexplained of the
equity. `OnlyAveragesRound`: it changes in purchases only, and there by the remainder of the
division that makes the new average (`Remainder`); sales, fees and the clamp of
a sale of more than is held leave it as it is, also where the price of the sale
is rounded, since cash and profit take the same price. So it never falls below
zero (`NoEquityFromNowhere`). The code keeps fractions: it has no remainders, and without
remainders `EquityExplained` holds throughout (`EquityAddsUp`). That premise,
`AveragesAreEven`, is about the unit of the model's prices and not about the code; the
run's prices are multiples of 36 and meet it.

The library states induction for an operator, which the provers cannot
instantiate; `SetInduction` states it for a set of naturals, from the
well-foundedness of their order, and is used wherever a fold or a sum is walked.

Only model-checked: the liveness properties, which are out of the prover's reach, as is
ENABLED. Every safety property of a passing run is stated by a theorem, `EquityExplained`
under the premise above.

## 5. Not modelled

* In the live runtime: paper mode (fills inline, no exchange); the kill file and the
  failure-rate window (a nondeterministic trigger); malformed orders; the order
  builder's floating-point rounding, salts and signing; alerts, health,
  observability and logging, which nothing in trading reads back; HTTP and SDK shapes;
  the key's timestamp bucket and the eviction of the deduper.
* Numbers: the signal engine, the simulator's markets, alphas and regimes, the research
  statistics and the backtest's metrics are floating-point formulas without state
  worth the name. Where their results decide something they are nondeterministic.
* `src/versions` holds six earlier single-file releases of the dashboard, which
  nothing imports, and `scripts` is tests and command-line front ends. Together they
  are two thirds of the repository's lines, so most of it by count is outside of
  these models by choice: a model of an archived copy would say nothing about the
  program that runs.

See `PROJECT.json` for each component.

## 6. Plan

1. Done: `OrderStateMachine`, `ExecutionEngine`, `EventLoop`, `OrderLedger`, proved.
2. Done: `Recorder`, proved.
3. Done: `SimOrders`, proved. Left: the pruning of the order history.
4. Done: `Recovery`, with reconciliation and crashes, proved. Left: its liveness (every
   order that rests is known or gone at last) and an abstract specification
   (an order is restored once).
5. Done: `PreTrade` and `Breaker`, proved.
6. Done: `PositionStore`, `OrderGate`, `Accounts`, `Backtest`, proved. Left: a restart in
   `Accounts`, which forgets the loss of the day.
7. Left: alerts with their cool-downs, `SignalDeduper` with its buckets.
