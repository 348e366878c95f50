# A TLA+ model of daytrade

daytrade is a paper-trading observatory with an optional live broker.  A bot
process scans a watchlist in cycles, opens and closes (paper) positions, scores
its predictions, raises alerts and keeps a 30-day learning window; all of it goes
to one SQLite database that a dashboard reads.  A backtest replays bars over the
same risk engine, broker and fusion.  This directory holds TLA+ modules of the
parts that keep state, TLC configurations that check them on small instances, and
theorems that TLAPS proves for every instance.

## 1. Inventory

Paths are below `src/src/daytrade/`.

| part | state it keeps | operations | talks to | modules |
|---|---|---|---|---|
| Observer, `observatory/observer.py` | `_open`, `_cycle`, `_stop`, cooldown, consecutive failures, equity peak, `_last_day` | `start`, `run_once`, `run_forever`, `stop`, signal handlers | all of the below | Observer, Bookkeeping |
| ObservatoryDB, `observatory/database.py` | SQLite tables; one connection with its open transaction and batch depth | one writer per table, `batch`, retries on a locked database | every process | ObservatoryDB, BotRuns, LearningSession |
| Trading broker, `observatory/trading_broker.py` | none of its own | `open_long`, `close_long` to the table (paper), or to the live broker and the table | database, live broker | ObservatoryDB, LiveTrading |
| Live broker, `live/broker.py` | lots, loss of the day, halted day | `submit_market_order` | exchange adapters | LiveBroker |
| Exchange adapters, `live/exchange.py`, `live/binance.py`; order ids, `ops/order_ids.py` | balances and seen client order ids (mock); the exchange itself (Binance) | `place_market_order` | live broker | Venue |
| Risk engine, `risk/` | cooldown bar, daily and weekly baselines | `observe_equity`, `register_trade_close`, `evaluate_entry`, `execute` | observer, backtest | RiskEngine |
| Paper broker, `paper/broker.py` | cash, lots, realised PnL, fees, closed trades | `submit_market_order`, `equity` | backtest | PaperBroker |
| Fusion, `fusion/engine.py`; kill switch, `safety/killswitch.py` | none | `decide` | backtest, observer | Fusion |
| Labels, `labels/generate.py`; their barriers, `ml/meta.py` | none | `triple_barrier_label`, `barrier_distances` | the meta-model | Labels, Backtest |
| Backtest, `backtest/engine.py` | the open trade | `run`, one loop over the bars | the four above | Backtest |
| Market feed, `observatory/real_feed.py` | candles per symbol, close per minute | `candles_at`, `price_at`, the observer's warm-up | observer | MarketFeed |
| Entry gates, `observatory/regime_gate.py`, `observatory/calibration.py` | what they read of the outcomes | regime gate, isotonic calibrator | observer | EntryGates |
| Prediction tracker, `observatory/prediction_tracker.py` | rows of `predictions` and `prediction_outcomes` | `evaluate_prediction`, `build_prediction_memory`, the observer's queue | observer, feed | PredictionTracker, Evaluations |
| Alerts, `observatory/alerts.py`; safety score, `observatory/safety_score.py` | last emission of each kind | `emit`, condition alerts, score | observer | Alerts, Safety, AlertDesk |
| Metrics and day rollover | rows of `safety_scores`, `daily_metrics` | equity peak, `_day_rollover` | observer | DayBook |
| Instance lock, `ops/instance_lock.py` | one PID file per lock name | `acquire`, `release` | `learn`, `observe` | InstanceLock |
| Learning session, `observatory/learning.py` | rows of `learning_sessions` | `resume_or_create`, progress, end | observer, `learn` | LearningSession, Supervision |
| Run registry, `bot_runs` | rows with pid and status | mark dangling, start, heartbeat, stop, current run | observer, dashboard | BotRuns, Supervision |
| Commands, `cli/main.py` | -- | `learn`, `observe` | all of the above | Supervision, SharedTable |
| Readiness, reconciliation, shadow, approval, ML, screening, dashboard, mission control, reporting, remote log | see section 5 | | | -- |

What is hard here, and hard to test:

* **A write that half happens.**  A cycle is one database batch followed by single
  writes.  `_RetryingConnection` gives up after its retries, and a statement whose
  commit raised stays pending on the connection, to be committed or rolled back by
  whichever write comes next.  `_open` in memory is never rolled back.
* **Crashes and restarts.**  The process can die between any two steps.  The next
  one rebuilds `_open` from the table; cooldown, position ages, live lots, the loss
  of the day, alert cooldowns and the day it was working on are gone.
* **Orders whose answer is lost**, partial fills, and calls repeated in the same
  60-second bucket; a fill whose row is rolled back.
* **Several processes.**  `learn` and `observe` take different locks and share the
  database; two starts of one command race for a lock file that is read, probed and
  written in separate steps; pids are reused.
* **Stale data.**  Candles are cached while their minute is still open; a blocked
  regime must keep predicting so that its gate can open again.
* **Time.**  UTC midnight, the loss cap and the daily row; a learning window that ends
  while the bot is stopped; a prediction whose horizon passes while nobody looks.

`hazards` in `PROJECT.json` lists each with its line and its properties.

What makes each part correct:

* observer and table: one open row per symbol; every open row is managed; nothing is
  managed that the table does not hold; the position limit; a trade is closed once;
  the time-stop; a stop request is honoured; the committed table is a ledger;
* live broker: limits hold whatever fills arrive; the broker never believes to hold
  more than the venue; a repeated call buys nothing twice; the loss cap stops entries;
  venue, broker, memory and table agree;
* backtest: the books balance; limits and cooldown hold; what a label calls a
  win the loop pays;
* bookkeeping: an outcome is that of the whole horizon and is final; a critical condition
  is heard; drawdown is measured from the best equity; a day is not lost silently; gates
  open again; a prediction is judged by a candle's final close;
* lock: one owner, and the file names it;
* learning window: its clock is not reset, a settled window stays settled, duplicates
  are folded into one;
* run registry: a live bot's row says `running`, and the dashboard shows it.

## 2. Modules

`A <-- B`: B extends A.  Modules named `MC...` give constants their values for TLC,
modules named `...Proofs` hold theorems.

    ObservatoryDB <-- Observer <-- MCObserver, ObserverProofs
    PaperLedger                          (instantiated by Observer)
    Venue <-- LiveBroker <-- LiveTrading <-- MCLiveTrading, LiveTradingProofs
    RiskEngine, PaperBroker, Fusion, Labels <-- Backtest <-- MCBacktest, BacktestProofs
    ObserverProcess, PredictionTracker <-- Evaluations <-- EvaluationsProofs
    ObserverProcess, Safety, Alerts    <-- AlertDesk
    ObserverProcess                    <-- DayBook <-- DayBookProofs
    MarketFeed, EntryGates, Evaluations, AlertDesk, DayBook <-- Bookkeeping <-- MCBookkeeping
    Bookkeeping, EvaluationsProofs, DayBookProofs <-- BookkeepingProofs
    InstanceLock, BotRuns, LearningSession <-- Supervision <-- MCSupervision
    InstanceLock <-- MCInstanceLock, InstanceLockProofs
    Supervision, InstanceLockProofs <-- SupervisionProofs
    InstanceLock, ObservatoryDB <-- SharedTable <-- MCSharedTable

Definitions commented "Mutant" are faults of the kind a change of the code could
introduce; nothing uses them in the specifications.  They serve to test that each
property notices its fault.  `map` in `PROJECT.json` leads from every definition to
the lines it models.

### The positions of the observer

**ObservatoryDB** is `paper_trades` as one connection sees it: `disk` (committed),
`conn` (with the open transaction), `pending`, and the number of outages so far.
`Saved` is a statement with its commit, `Raised` one of the two failing, `Deferred` a
statement inside `batch()`, `BatchAborted` its except clause, `Disconnected` the loss
of the transaction with its process.  Row ids are positions, so an id is handed out
again after a rollback as AUTOINCREMENT does.

**Observer** is the bot process around it.  `pc` names the part of `run_once` and
`run_forever` at work: `idle`, `scan` (the batch), `retrain`, `evaluate`, `manage`,
`record`, `failed` (the except clause), `exiting` (the finally block).  The scan
visits the symbols of `todo` one action each (`ObserveOnly`, `OpenPosition`) in any
order, as do the exits (`NoPrice`, `Hold`, `ClosePosition`, `CloseFails`).  `Crash` and
`RequestStop` are enabled throughout.  What is abstracted: a price is "stop", "target"
or "between" -- hence the choice between `Hold` and `ClosePosition` with a loss or a
gain; the gates in front of an order are a choice here and the subject of EntryGates;
the cycle counter is kept as the age of each position (`NoAge` for a re-adopted one,
which has no `opened_cycle`) and as the rest of the cooldown.  Writes to other tables
matter by what they do to the pending transaction: `BestEffort` for `_activity`,
`RaisedMidway` for a group one of which raises.

**PaperLedger** is what the table promises its readers, with no connection, no
transaction and no process in it: one step opens and settles trades, any number at
once; trades are never lost, reordered or reopened, and the open ones keep to the limits.
`ImplementsLedger` maps its `book` to the rows on `disk`.

**SharedTable** is two observers under two locks over one table.  Each write commits by
itself there: batches and failures are Observer's subject.

### The live broker

**Venue** and **LiveBroker**: one action is one call of `submit_market_order` with one outcome:
filled (`Buy`, `Sell`), answered with a prior fill by the mock (`BuyAgain`, `SellAgain`),
executed with the answer lost (`BuyUnconfirmed`, `SellUnconfirmed`), refused (`Refused`).  Every
one of them begins with `_roll_daily_state`.  An id stands for (symbol, side, 60-second bucket),
and `filled` keeps the ids of the current bucket. Prices are left out; the loss a SELL realises
is a choice.  `bought` and `realised` are history variables.  A restart empties the broker; it
empties a mock exchange too, which lives in the process, while Binance keeps what it holds
(`Rebuilt`).  A fill counts whole: the commission Binance may take off a BUY in the base asset
is not modelled.  That Binance refuses a client order id it has filled is what the code relies
on, not something its source can show.

**LiveTrading** puts `LiveBrokerAdapter` and the observer around it, so that a position is
known four times: by the venue (`held`), the broker (`lots`), the observer's memory
(`tracked`) and the table (`row`, and `saved` on disk).  An order is executed first and its
row written after it; the row can raise, be rolled back with the scan's batch, or be lost
in a crash.  In the repository `shadow` is the one command that builds a LiveBroker: its
exchange reads from Binance and fills in a mock, under its own lock and with its own
database, which is the mock adapter here.

### The backtest

**RiskEngine** and **PaperBroker** keep their state in one record each and are operators
on it; **Fusion** is the decision of a bar and the kill switch; **Labels** the
triple-barrier label.  **Backtest** is the loop: mark to market (`NextBar`), close at
stop, target or time-stop (`ExitTrade`) or keep (`KeepTrade`), take an entry or not
(`Enter`, `Skip`), end at any bar (`Finish`).  `LabelOfEntry` is the label
`ml/meta.py` computes for the bar of the entry: `seen` keeps that bar's close and volatility
unit and the bars since, as history.  Money and prices are whole numbers, shares
and thresholds percent; a layer's view of a bar is an input.  As in the code, an entry is
filled at the decision's price whatever the market does; a partial exit drops the note of
the open trade and leaves the rest of the lot to nobody; and the trade then taken from
`closed_trades[-1]` is the previous one, whose loss starts the cooldown again.

### The bookkeeping of the observer

**ObserverProcess** is the process as these parts see it: it wakes, takes the time, goes
through the steps of a cycle, sleeps; it may die at every step, and each write may raise.
**Evaluations** are the predictions with their queue (`EvalPerCycle` a cycle, oldest first)
over **PredictionTracker**, which says what an outcome is.  **AlertDesk** goes from what the
scan found (**Safety**) to the alerts (**Alerts**) and their rows; an alert is written twice,
by `emit` and by `run_once` after it, and `muted` notes the kinds whose delivery started the
cooldown and left no row.  **DayBook** is equity peak, cycle counter, day rollover.
**MarketFeed** is the feed with its two caches and the parallel warm-up; a candle's close is
the tick of its last trade, so that the candle of the minute at work is told from the final
one.  An answer of the exchange goes into the caches as `candles_at` puts it there: the candles
(`Keep`), then their closes one by one (`KeepClose`, `storing` is where it has got to), while
the workers of other symbols do the same.  **EntryGates** are regime gate and calibration gate
over the window of outcomes they read, with the isotonic fit over two stated confidences
(`Isotonic`).  **Bookkeeping** runs them.  Each takes what it reads of another (price, accuracy,
drawdown) as an input of any value, so they share no state and a behaviour of the whole is one
of a part, chosen initially by `part`; the run checks the five in one.

### The processes

**InstanceLock** takes `acquire()` apart into reading the file, judging the pid, emptying
the file and writing it, and `release()` into the comparison and the unlink, for any
number of processes, locks and reused pids.  `raced` is a history variable: the locks of
which two acquires overlapped.

**BotRuns** and **LearningSession** hold the operations on the two tables;
**Supervision** is the bot processes that use them under their locks: resume or create
the window, mark dangling runs, register, cycle, settle, stop, release.  A write that
raises, an exception and a crash can come at each step.  A cycle is its effect on the two
tables here; what it does to positions is Observer.

## 3. Runs

| run | instance | states | what it shows |
|---|---|---|---|
| `observer` | 3 symbols, 2 positions, 4 rows, 2 outages, hold and cooldown of 1, abort after 2 | 1.37 M | memory and table agree through every order of failed writes, crashes and stops; the committed table implements PaperLedger |
| `observer_liveness` | 2 symbols, 1 outage, hold of 2 | 17 k | time-stop and stop request, under the fairness below |
| `live_broker` | 2 symbols, both adapters, 4 minutes in 2 days, 1 lost answer per side, 2 restarts, 1 failing write | 1.18 M | limits, fail-closed lots, loss cap; venue, broker, memory and table agree without faults, and the ledger never claims more than the venue holds |
| `bot_processes` | 2 starts of `learn` over 3 days with windows of 2, or one beside `observe`; 3 pids, 3 runs | 1.13 M | lock, learning window, `bot_runs` and the dashboard |
| `backtest` | 8 bars, 2 a day, 2 days a week, closes 5 to 7 and one wide bar, the shipped geometry (offset 1, stop 2, target 3 units), every layer for, against or without a view | 1.60 M | the books balance, limits and cooldown hold, labelled wins are paid |
| `bookkeeping` | 4 ticks, 2 symbols, 1 failing write, 1 crash | 486 k | predictions, alerts, days, feed and gates |
| `time_stop` | 1 symbol | -- | **violated**: a re-adopted position never times out |
| `live_restart` | both adapters | -- | **violated**: a re-adopted live position cannot be sold |
| `lock_race` | 2 processes | -- | **violated**: overlapping acquires both succeed |
| `learning_clock` | 1 process, 5 days | -- | **violated**: a window is opened while one is in progress |
| `label_geometry` | as `backtest` | -- | **violated**: a trade labelled a loss is sold at its target |
| `shared_table` | 2 processes, 1 symbol, 1 row | -- | **violated**: two observers sell one trade twice |

The last six are disagreements between the code and what its own documents say;
`findings` in `PROJECT.json` quotes the lines.  The properties of the passing runs are
stated so that they hold in spite of them: `TimeStopFires` speaks of positions this
process opened, `SerialMutex` of locks without overlapping acquires, `NeverAheadOfVenue`
of the Binance adapter, `FirstWindowKept` of the
first window.  Each assumption of that kind is in the property, and its comment.  Some
others say where the code's promise ends:

* `NoPhantomPosition` and `ClosedRowsFinal` need a database without outages: a rolled-back
  insert leaves its position in memory, and a close whose commit failed is repeated.
* `LedgerBacked` needs every executed SELL to have reached its row; `ViewsAgree` needs
  behaviours without faults, restarts and partial SELLs.  Both are about Binance: a mock
  answers a known id with the prior fill and the broker applies it again (`live/broker.py:226`),
  so its lots run ahead of what it holds, although `live/exchange.py:147-149` says "without
  applying it twice"; no run is about that.  The PnL the adapter writes to the row leaves
  the fee of the BUY out (`trading_broker.py:228-229`); the loss the live broker counts
  towards its cap includes it (`live/broker.py:252`).
* `TradesExplainCash` and `TradeIsHeld` allow for exits filled in part: what stays in the
  book then is managed by nobody, and `TradeRecord.pnl` covers the last leg alone.
* `LabelledWinsArePaid` is one direction.  `barrier_distances` (`ml/meta.py:43-57`) counts stop and
  target from the close, `_levels` (`fusion/engine.py:214-221`) from an entry
  `entry_offset_vol_mult` units below it, 1.0 as shipped.  Both barriers of the trade lie below
  those of the label, so a win is always paid, and a loss may be sold at its target
  (`label_geometry`), although `meta.py:44` says "matching the fusion geometry".  A label is
  compared once the bars up to the exit decide it; no later bar changes it then.  What is compared
  is how the exit is reached: that the backtest also fills the entry below the market is in the books.
* `CriticalConditionHeard` allows for a row that was lost: `emit` starts the cooldown before
  it writes, and `run_once`'s own insert (`observer.py:383`) is unguarded although
  `alerts.py:139` says "alerting must never crash the loop".
* `NoDayLostSilently` speaks of a process that worked on the day and outlived it; a restart
  forgets `_last_day`, and the day in which the bot was down at midnight has no row.
* `UptimeNotOverstated` is one-sided: `cycles_completed` is overwritten with the new
  process's counter after a restart.
* `SettledOutcomeIsFinal` leaves out predictions marked for want of data.  An outage that
  outlasts the retries marks up to 200 of them, for ever, although `observer.py:604` says "if
  Binance cannot return the kline now, it never will".
* `JudgedByFinalClose` holds once the minute was fetched again after it had ended.  Without
  that condition it fails: `candles_at` and `price_at` keep the close of the minute at work
  (`real_feed.py:162-163`, `:180`), and `price_at` answers from the cache ever after unless a later
  scan overwrites the entry, although the module's docstring says that only closed candles are
  kept.  No run is about that.

### Bounds

All are constants that appear in guards.

*Observer*: two outages are enough for one write to fail with its statement pending and for
the rollback after it to meet a second failure; four rows let an id be reused after a
rollback and a symbol be traded again; three symbols are one more than the position limit;
hold and cooldown of 1 distinguish "due" from "not due", and the liveness run has a hold of 2.

*LiveTrading*: one symbol more than the position limit, sizes up to one unit above the stake,
so that every limit can be missed by one; two buckets in a day and four in all, so that
calls fall on both sides of a bucket and of midnight; the second restart comes after
whatever the first one lost; the venue's stock is bounded by two stakes of a symbol.

*Supervision*: pids are reused; two runs are shown where the code shows five (`LIMIT 5`), so
that the limit is met within three rows; three days hold a window and the day after it.
Runs, sessions and days are bounded tables; a process that meets the bound waits there and
can still crash.  Two starts of `learn` over days, and `learn` beside `observe` within one,
are two initial states of the run (`crew`): together they would be out of reach, and the
siblings meet in `bot_runs` only.

*Backtest*: eight bars are two weeks of two days of two bars, so that both loss trackers start
anew; a cooldown of 2 and a hold of 2 are over before the bars are; the depth makes orders fill
in part, and fee and slippage are large enough to show in whole numbers.  A stop, a target and a
time-stop are all within reach of a window of two bars, the wide bar touches stop and target of
one entry, and a unit of 2 moves the barriers of the highest close.  `label_geometry` needs two
bars after an entry: one for the barrier of the label, one for that of the trade.

*Bookkeeping*: horizons of one and two ticks, so that an outcome can be of part of the
horizons; one evaluation a cycle over two rows, so that the queue is longer than its limit;
a cooldown of two ticks; days of one tick; two bars of a scan and three retained closes, so
that the close cache evicts; windows of two and three outcomes, so that records leave them;
one failing write and one crash, anywhere.  The accuracy is good: its alert, which the proof
includes, is one kind more among those that compete.

Deadlock is checked in every run.

### Fairness

`observer_liveness` and `time_stop`: `WF_vars(CycleStep)`, because `run_forever` is a loop
without a lock or a wait for anyone (its sleeps end), so a process that can take its next
step takes it unless it is killed; nothing is assumed about crashes, stops or starts.
`SF_vars(Priced(s))`: the feed answers for a symbol again and again, not always;
`_manage_positions` asks it in every cycle.  A database that fails for ever is excluded by the
bound on outages.  Without the feed's answer a position may stay for ever, which the code
accepts ("the next cycle retries").

`bookkeeping`: the same of the loop (`WF` of `EvaluatorRuns` and `GatesRun`), time passes
(`WF` of `TimePasses`), and the prediction of a cycle is scored again and again (`SF` of
`PredictionScored`); nothing about crashes, starts, outages or what the market does.
`GatesReopen` says what happens *if* predictions stop missing.

## 4. Proofs

The proof modules state theorems for all symbols, limits, prices, processes, pids and bounds
under the named assumptions of the modules (`DBAssumption`, `ObserverAssumption`, ...),
which say no more than that the sets are finite where they are counted, and that the
limits are numbers in the range the configuration accepts.

* **ObserverProofs**.  `OpenRowsManaged`, `OneOpenRowPerSymbol` and `PositionLimit` are
  inductive only together: the limit on the table follows from the limit in memory because
  every open row is tracked, and a new row is unique because its symbol was not.
  `OpenRowsManaged` speaks of `disk` and of `conn` because a rollback or a crash turns one
  into the other.  `SafeInv` adds `LifeCycle`: a process that is down has forgotten its
  positions and its transaction, and in `manage` only tracked symbols are visited.
  `NoPhantom` and `ClosedOnce` need the second invariant `FaultFree`, which speaks of
  behaviours without outages: every tracked position is backed, nothing is left pending
  outside the batch, and the batch leaves closed rows alone.
  `LedgerImplemented` is the refinement: every step of Observer is a step of PaperLedger or
  leaves its book alone.  Beyond `SafeInv` it needs that what the connection sees always
  continues the disk (`ConnContinues`), because a commit publishes several statements at once,
  some of them of a cycle that failed long before.
* **LiveTradingProofs**.  `BrokerInv`, of the broker alone, adds to the limits what a bucket's
  ids say of the units bought in it (`OneFillPerId`) and what the losses since the restart say
  of the loss and the halt in memory (`LossBooked`).
  `ImplementsBroker` is a refinement: each step of the observer is
  a call of LiveBroker or leaves it alone, so the broker's theorems carry over.  `TradingInv`
  adds to `BrokerInv` that the pending table claims no more than the venue holds, as the
  committed one does (`RowsBacked`: a scan's batch may be committed or rolled back), and that
  in a faultless behaviour all views but the disk agree during a scan (`ViewsInStep`).
* **InstanceLockProofs**.  The obligation is that an owner's file survives the steps of
  everybody else.  `LockInv` says that without a race at most one process is between reading
  the file and writing it, that a rival of an owner has read the owner's pid or has not read
  yet, and that live processes have different pids.
* **SupervisionProofs**.  `ImplementsLock` is a refinement: each step of the processes is
  a step of the lock or leaves it alone, so the theorems of the lock carry over.
  `NoSiblingMarksLive` rests on `RunInv`: a process at work has its lock, hence its pid,
  and its row carries that pid, so no sibling's probe finds it dead.  The theorems about the
  learning window rest on `WindowInv`: the rows are in the order of their starts and a completed
  one has elapsed (`WindowRows`); a process at work has a row to write to, and has decided on
  "completed" only when its window was over (`WindowJobs`); while the lock excludes, the first
  window is open and alone until it has elapsed and nobody is about to create another
  (`WindowOpen`).  That a second learner is not at work at the same time is `LockInv`.
  `LiveBotIsShown` counts: the running rows are never more than the bots that can be alive at
  once (`PidsFew`), because every bot marks the dangling rows before it inserts its own, which
  leaves only pids of the living, and nothing else adds a pid.  So all running rows are among
  those `current_bot_run` looks at as long as these are as many (`MaxAlive <= RunsShown`, five
  in the code), and a bot that runs has a running row by `LiveRunIsRunning`.
* **BacktestProofs**.  `BacktestInv` is the type invariant, `BooksBalance`, `TradeIsHeld` and
  what they need of each other: where the loop stands when it has a trade (`TradeInPlace`),
  that cash is explained by trades and lot (`TradesBooked`), and that the engine's baselines and
  cooldown are those of the day, the week and the loss in question (`BaselinesKnown`,
  `CooldownKnown`).  The last two turn the action properties into facts of one state.
  `WinsPaid` rests on a second invariant, `WindowWatched`: the barriers of the open trade are
  fusion's levels of the entry's close and unit (`BarriersPlaced`), and of the bars since then none
  but the one being judged is beyond one of them.  A bar that reaches the label's target reaches the
  trade's, which is no higher, so it is the bar of the exit; and it stays above the label's stop,
  hence above the trade's (`BarriersApart`).  This needs an offset of 0 or more and nothing else of
  the geometry.
* **DayBookProofs**, about `DaySpec`.  `DayInv` adds to `NoDayLostSilently` that the mark in
  memory is the best on record or better (`MarkKept`), that the counter of a process is not
  ahead of the cycles begun (`CyclesBegun`), and that days are worked on in order
  (`DaysInOrder`).
* **EvaluationsProofs**, about `EvaluationSpec`.  A settled prediction must never be in the queue
  again, and its outcome must be that of its whole horizon.  `QueueFresh` says that what is left
  of the queue of a cycle is in it once and is not settled; it holds when the queue is read
  because the queue is the pending predictions by their rank (a place is taken by one prediction
  only), and a settlement takes the prediction off it.  `SettledAtEnd` says that a settled
  outcome is computed from the prices up to the end of the horizon, which have all been seen by
  then and do not change when more are.
* **BookkeepingProofs**.  Of the alerts, `DeskInv` adds to `CriticalConditionHeard` that a
  running cooldown has its row or is known to have lost it (`CooldownHasRow`) and that a
  condition the scan of this cycle found is still to be alerted or is out (`DueOrOut`).
  Of the feed, `FeedInv` is the type invariant, among it that a minute is cached once, with
  `InFlight` (an answer is under way only while its symbol is visited, and while its closes are
  being stored the candles kept are those of this answer) and `FinalCloses`: candles that were
  answered after the last trade of a minute have left its final close in the cache, for the
  minutes taken so far, unless it was evicted.  The action property `JudgedByFinalClose` is
  then a fact of the state a prediction is judged in.
  `PartsSafe` puts the parts together: the one that runs keeps its invariant, the others are as
  they were at first.  From it follow the type invariant of the whole (`BookkeepingTypes`, with
  what the max-min formula of the calibrator returns, for every record) and the promises of the
  parts under `Bookkeeping!Spec`, which is what the run checks (`PromisesKept`, `StepsKept`).
  `FeedImplemented` is a refinement: every step is a step of the feed or leaves it alone.

What is only model-checked:

* liveness, which is out of the prover's reach: `TimeStopFires`, `StopHonoured`,
  `EveryPredictionSettled`, `GatesReopen`.

Every invariant and every action property of a passing run is also a theorem.

## 5. Not modelled

`components` in `PROJECT.json` gives the reason for every part.  In short: numerical analysis
(indicators, features, microstructure, ML, research, screening) has no state that a property
here is about, its verdict is a choice; dashboard, mission control, reporting and console render
what they read (`current_bot_run`, which decides what is shown, is modelled); configuration
becomes assumptions on constants; `scripts/`, `freqtrade-port/` and `deploy/` are tools around the
system.

Left out inside modelled parts: the counter and logging of the broker's `_reconcile`;
`reconcile_paper_state`, which only logs; the learning state file, phases and uptime; readiness,
the cycle report and the score of the watchlist, which are shown and decide nothing here;
pruning, except for its effect on the pending transaction; tables that only record analysis;
halted pairs, for which the exchange has no recent candle; reads of the database that fail
(`historical_peak` then answers 0.0).  An illiquid symbol shares its alert kind with the others.

Read with the code and not pursued, because no run is about them:

* walk-forward training labels look `horizon` bars ahead and so into the test block
  (`validation/walkforward.py:3-6`, `ml/dataset.py:3-6`);
* pairs, mean reversion, fear-and-greed, the sandbox broker, the provider consensus and
  `OrderIDRegistry` have no user in the bot's commands;
* `prune_old` compares `datetime('now', ...)` with isoformat strings, which keeps a row up to a
  day longer;
* the funding filter fails open, and its cache lives for 300 s;
* the rotation of the write log, and the history files of mission control, are best-effort and may
  lose entries when two writers meet;
* `remote_log` drops a batch whose post fails, and no command attaches it.

## 6. Plan

Done: the observer with its table and the ledger it implements; the live broker and the observer
trading through it; the backtest over risk engine, paper broker, fusion and labels; predictions,
alerts, days, feed and gates; the lock, the learning window, the run registry and the shared
table; proofs of every invariant and action property the runs check: the observer and its
ledger, the live broker and the trading on it, the backtest with the labels of its entries, the
bookkeeping part by part and together, the lock, the runs and the learning windows.

What would come next, in this order: startup reconciliation as the detector of what SharedTable
shows; the walk-forward splits against their claim of unseen bars; several symbols in the
backtest's books.
