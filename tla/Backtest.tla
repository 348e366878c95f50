------------------------------- MODULE Backtest -------------------------------
(***************************************************************************)
(* The backtest loop: it replays bars one by one over the risk engine and  *)
(* the simulated broker.  Each bar is marked to market (NextBar), then the *)
(* open trade is closed at its stop, target or time-stop (ExitTrade) or    *)
(* kept (KeepTrade), and a flat book may take an entry (Enter, Skip).  The *)
(* data may end after any bar (Finish).                                    *)
(*                                                                         *)
(* `trade` is the loop's own note of what it opened; `book` is what the    *)
(* broker holds.  They part company when an exit is filled in part: the    *)
(* note is dropped, the rest of the lot stays in the book.                 *)
(***************************************************************************)
EXTENDS RiskEngine, PaperBroker, Fusion, Labels

CONSTANTS
    MaxHoldBars,        \* risk.max_hold_bars, 0 disables the time-stop
    Candles,            \* the bars the data may hold: [low, high, close]
    Units,              \* the volatility units an entry may be given
    Views,              \* the layer views a bar may be judged by
    Alarms,             \* the kill-switch conditions a bar may show
    BarsPerDay,
    DaysPerWeek,
    MaxBars             \* bound: bars of the data

Candle == {c \in [low : Nat, high : Nat, close : Nat \ {0}] :
               c.low <= c.close /\ c.close <= c.high}

ASSUME BacktestAssumption ==
    /\ MaxHoldBars \in Nat
    /\ Candles \subseteq Candle
    /\ Units \subseteq Nat \ {0}
    /\ Views \subseteq [Layers -> LayerView]
    /\ Alarms \subseteq Conditions
    /\ BarsPerDay \in Nat \ {0}
    /\ DaysPerWeek \in Nat \ {0}
    /\ MaxBars \in Nat

\* Every close leaves room for at least one unit (the liquidity is positive).
ASSUME LiquidityAssumption == \A c \in Candles : c.close <= Depth

VARIABLES
    pc,         \* "bar", "exit", "entry", "done"
    bar,        \* bars seen
    candle,     \* the current bar
    book,       \* the broker
    risk,       \* the risk engine
    trade,      \* open_trade
    exposed,    \* bars_in_position
    seen,       \* history: close and unit of the entry, and the bars after it
    partial,    \* history: an exit was filled in part
    lossBar,    \* history: the bar of the latest losing trade
    opening     \* history: equity at the first bar of the day and of the week

vars == <<pc, bar, candle, book, risk, trade, exposed,
          seen, partial, lossBar, opening>>

NoTrade == [quantity |-> 0, stop |-> 0, target |-> 0, opened |-> 0]

InTrade == trade # NoTrade

\* Long enough ago for every cooldown.
NoLoss == -LossCooldownBars

NothingSeen == [close |-> 0, unit |-> 0, after |-> << >>]

Day(b) == (b - 1) \div BarsPerDay

Week(b) == Day(b) \div DaysPerWeek

\* What the decisions of a bar may come to.
Verdicts == {Action(v, KillSwitch(a)) : v \in Views, a \in Alarms}

Init ==
    /\ pc = "bar"
    /\ bar = 0
    /\ candle \in Candles
    /\ book = EmptyBook
    /\ risk = FreshRisk(StartingCash)
    /\ trade = NoTrade
    /\ exposed = 0
    /\ seen = NothingSeen
    /\ partial = FALSE
    /\ lossBar = NoLoss
    /\ opening = [day |-> StartingCash, week |-> StartingCash]

------------------------------------------------------------------------------
(* One bar *)

NextBar(c) ==
    LET equity == Equity(book, c.close) IN
    /\ pc = "bar"
    /\ bar < MaxBars
    /\ bar' = bar + 1
    /\ candle' = c
    /\ risk' = EquityObserved(risk, Day(bar'), Week(bar'), equity)
    /\ IF InTrade
       THEN /\ pc' = "exit"
            /\ exposed' = exposed + 1
            /\ seen' = [seen EXCEPT !.after = Append(@, c)]
       ELSE pc' = "entry" /\ UNCHANGED <<exposed, seen>>
    /\ opening' = [day |-> IF Day(bar') # Day(bar) THEN equity ELSE opening.day,
                   week |-> IF Week(bar') # Week(bar) THEN equity ELSE opening.week]
    /\ UNCHANGED <<book, trade, partial, lossBar>>

NoExit == 0

\* _exit_price: the stop first.
ExitPrice(c, t) ==
    IF c.low <= t.stop THEN t.stop
    ELSE IF c.high >= t.target THEN t.target
    ELSE NoExit

TimeStopDue(t) == MaxHoldBars > 0 /\ bar - t.opened >= MaxHoldBars

\* The fill of a SELL at the current bar.
SellFill(quantity, price) ==
    Filled("sell", SellQuantity(book, quantity), price, candle.close)

\* The exit and register_trade_close, which is given the last closed trade:
\* after a partial fill that is the trade before.
ExitTrade ==
    LET price == IF ExitPrice(candle, trade) # NoExit
                 THEN ExitPrice(candle, trade) ELSE candle.close
        fill == SellFill(trade.quantity, price)
    IN
    /\ pc = "exit"
    /\ ExitPrice(candle, trade) # NoExit \/ TimeStopDue(trade)
    /\ book' = SoldFill(book, fill)
    /\ risk' = IF book'.trades.count > 0
               THEN TradeCloseRegistered(risk, book'.trades.last, bar)
               ELSE risk
    /\ trade' = NoTrade
    /\ seen' = NothingSeen
    /\ partial' = (partial \/ fill.partial)
    /\ lossBar' = IF book'.trades.count > book.trades.count /\ book'.trades.last < 0
                  THEN bar ELSE lossBar
    /\ pc' = "entry"
    /\ UNCHANGED <<bar, candle, exposed, opening>>

KeepTrade ==
    /\ pc = "exit"
    /\ ExitPrice(candle, trade) = NoExit
    /\ ~TimeStopDue(trade)
    /\ pc' = "bar"
    /\ UNCHANGED <<bar, candle, book, risk, trade, exposed, seen, partial, lossBar, opening>>

\* evaluate_entry with the book's own count of positions, a residue included.
Permitted ==
    EntryAllowed(risk, Equity(book, candle.close), IF Holding(book) THEN 1 ELSE 0, bar)

SizeOf(levels) == PositionSize(Equity(book, candle.close), levels.entry, levels.stop)

\* A decision that is not BUY, a block of the risk engine, or a size of 0.
Skip(verdict, unit) ==
    /\ pc = "entry"
    /\ \/ verdict # "buy"
       \/ ~Permitted
       \/ SizeOf(Levels(candle.close, unit)) = 0
    /\ pc' = "bar"
    /\ UNCHANGED <<bar, candle, book, risk, trade, exposed, seen, partial, lossBar, opening>>

\* Mutant: the note of the trade has the size that was asked for.
NotedAsked(fill, size, levels) ==
    [quantity |-> size, stop |-> levels.stop, target |-> levels.target, opened |-> bar]

Noted(fill, size, levels) ==
    [quantity |-> fill.quantity, stop |-> levels.stop, target |-> levels.target,
     opened |-> bar]

\* The entry, at the decision's own price whatever the market's.
Enter(verdict, unit) ==
    LET levels == Levels(candle.close, unit)
        size == SizeOf(levels)
        fill == Filled("buy", size, levels.entry, candle.close)
    IN
    /\ pc = "entry"
    /\ verdict = "buy"
    /\ Permitted
    /\ levels.stop > 0
    /\ size > 0
    /\ book' = BoughtFill(book, fill)
    /\ trade' = Noted(fill, size, levels)
    /\ seen' = [close |-> candle.close, unit |-> unit, after |-> << >>]
    /\ pc' = "bar"
    /\ UNCHANGED <<bar, candle, risk, exposed, partial, lossBar, opening>>

\* The data ends: an open trade is sold at the last close.
Finish ==
    /\ pc = "bar"
    /\ bar > 0
    /\ IF InTrade
       THEN LET fill == SellFill(trade.quantity, candle.close) IN
            /\ book' = SoldFill(book, fill)
            /\ partial' = (partial \/ fill.partial)
       ELSE UNCHANGED <<book, partial>>
    /\ trade' = NoTrade
    /\ seen' = NothingSeen
    /\ pc' = "done"
    /\ UNCHANGED <<bar, candle, risk, exposed, lossBar, opening>>

Done == pc = "done" /\ UNCHANGED vars

Next == \/ \E c \in Candles : NextBar(c)
        \/ ExitTrade
        \/ KeepTrade
        \/ \E v \in Verdicts, u \in Units : Skip(v, u) \/ Enter(v, u)
        \/ Finish
        \/ Done

Spec == Init /\ [][Next]_vars

------------------------------------------------------------------------------
(* The label of an entry *)

\* barrier_distances: from the close, where _levels counts from the entry.
BarrierDistances(unit) == [stop |-> StopMult * unit, target |-> TargetMult * unit]

\* _training_frame, for the bar of the entry and the bars seen since: a label
\* that they decide no later bar changes.
LabelOfEntry ==
    LET distances == BarrierDistances(seen.unit)
        hold == IF MaxHoldBars < 1 THEN 1 ELSE MaxHoldBars
    IN  TripleBarrierLabel(seen.close, seen.after, distances.stop, distances.target, hold)

------------------------------------------------------------------------------
(* What the backtest promises *)

TypeOK ==
    /\ pc \in {"bar", "exit", "entry", "done"}
    /\ bar \in 0..MaxBars
    /\ candle \in Candles
    /\ book \in [cash : Int, realised : Int, paid : Nat,
                 lot : [quantity : Nat, cost : Nat, fees : Nat],
                 trades : [count : Nat, last : Int, total : Int, won : Nat]]
    /\ Holding(book) \/ book.lot = NoLot
    /\ risk \in [daily : [period : Int, start : Int],
                 weekly : [period : Int, start : Int], cooldownUntil : Int]
    /\ trade \in [quantity : Nat, stop : Int, target : Int, opened : Nat]
    /\ exposed \in 0..bar
    /\ partial \in BOOLEAN
    /\ pc = "exit" => InTrade

\* The books balance: cash and the cost of what is held are the starting cash
\* with every realised gain and without every fee, through partial fills, cut
\* sells and averaged entries.
BooksBalance ==
    book.cash + book.lot.cost = StartingCash + book.realised - book.paid

\* A flat book whose exits were all filled in full is explained by its trades:
\* the PnL of the recorded trades adds up to what the cash has gained.
TradesExplainCash ==
    ~partial /\ ~Holding(book) => book.trades.total = book.cash - StartingCash

\* The note of the open trade is backed by the book, so that no exit is
\* refused; and the book holds nothing else unless an exit was filled in part.
TradeIsHeld ==
    /\ InTrade => trade.quantity \in 1..book.lot.quantity
    /\ ~partial => book.lot.quantity = trade.quantity

Entered == book'.lot.quantity > book.lot.quantity

\* After a trade that closed at a loss no entry is taken for LossCooldownBars.
NoEntryInCooldown == [][Entered => bar >= lossBar + LossCooldownBars]_vars

\* No entry is taken while the equity is down by the limit of the day or of the
\* week from what it was at the first bar of that day or week.
NoEntryPastLimits ==
    [][Entered =>
         LET equity == Equity(book, candle.close) IN
         /\ opening.day > 0 =>
              (opening.day - equity) * 100 < MaxDailyLoss * opening.day
         /\ opening.week > 0 =>
              (opening.week - equity) * 100 < MaxWeeklyLoss * opening.week]_vars

SoldAtTarget == ExitPrice(candle, trade) = trade.target

TradeSold == pc = "exit" /\ trade' = NoTrade

\* The label the meta-model gets for the bar of an entry is never too kind: a
\* trade whose bars so far make its entry a win is sold at its target, never at
\* its stop or by the time-stop, wherever the offset has put its own barriers.
LabelledWinsArePaid == [][TradeSold /\ LabelOfEntry = "win" => SoldAtTarget]_vars

\* What meta.py says of the label ("if I take a long here, will it hit its
\* target before its stop?") and of its barriers ("matching the fusion
\* geometry"): once decided, it is a win if and only if the trade is sold at
\* its target.
LabelIsOutcome ==
    [][TradeSold /\ LabelOfEntry # NoLabel => (LabelOfEntry = "win" <=> SoldAtTarget)]_vars
=============================================================================
