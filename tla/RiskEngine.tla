------------------------------ MODULE RiskEngine ------------------------------
(***************************************************************************)
(* The risk engine: the loss limits of the day and of the week, the        *)
(* cooldown after a losing trade, the position limit and the position      *)
(* size.  Its state is one record, passed in and handed back; the loop     *)
(* that owns it says which day and which bar it is.                        *)
(*                                                                         *)
(* Money and prices are whole numbers, fractions are percentages.  Sizes   *)
(* are rounded down to whole units where the code rounds to ten digits.    *)
(***************************************************************************)
EXTENDS Integers, FiniteSets

CONSTANTS
    RiskPerTrade,       \* risk_per_trade, percent of equity
    MaxPositionPct,     \* max_position_pct, percent of equity
    MaxDailyLoss,       \* max_daily_loss_pct, percent
    MaxWeeklyLoss,      \* max_weekly_loss_pct, percent
    MaxOpenPositions,   \* max_open_positions
    LossCooldownBars    \* loss_cooldown_bars

ASSUME RiskAssumption ==
    /\ RiskPerTrade \in 1..25
    /\ MaxPositionPct \in 1..100
    /\ MaxDailyLoss \in 1..100
    /\ MaxWeeklyLoss \in MaxDailyLoss..100
    /\ MaxOpenPositions \in Nat \ {0}
    /\ LossCooldownBars \in Nat

------------------------------------------------------------------------------
(* Period loss trackers *)

NoPeriod == -1

\* A tracker that has not observed anything yet.
FreshTracker(equity) == [period |-> NoPeriod, start |-> equity]

\* Mutant: every observation moves the baseline.
ObservedAlways(tracker, period, equity) == [period |-> period, start |-> equity]

\* observe(): the first equity seen in a period is its baseline.
Observed(tracker, period, equity) ==
    IF tracker.period = period
    THEN tracker
    ELSE [period |-> period, start |-> equity]

\* is_breached(): a baseline that is not positive never breaches.
Breached(tracker, equity, limit) ==
    /\ tracker.start > 0
    /\ (tracker.start - equity) * 100 >= limit * tracker.start

------------------------------------------------------------------------------
(* The engine *)

NoCooldown == -1

FreshRisk(equity) ==
    [daily |-> FreshTracker(equity), weekly |-> FreshTracker(equity),
     cooldownUntil |-> NoCooldown]

EquityObserved(risk, day, week, equity) ==
    [risk EXCEPT !.daily = Observed(@, day, equity),
                 !.weekly = Observed(@, week, equity)]

\* Mutant: a loss arms the cooldown one bar short.
TradeCloseRegisteredShort(risk, pnl, bar) ==
    IF pnl < 0 /\ LossCooldownBars > 0
    THEN [risk EXCEPT !.cooldownUntil = bar + LossCooldownBars - 1]
    ELSE risk

\* register_trade_close(): only a loss arms the cooldown, and a gain does not
\* disarm it.
TradeCloseRegistered(risk, pnl, bar) ==
    IF pnl < 0 /\ LossCooldownBars > 0
    THEN [risk EXCEPT !.cooldownUntil = bar + LossCooldownBars]
    ELSE risk

LossBlocks(risk, equity) ==
    \/ Breached(risk.daily, equity, MaxDailyLoss)
    \/ Breached(risk.weekly, equity, MaxWeeklyLoss)

\* evaluate_entry(): nothing blocks.
EntryAllowed(risk, equity, openPositions, bar) ==
    /\ ~LossBlocks(risk, equity)
    /\ openPositions < MaxOpenPositions
    /\ bar >= risk.cooldownUntil

------------------------------------------------------------------------------
(* Sizing *)

Distance(a, b) == IF a < b THEN b - a ELSE a - b

Lesser(a, b) == IF a < b THEN a ELSE b

\* position_size(): the risk budget between entry and stop, capped by notional;
\* 0 says that the trade is not tradeable.
PositionSize(equity, entry, stop) ==
    IF equity <= 0 \/ entry <= 0 \/ entry = stop
    THEN 0
    ELSE Lesser((equity * RiskPerTrade) \div (100 * Distance(entry, stop)),
                (equity * MaxPositionPct) \div (100 * entry))
=============================================================================
