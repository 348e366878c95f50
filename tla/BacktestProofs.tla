---------------------------- MODULE BacktestProofs ----------------------------
(***************************************************************************)
(* Proofs about the backtest.  First the arithmetic of a fill, then what a *)
(* BUY and a SELL do to the book, then the inductive invariant that ties   *)
(* the loop's own note of its trade, the book and the risk engine, and one *)
(* that follows the bars after an entry up to its exit.                    *)
(***************************************************************************)
EXTENDS Backtest, TLAPS

USE RiskAssumption, PaperAssumption

------------------------------------------------------------------------------
(* Arithmetic *)

\* The quotient of natural numbers.
LEMMA Quotient ==
    ASSUME NEW a \in Nat, NEW b \in Nat \ {0}
    PROVE  a \div b \in Nat /\ b * (a \div b) <= a /\ a < b * (a \div b) + b
  OBVIOUS

\* The quotient of integers.
LEMMA Floor ==
    ASSUME NEW a \in Int, NEW b \in Nat \ {0}
    PROVE  a \div b \in Int
  OBVIOUS

\* The share of a cost that goes with a part of a quantity is a part of it.
LEMMA Share ==
    ASSUME NEW cost \in Nat, NEW part \in Nat, NEW whole \in Nat \ {0}, part <= whole
    PROVE  (cost * part) \div whole \in 0..cost
  <1> DEFINE share == (cost * part) \div whole
  <1>1. cost * part \in Nat /\ cost * part <= cost * whole
    OBVIOUS
  <1>2. share \in Nat /\ whole * share <= cost * part
    BY <1>1, Quotient
  <1>3. ASSUME share > cost PROVE FALSE
    <2>1. PICK k \in Nat : share = cost + 1 + k
      BY <1>2, <1>3
    <2>2. whole * share = whole * cost + whole + whole * k
      BY <2>1
    <2>3. whole * k \in Nat /\ whole * cost \in Nat /\ whole * cost = cost * whole
      OBVIOUS
    <2> QED
      BY <1>1, <1>2, <2>2, <2>3
  <1> QED
    BY <1>2, <1>3

\* The whole of a quantity takes the whole cost.
LEMMA WholeShare ==
    ASSUME NEW cost \in Nat, NEW whole \in Nat \ {0}
    PROVE  (cost * whole) \div whole = cost
  OBVIOUS

\* The fee is not negative.
LEMMA FeeNatural ==
    ASSUME NEW price \in Nat, NEW quantity \in Nat
    PROVE  Fee(price, quantity) \in Nat
  <1>1. FeePct \in Nat /\ price * quantity \in Nat
    OBVIOUS
  <1>2. price * quantity * FeePct \in Nat
    BY <1>1
  <1> QED
    BY <1>2, Quotient DEF Fee

------------------------------------------------------------------------------
(* Fills *)

Lot == [quantity : Nat, cost : Nat, fees : Nat]

Trades == [count : Nat, last : Int, total : Int, won : Nat]

Book == [cash : Int, realised : Int, paid : Nat, lot : Lot, trades : Trades]

Fill == [quantity : Nat, price : Nat, fee : Nat, partial : BOOLEAN]

\* simulate_fill fills some of an order, all of it unless it says otherwise.
LEMMA FillOfOrder ==
    ASSUME NEW side \in {"buy", "sell"}, NEW quantity \in Nat \ {0},
           NEW price \in Int, side = "buy" => price > 0,
           NEW mark \in Nat \ {0}, mark <= Depth,
           NEW fill, fill = Filled(side, quantity, price, mark)
    PROVE  /\ fill \in Fill
           /\ fill.quantity \in 1..quantity
           /\ fill.partial <=> fill.quantity < quantity
  <1> DEFINE most == Fillable(mark)
             filled == IF quantity < most THEN quantity ELSE most
             slip == Slippage(filled, most)
             at == IF side = "buy" THEN price + slip ELSE SlippedSell(price, slip)
  <1>1. most \in Nat \ {0}
    <2>1. most \in Nat /\ Depth < mark * most + mark
      BY Quotient DEF Fillable
    <2>2. most # 0
      <3>1. SUFFICES ASSUME most = 0 PROVE FALSE
        OBVIOUS
      <3>2. mark * most = 0
        BY <3>1
      <3> QED
        BY <2>1, <3>2
    <2> QED
      BY <2>1, <2>2
  <1>2. filled \in 1..quantity
    BY <1>1
  <1>3. slip \in Nat
    <2>1. ImpactSlippage * filled \in Nat
      BY <1>2
    <2>2. (ImpactSlippage * filled) \div most \in Nat
      BY <1>1, <2>1, Quotient
    <2> QED
      BY <2>2 DEF Slippage
  <1>4. at \in Nat
    BY <1>3 DEF SlippedSell
  <1>5. fill = [quantity |-> filled, price |-> at, fee |-> Fee(at, filled),
                partial |-> filled < quantity]
    BY DEF Filled
  <1>6. filled \in Nat
    BY <1>2
  <1> HIDE DEF filled, at
  <1>7. Fee(at, filled) \in Nat
    BY <1>4, <1>6, FeeNatural
  <1>8. fill.quantity = filled /\ fill.partial = (filled < quantity)
    BY <1>5
  <1>9. fill \in Fill
    BY <1>4, <1>5, <1>6, <1>7 DEF Fill
  <1> QED
    BY <1>2, <1>8, <1>9

\* What a BUY does to the book.
LEMMA Bought ==
    ASSUME NEW b \in Book, NEW fill \in Fill, fill.quantity > 0,
           NEW new, new = BoughtFill(b, fill)
    PROVE  /\ new \in Book
           /\ new.lot.quantity = b.lot.quantity + fill.quantity
           /\ new.cash + new.lot.cost = b.cash + b.lot.cost - fill.fee
           /\ new.paid = b.paid + fill.fee
           /\ new.lot.fees = b.lot.fees + fill.fee
           /\ new.realised = b.realised
           /\ new.trades = b.trades
  <1> DEFINE worth == fill.price * fill.quantity
             lot == [quantity |-> b.lot.quantity + fill.quantity,
                     cost |-> b.lot.cost + worth, fees |-> b.lot.fees + fill.fee]
  <1>1. worth \in Nat
    BY DEF Fill
  <1>2. lot \in Lot
    BY <1>1 DEF Book, Lot, Fill
  <1>3. new = [b EXCEPT !.cash = @ - worth - fill.fee, !.paid = @ + fill.fee, !.lot = lot]
    BY DEF BoughtFill
  <1>4. new = [cash |-> b.cash - worth - fill.fee, realised |-> b.realised,
               paid |-> b.paid + fill.fee, lot |-> lot, trades |-> b.trades]
    BY <1>3 DEF Book
  <1>5. b.cash \in Int /\ b.paid \in Nat /\ fill.fee \in Nat /\ b.lot \in Lot
    BY DEF Book, Fill
  <1>6. new \in Book
    BY <1>1, <1>2, <1>4, <1>5 DEF Book
  <1> HIDE DEF worth
  <1> QED
    BY <1>1, <1>4, <1>5, <1>6 DEF Lot

\* What a SELL of a part or of the whole lot does to the book.
LEMMA Sold ==
    ASSUME NEW b \in Book, NEW fill \in Fill, fill.quantity \in 1..b.lot.quantity,
           NEW new, new = SoldFill(b, fill)
    PROVE  /\ new \in Book
           /\ new.lot.quantity = b.lot.quantity - fill.quantity
           /\ new.lot.quantity = 0 => new.lot = NoLot
           /\ new.cash + new.lot.cost - new.realised = b.cash + b.lot.cost - b.realised - fill.fee
           /\ new.paid = b.paid + fill.fee
           /\ fill.quantity = b.lot.quantity =>
                /\ new.trades.total = b.trades.total + new.cash - b.cash
                                        - b.lot.cost - b.lot.fees
                /\ new.trades.count = b.trades.count + 1
           /\ fill.quantity < b.lot.quantity => new.trades = b.trades
  <1> DEFINE whole == b.lot.quantity
             worth == fill.price * fill.quantity
             released == (b.lot.cost * fill.quantity) \div whole
             gain == worth - released
             lot == LotAfterSale(b.lot, fill.quantity, released, fill.fee)
             trades == IF fill.quantity = whole
                       THEN WithTrade(b.trades, gain - (b.lot.fees + fill.fee))
                       ELSE b.trades
  <1>1. /\ b.cash \in Int /\ b.realised \in Int /\ b.paid \in Nat
        /\ b.lot.quantity \in Nat \ {0} /\ b.lot.cost \in Nat /\ b.lot.fees \in Nat
        /\ fill.quantity \in Nat \ {0} /\ fill.price \in Nat /\ fill.fee \in Nat
        /\ b.trades \in Trades
    BY DEF Book, Lot, Fill
  <1>2. worth \in Nat
    BY <1>1
  <1>3. released \in 0..b.lot.cost
    BY <1>1, Share
  <1>4. fill.quantity = whole => released = b.lot.cost
    BY <1>1, WholeShare
  <1>5. new = [cash |-> b.cash + (worth - fill.fee), realised |-> b.realised + gain,
               paid |-> b.paid + fill.fee, lot |-> lot, trades |-> trades]
    BY DEF SoldFill, Proceeds, Book
  <1> HIDE DEF worth, released
  <1>6. /\ lot \in Lot
        /\ lot.quantity = whole - fill.quantity
        /\ lot.quantity = 0 => lot = NoLot
        /\ lot.cost = b.lot.cost - released
    BY <1>1, <1>3, <1>4 DEF LotAfterSale, NoLot, Lot
  <1>7. /\ trades \in Trades
        /\ fill.quantity = whole =>
             /\ trades.total = b.trades.total + (gain - (b.lot.fees + fill.fee))
             /\ trades.count = b.trades.count + 1
    BY <1>1, <1>2, <1>3 DEF WithTrade, Trades
  <1>8. gain \in Int
    BY <1>2, <1>3
  <1>9. new \in Book
    BY <1>1, <1>2, <1>5, <1>6, <1>7, <1>8 DEF Book
  <1> HIDE DEF lot, trades
  <1>10. new.cash + new.lot.cost - new.realised = b.cash + b.lot.cost - b.realised - fill.fee
    BY <1>1, <1>2, <1>3, <1>5, <1>6
  <1>11. fill.quantity = whole =>
           new.trades.total = b.trades.total + new.cash - b.cash - b.lot.cost - b.lot.fees
    <2>1. b.trades.total \in Int
      BY <1>1 DEF Trades
    <2> QED
      BY <1>1, <1>2, <1>3, <1>4, <1>5, <1>7, <2>1
  <1>12. new.lot = lot /\ new.trades = trades /\ new.paid = b.paid + fill.fee
    BY <1>5
  <1>13. fill.quantity < whole => trades = b.trades
    BY <1>1 DEF trades
  <1> QED
    BY <1>6, <1>7, <1>9, <1>10, <1>11, <1>12, <1>13

------------------------------------------------------------------------------
(* The inductive invariant *)

\* Between exits and entries there is a trade exactly where the loop looks for
\* one.
TradeInPlace == pc \in {"entry", "done"} => ~InTrade

\* As long as exits are filled in full, the cash and what the lot has cost, its
\* fees included, are the starting cash and the PnL of the recorded trades.
TradesBooked ==
    ~partial =>
        book.cash + book.lot.cost + book.lot.fees = StartingCash + book.trades.total

\* The baselines of the loss limits are the equities the periods began with.
BaselinesKnown ==
    /\ opening \in [day : Int, week : Int]
    /\ risk.daily = [period |-> Day(bar), start |-> opening.day]
    /\ risk.weekly = [period |-> Week(bar), start |-> opening.week]

\* A losing trade has armed the cooldown, or it is over.
CooldownKnown ==
    /\ lossBar \in Int /\ lossBar <= bar
    /\ \/ lossBar + LossCooldownBars <= risk.cooldownUntil
       \/ lossBar + LossCooldownBars <= bar

BacktestInv ==
    /\ TypeOK
    /\ TradeInPlace
    /\ BooksBalance
    /\ TradeIsHeld
    /\ TradesBooked
    /\ BaselinesKnown
    /\ CooldownKnown

\* The book is a book, and every close leaves room for a unit.
LEMMA BookTyped ==
    ASSUME TypeOK
    PROVE  /\ book \in Book
           /\ candle.close \in Nat \ {0} /\ candle.close <= Depth
           /\ candle.low \in Nat /\ candle.high \in Nat
           /\ bar \in Nat
  BY BacktestAssumption, LiquidityAssumption
  DEF TypeOK, Book, Lot, Trades, Candle

\* The parts of the invariant that a step on the books has to restore.
Books == TradeInPlace /\ BooksBalance /\ TradeIsHeld /\ TradesBooked

\* Day and week before the first bar are those a fresh tracker has.
LEMMA FirstPeriods == Day(0) = NoPeriod /\ Week(0) = NoPeriod
  <1>1. \A n \in Nat \ {0} : (-1) \div n = -1
    OBVIOUS
  <1>2. Day(0) = -1
    BY <1>1, BacktestAssumption DEF Day
  <1> QED
    BY <1>1, <1>2, BacktestAssumption DEF Week, NoPeriod

LEMMA InvInit == Init => BacktestInv
  <1> SUFFICES ASSUME Init PROVE BacktestInv
    OBVIOUS
  <1>1. book = [cash |-> StartingCash, lot |-> NoLot, realised |-> 0, paid |-> 0,
                trades |-> NoTrades]
    BY DEF Init, EmptyBook
  <1>2. risk = [daily |-> [period |-> NoPeriod, start |-> StartingCash],
                weekly |-> [period |-> NoPeriod, start |-> StartingCash],
                cooldownUntil |-> NoCooldown]
    BY DEF Init, FreshRisk, FreshTracker
  <1>3. TypeOK
    <2>1. book \in [cash : Int, realised : Int, paid : Nat,
                    lot : [quantity : Nat, cost : Nat, fees : Nat],
                    trades : [count : Nat, last : Int, total : Int, won : Nat]]
      BY <1>1 DEF NoLot, NoTrades
    <2>2. risk \in [daily : [period : Int, start : Int],
                    weekly : [period : Int, start : Int], cooldownUntil : Int]
      BY <1>2 DEF NoPeriod, NoCooldown
    <2>3. trade \in [quantity : Nat, stop : Int, target : Int, opened : Nat]
      BY DEF Init, NoTrade
    <2>4. Holding(book) \/ book.lot = NoLot
      BY <1>1
    <2>5. MaxBars \in Nat
      BY BacktestAssumption
    <2>6. bar \in 0..MaxBars /\ exposed \in 0..bar
      BY <2>5 DEF Init
    <2>7. pc = "bar" /\ candle \in Candles /\ partial = FALSE
      BY DEF Init
    <2> QED
      BY <2>1, <2>2, <2>3, <2>4, <2>6, <2>7 DEF TypeOK
  <1>4. Books
    BY <1>1 DEF Init, Books, TradeInPlace, InTrade, BooksBalance, TradeIsHeld, TradesBooked,
                NoLot, NoTrades, NoTrade
  <1>5. BaselinesKnown
    BY <1>2, FirstPeriods DEF Init, BaselinesKnown
  <1>6. CooldownKnown
    BY <1>2 DEF Init, CooldownKnown, NoLoss
  <1> QED
    BY <1>3, <1>4, <1>5, <1>6 DEF BacktestInv, Books

\* A new bar: the trackers take the equity of a new period as its baseline.
LEMMA InvNextBar ==
    ASSUME BacktestInv, NEW c \in Candles, NextBar(c)
    PROVE  BacktestInv'
  <1> DEFINE equity == Equity(book, c.close)
  <1>1. book \in Book /\ bar \in Nat /\ c \in Candle
    BY BookTyped, BacktestAssumption DEF BacktestInv
  <1>2. equity \in Int
    <2>1. book.lot.quantity * c.close \in Int
      BY <1>1 DEF Book, Lot, Candle
    <2> QED
      BY <1>1, <2>1 DEF Equity, Book
  <1>3. Day(bar') \in Int /\ Week(bar') \in Int
    <2>1. bar' - 1 \in Int
      BY <1>1 DEF NextBar
    <2>2. Day(bar') \in Int
      BY <2>1, Floor, BacktestAssumption DEF Day
    <2> QED
      BY <2>2, Floor, BacktestAssumption DEF Week
  <1>4. risk' = [risk EXCEPT !.daily = Observed(@, Day(bar'), equity),
                             !.weekly = Observed(@, Week(bar'), equity)]
    BY DEF NextBar, EquityObserved
  <1>5. risk \in [daily : [period : Int, start : Int],
                  weekly : [period : Int, start : Int], cooldownUntil : Int]
    BY DEF BacktestInv, TypeOK
  <1> HIDE DEF equity
  <1>6. /\ risk'.daily = Observed(risk.daily, Day(bar'), equity)
        /\ risk'.weekly = Observed(risk.weekly, Week(bar'), equity)
        /\ risk'.cooldownUntil = risk.cooldownUntil
    BY <1>4, <1>5
  <1>7. risk' \in [daily : [period : Int, start : Int],
                   weekly : [period : Int, start : Int], cooldownUntil : Int]
    BY <1>2, <1>3, <1>4, <1>5 DEF Observed
  <1>8. TypeOK'
    <2>0. MaxBars \in Nat /\ exposed \in 0..bar
      BY BacktestAssumption DEF BacktestInv, TypeOK
    <2>3. bar' = bar + 1 /\ bar < MaxBars /\ exposed' \in {exposed, exposed + 1}
      BY DEF NextBar
    <2>1. bar' \in 0..MaxBars /\ exposed' \in 0..bar'
      BY <1>1, <2>0, <2>3
    <2>2. pc' \in {"bar", "exit", "entry", "done"} /\ candle' \in Candles
          /\ (pc' = "exit" => InTrade')
      BY DEF NextBar, InTrade
    <2> QED
      BY <1>7, <2>1, <2>2 DEF BacktestInv, TypeOK, NextBar, Holding
  <1>9. Books'
    BY DEF BacktestInv, NextBar, Books, TradeInPlace, InTrade, BooksBalance, TradeIsHeld,
           TradesBooked
  <1>10. BaselinesKnown'
    <2>1. opening' = [day |-> IF Day(bar') # Day(bar) THEN equity ELSE opening.day,
                      week |-> IF Week(bar') # Week(bar) THEN equity ELSE opening.week]
      BY DEF NextBar, equity
    <2> QED
      BY <1>2, <1>6, <2>1 DEF BacktestInv, BaselinesKnown, Observed
  <1>11. CooldownKnown'
    <2>1. lossBar' = lossBar /\ bar' = bar + 1
      BY DEF NextBar
    <2> QED
      BY <1>1, <1>5, <1>6, <2>1 DEF BacktestInv, CooldownKnown
  <1> QED
    BY <1>8, <1>9, <1>10, <1>11 DEF BacktestInv, Books

\* A SELL of the noted trade, at an exit or at the end of the data.
LEMMA SellOfTrade ==
    ASSUME BacktestInv, InTrade, NEW price \in Int,
           NEW fill, fill = SellFill(trade.quantity, price),
           NEW new, new = SoldFill(book, fill),
           NEW cut, cut = (partial \/ fill.partial)
    PROVE  /\ fill \in Fill /\ fill.quantity \in 1..book.lot.quantity
           /\ new \in Book /\ cut \in BOOLEAN
           /\ new.lot.quantity < book.lot.quantity
           /\ new.lot.quantity = 0 => new.lot = NoLot
           /\ new.cash + new.lot.cost = StartingCash + new.realised - new.paid
           /\ ~cut => /\ new.lot.quantity = 0
                      /\ new.cash + new.lot.cost + new.lot.fees
                            = StartingCash + new.trades.total
  <1>1. book \in Book /\ candle.close \in Nat \ {0} /\ candle.close <= Depth
    BY BookTyped DEF BacktestInv
  <1>2. trade.quantity \in 1..book.lot.quantity /\ book.lot.quantity \in Nat
    BY <1>1 DEF BacktestInv, TradeIsHeld, Book, Lot
  <1>3. SellQuantity(book, trade.quantity) = trade.quantity
    BY <1>2 DEF SellQuantity
  <1>4. /\ fill \in Fill
        /\ fill.quantity \in 1..trade.quantity
        /\ fill.partial <=> fill.quantity < trade.quantity
    <2>1. fill = Filled("sell", trade.quantity, price, candle.close)
      BY <1>3 DEF SellFill
    <2>2. trade.quantity \in Nat \ {0}
      BY <1>2
    <2> QED
      BY <1>1, <2>1, <2>2, FillOfOrder
  <1>5. fill.quantity \in 1..book.lot.quantity
    BY <1>2, <1>4
  <1>6. /\ new \in Book
        /\ new.lot.quantity = book.lot.quantity - fill.quantity
        /\ new.lot.quantity = 0 => new.lot = NoLot
        /\ new.cash + new.lot.cost - new.realised
             = book.cash + book.lot.cost - book.realised - fill.fee
        /\ new.paid = book.paid + fill.fee
        /\ fill.quantity = book.lot.quantity =>
             new.trades.total = book.trades.total + new.cash - book.cash
                                  - book.lot.cost - book.lot.fees
    BY <1>1, <1>4, <1>5, Sold
  <1>7. cut \in BOOLEAN
    BY <1>4 DEF BacktestInv, TypeOK, Fill
  <1>8. new.lot.quantity < book.lot.quantity
    BY <1>2, <1>5, <1>6
  <1>9. new.cash + new.lot.cost = StartingCash + new.realised - new.paid
    <2>1. book.cash + book.lot.cost = StartingCash + book.realised - book.paid
      BY DEF BacktestInv, BooksBalance
    <2> QED
      BY <1>1, <1>4, <1>6, <2>1 DEF Book, Lot, Fill
  <1>10. ASSUME ~cut
         PROVE  /\ new.lot.quantity = 0
                /\ new.cash + new.lot.cost + new.lot.fees
                      = StartingCash + new.trades.total
    <2>1. /\ book.lot.quantity = trade.quantity
          /\ book.cash + book.lot.cost + book.lot.fees = StartingCash + book.trades.total
          /\ ~fill.partial
      BY <1>10 DEF BacktestInv, TradeIsHeld, TradesBooked
    <2>2. fill.quantity = book.lot.quantity
      BY <1>2, <1>4, <2>1
    <2>3. new.lot = NoLot
      BY <1>2, <1>6, <2>2
    <2> QED
      BY <1>1, <1>6, <2>1, <2>2, <2>3 DEF Book, Lot, Trades, NoLot
  <1> QED
    BY <1>4, <1>5, <1>6, <1>7, <1>8, <1>9, <1>10

\* register_trade_close arms the cooldown for a loss, and an earlier loss that
\* it is given again lies behind.
LEMMA CooldownAfterExit ==
    ASSUME BacktestInv, NEW new \in Book, new.trades.count >= book.trades.count,
           risk' = IF new.trades.count > 0
                   THEN TradeCloseRegistered(risk, new.trades.last, bar) ELSE risk,
           lossBar' = IF new.trades.count > book.trades.count /\ new.trades.last < 0
                      THEN bar ELSE lossBar,
           bar' = bar
    PROVE  /\ CooldownKnown'
           /\ risk' \in [daily : [period : Int, start : Int],
                         weekly : [period : Int, start : Int], cooldownUntil : Int]
           /\ risk'.daily = risk.daily /\ risk'.weekly = risk.weekly
  <1>1. /\ bar \in Nat /\ lossBar \in Int /\ lossBar <= bar
        /\ risk \in [daily : [period : Int, start : Int],
                     weekly : [period : Int, start : Int], cooldownUntil : Int]
        /\ book.trades.count \in Nat /\ new.trades.count \in Nat /\ new.trades.last \in Int
    BY BookTyped DEF BacktestInv, CooldownKnown, TypeOK, Book, Trades
  <1>2. \/ lossBar + LossCooldownBars <= risk.cooldownUntil
        \/ lossBar + LossCooldownBars <= bar
    BY DEF BacktestInv, CooldownKnown
  <1>3. CASE risk' = [risk EXCEPT !.cooldownUntil = bar + LossCooldownBars]
    <2>1. /\ risk' \in [daily : [period : Int, start : Int],
                         weekly : [period : Int, start : Int], cooldownUntil : Int]
          /\ risk'.daily = risk.daily /\ risk'.weekly = risk.weekly
          /\ risk'.cooldownUntil = bar + LossCooldownBars
      BY <1>1, <1>3
    <2>2. lossBar' \in Int /\ lossBar' <= bar
      BY <1>1
    <2> QED
      BY <1>1, <2>1, <2>2 DEF CooldownKnown
  <1>4. CASE risk' = risk
    <2>1. \/ lossBar' = lossBar
          \/ lossBar' = bar /\ LossCooldownBars = 0
          \/ lossBar' = bar /\ bar + LossCooldownBars <= risk.cooldownUntil
      <3>1. SUFFICES ASSUME new.trades.count > book.trades.count, new.trades.last < 0,
                            LossCooldownBars > 0
                     PROVE  bar + LossCooldownBars <= risk.cooldownUntil
        BY <1>1
      <3>2. risk' = [risk EXCEPT !.cooldownUntil = bar + LossCooldownBars]
        BY <1>1, <3>1 DEF TradeCloseRegistered
      <3> QED
        BY <1>1, <1>4, <3>2
    <2> QED
      BY <1>1, <1>2, <1>4, <2>1 DEF CooldownKnown
  <1>5. risk' = risk \/ risk' = [risk EXCEPT !.cooldownUntil = bar + LossCooldownBars]
    BY DEF TradeCloseRegistered
  <1> QED
    BY <1>3, <1>4, <1>5

LEMMA InvExitTrade ==
    ASSUME BacktestInv, ExitTrade
    PROVE  BacktestInv'
  <1> DEFINE price == IF ExitPrice(candle, trade) # NoExit
                      THEN ExitPrice(candle, trade) ELSE candle.close
             fill == SellFill(trade.quantity, price)
  <1>1. /\ book' = SoldFill(book, fill)
        /\ partial' = (partial \/ fill.partial)
        /\ trade' = NoTrade /\ pc' = "entry"
        /\ risk' = IF book'.trades.count > 0
                   THEN TradeCloseRegistered(risk, book'.trades.last, bar) ELSE risk
        /\ lossBar' = IF book'.trades.count > book.trades.count /\ book'.trades.last < 0
                      THEN bar ELSE lossBar
        /\ UNCHANGED <<bar, candle, exposed, opening>>
    BY DEF ExitTrade
  <1>2. InTrade
    BY DEF BacktestInv, TypeOK, ExitTrade
  <1>3. price \in Int
    BY BookTyped DEF BacktestInv, TypeOK, ExitPrice, NoExit
  <1> HIDE DEF price, fill
  <1>4. /\ fill \in Fill /\ fill.quantity \in 1..book.lot.quantity
        /\ book' \in Book /\ partial' \in BOOLEAN
        /\ book'.lot.quantity = 0 => book'.lot = NoLot
        /\ book'.cash + book'.lot.cost = StartingCash + book'.realised - book'.paid
        /\ ~partial' => /\ book'.lot.quantity = 0
                        /\ book'.cash + book'.lot.cost + book'.lot.fees
                             = StartingCash + book'.trades.total
    BY <1>1, <1>2, <1>3, SellOfTrade DEF fill
  <1>5. book'.trades.count >= book.trades.count
    <2>1. book \in Book /\ book.trades.count \in Nat
      BY BookTyped DEF BacktestInv, Book, Trades
    <2>2. book'.trades.count = book.trades.count + 1 \/ book'.trades = book.trades
      BY <1>1, <1>4, <2>1, Sold DEF Book, Lot
    <2> QED
      BY <2>1, <2>2
  <1>6. /\ CooldownKnown'
        /\ risk' \in [daily : [period : Int, start : Int],
                      weekly : [period : Int, start : Int], cooldownUntil : Int]
        /\ risk'.daily = risk.daily /\ risk'.weekly = risk.weekly
    BY <1>1, <1>4, <1>5, CooldownAfterExit
  <1>7. TypeOK'
    <2>1. Holding(book') \/ book'.lot = NoLot
      BY <1>4 DEF Holding, Book, Lot
    <2>2. trade' \in [quantity : Nat, stop : Int, target : Int, opened : Nat]
      BY <1>1 DEF NoTrade
    <2> QED
      BY <1>1, <1>4, <1>6, <2>1, <2>2 DEF BacktestInv, TypeOK, Book, Lot, Trades
  <1>8. Books'
    <2>1. ~InTrade' /\ trade'.quantity = 0
      BY <1>1 DEF InTrade, NoTrade
    <2> QED
      BY <1>1, <1>4, <2>1 DEF Books, TradeInPlace, BooksBalance, TradeIsHeld, TradesBooked
  <1>9. BaselinesKnown'
    BY <1>1, <1>6 DEF BacktestInv, BaselinesKnown, Day, Week
  <1> QED
    BY <1>6, <1>7, <1>8, <1>9 DEF BacktestInv, Books

\* The steps that only move on.
LEMMA InvMovesOn ==
    ASSUME BacktestInv, UNCHANGED <<bar, candle, book, risk, trade, exposed, partial,
                                    lossBar, opening>>,
           \/ pc' = pc
           \/ pc' = "bar"
    PROVE  BacktestInv'
  <1>1. TypeOK'
    BY DEF BacktestInv, TypeOK, Holding, InTrade
  <1>2. Books'
    BY DEF BacktestInv, Books, TradeInPlace, InTrade, BooksBalance, TradeIsHeld, TradesBooked
  <1>3. BaselinesKnown' /\ CooldownKnown'
    BY DEF BacktestInv, BaselinesKnown, CooldownKnown, Day, Week
  <1> QED
    BY <1>1, <1>2, <1>3 DEF BacktestInv, Books

\* An entry: what it fills is what it notes.
LEMMA InvEnter ==
    ASSUME BacktestInv, NEW verdict, NEW unit \in Units, Enter(verdict, unit)
    PROVE  BacktestInv'
  <1> DEFINE levels == Levels(candle.close, unit)
             size == SizeOf(levels)
             fill == Filled("buy", size, levels.entry, candle.close)
  <1>1. /\ pc = "entry" /\ pc' = "bar"
        /\ levels.stop > 0 /\ size > 0
        /\ book' = BoughtFill(book, fill)
        /\ trade' = [quantity |-> fill.quantity, stop |-> levels.stop,
                     target |-> levels.target, opened |-> bar]
        /\ UNCHANGED <<bar, candle, risk, exposed, partial, lossBar, opening>>
    BY DEF Enter, Noted
  <1>2. /\ book \in Book /\ bar \in Nat
        /\ candle.close \in Nat \ {0} /\ candle.close <= Depth
    BY BookTyped DEF BacktestInv
  <1>3. /\ levels.entry \in Int /\ levels.stop \in Int /\ levels.target \in Int
        /\ levels.stop < levels.entry
    <2>1. unit \in Nat \ {0} /\ EntryOffset \in Nat /\ StopMult \in Nat \ {0}
          /\ TargetMult \in Nat \ {0}
      BY BacktestAssumption, FusionAssumption
    <2>2. EntryOffset * unit \in Nat /\ StopMult * unit \in Nat \ {0}
          /\ TargetMult * unit \in Nat \ {0}
      BY <2>1
    <2> QED
      BY <1>2, <2>2 DEF Levels
  <1> HIDE DEF levels
  <1>4. size \in Nat \ {0}
    <2>1. Equity(book, candle.close) \in Int
      <3>1. book.lot.quantity * candle.close \in Int
        BY <1>2 DEF Book, Lot
      <3> QED
        BY <1>2, <3>1 DEF Equity, Book
    <2> DEFINE equity == Equity(book, candle.close)
               distance == 100 * Distance(levels.entry, levels.stop)
    <2>2. /\ distance \in Nat \ {0} /\ 100 * levels.entry \in Nat \ {0}
      BY <1>1, <1>3 DEF Distance
    <2>3. equity * RiskPerTrade \in Int /\ equity * MaxPositionPct \in Int
      BY <2>1
    <2>4. /\ (equity * RiskPerTrade) \div distance \in Int
          /\ (equity * MaxPositionPct) \div (100 * levels.entry) \in Int
      BY <2>2, <2>3, Floor
    <2>5. size \in Int
      BY <2>4 DEF SizeOf, PositionSize, Lesser
    <2> QED
      BY <1>1, <2>5
  <1> HIDE DEF size
  <1>5. fill \in Fill /\ fill.quantity \in 1..size
    BY <1>1, <1>2, <1>3, <1>4, FillOfOrder
  <1> HIDE DEF fill
  <1>6. fill.quantity \in Nat \ {0} /\ fill.fee \in Nat
    BY <1>4, <1>5 DEF Fill
  <1>7. /\ book' \in Book
        /\ book'.lot.quantity = book.lot.quantity + fill.quantity
        /\ book'.cash + book'.lot.cost = book.cash + book.lot.cost - fill.fee
        /\ book'.paid = book.paid + fill.fee
        /\ book'.lot.fees = book.lot.fees + fill.fee
        /\ book'.realised = book.realised
        /\ book'.trades = book.trades
    BY <1>1, <1>2, <1>5, <1>6, Bought
  <1>8. ~InTrade /\ trade.quantity = 0
    BY <1>1 DEF BacktestInv, TradeInPlace, InTrade, NoTrade
  <1>9. book.lot.quantity \in Nat
    BY <1>2 DEF Book, Lot
  <1>10. TypeOK'
    <2>1. Holding(book')
      BY <1>6, <1>7, <1>9 DEF Holding
    <2>2. trade' \in [quantity : Nat, stop : Int, target : Int, opened : Nat]
      BY <1>1, <1>2, <1>3, <1>6
    <2> QED
      BY <1>1, <1>7, <2>1, <2>2 DEF BacktestInv, TypeOK, Book, Lot, Trades
  <1>11. BooksBalance'
    <2>1. book.cash + book.lot.cost = StartingCash + book.realised - book.paid
      BY DEF BacktestInv, BooksBalance
    <2> QED
      BY <1>2, <1>6, <1>7, <2>1 DEF BooksBalance, Book, Lot
  <1>12. TradesBooked'
    <2>1. SUFFICES ASSUME ~partial
                   PROVE  book'.cash + book'.lot.cost + book'.lot.fees
                            = StartingCash + book'.trades.total
      BY <1>1 DEF TradesBooked
    <2>2. book.cash + book.lot.cost + book.lot.fees = StartingCash + book.trades.total
      BY <2>1 DEF BacktestInv, TradesBooked
    <2> QED
      BY <1>2, <1>6, <1>7, <2>2 DEF Book, Lot, Trades
  <1>13. TradeIsHeld'
    <2>1. trade'.quantity = fill.quantity
      BY <1>1
    <2>2. ~partial => book.lot.quantity = 0
      BY <1>8 DEF BacktestInv, TradeIsHeld
    <2> QED
      BY <1>1, <1>6, <1>7, <1>9, <2>1, <2>2 DEF TradeIsHeld
  <1>14. TradeInPlace'
    BY <1>1 DEF TradeInPlace
  <1>15. BaselinesKnown' /\ CooldownKnown'
    BY <1>1 DEF BacktestInv, BaselinesKnown, CooldownKnown, Day, Week
  <1> QED
    BY <1>10, <1>11, <1>12, <1>13, <1>14, <1>15 DEF BacktestInv

\* The end of the data.
LEMMA InvFinish ==
    ASSUME BacktestInv, Finish
    PROVE  BacktestInv'
  <1>1. /\ trade' = NoTrade /\ pc' = "done"
        /\ UNCHANGED <<bar, candle, risk, exposed, lossBar, opening>>
    BY DEF Finish
  <1>2. BaselinesKnown' /\ CooldownKnown'
    BY <1>1 DEF BacktestInv, BaselinesKnown, CooldownKnown, Day, Week
  <1>3. /\ trade' \in [quantity : Nat, stop : Int, target : Int, opened : Nat]
        /\ ~InTrade' /\ trade'.quantity = 0
    BY <1>1 DEF NoTrade, InTrade
  <1>4. CASE InTrade
    <2> DEFINE fill == SellFill(trade.quantity, candle.close)
    <2>1. book' = SoldFill(book, fill) /\ partial' = (partial \/ fill.partial)
      BY <1>4 DEF Finish
    <2>2. candle.close \in Int
      BY BookTyped DEF BacktestInv
    <2> HIDE DEF fill
    <2>3. /\ book' \in Book /\ partial' \in BOOLEAN
          /\ book'.lot.quantity = 0 => book'.lot = NoLot
          /\ book'.cash + book'.lot.cost = StartingCash + book'.realised - book'.paid
          /\ ~partial' => /\ book'.lot.quantity = 0
                          /\ book'.cash + book'.lot.cost + book'.lot.fees
                               = StartingCash + book'.trades.total
      BY <1>4, <2>1, <2>2, SellOfTrade DEF fill
    <2>4. TypeOK'
      <3>1. Holding(book') \/ book'.lot = NoLot
        BY <2>3 DEF Holding, Book, Lot
      <3> QED
        BY <1>1, <1>3, <2>3, <3>1 DEF BacktestInv, TypeOK, Book, Lot, Trades
    <2>5. Books'
      BY <1>3, <2>3 DEF Books, TradeInPlace, BooksBalance, TradeIsHeld, TradesBooked
    <2> QED
      BY <1>2, <2>4, <2>5 DEF BacktestInv, Books
  <1>5. CASE ~InTrade
    <2>1. UNCHANGED <<book, partial>>
      BY <1>5 DEF Finish
    <2>2. trade.quantity = 0
      BY <1>5 DEF InTrade, NoTrade
    <2>3. TypeOK'
      BY <1>1, <1>3, <2>1 DEF BacktestInv, TypeOK, Holding
    <2>4. Books'
      BY <1>3, <2>1, <2>2
      DEF BacktestInv, Books, TradeInPlace, BooksBalance, TradeIsHeld, TradesBooked
    <2> QED
      BY <1>2, <2>3, <2>4 DEF BacktestInv, Books
  <1> QED
    BY <1>4, <1>5

LEMMA InvStep == BacktestInv /\ [Next]_vars => BacktestInv'
  <1> SUFFICES ASSUME BacktestInv, [Next]_vars PROVE BacktestInv'
    OBVIOUS
  <1>1. ASSUME NEW c \in Candles, NextBar(c) PROVE BacktestInv'
    BY <1>1, InvNextBar
  <1>2. CASE ExitTrade
    BY <1>2, InvExitTrade
  <1>3. CASE KeepTrade
    BY <1>3, InvMovesOn DEF KeepTrade
  <1>4. ASSUME NEW v, NEW u \in Units, Skip(v, u) PROVE BacktestInv'
    BY <1>4, InvMovesOn DEF Skip
  <1>5. ASSUME NEW v, NEW u \in Units, Enter(v, u) PROVE BacktestInv'
    BY <1>5, InvEnter
  <1>6. CASE Finish
    BY <1>6, InvFinish
  <1>7. CASE UNCHANGED vars
    BY <1>7, InvMovesOn DEF vars
  <1>8. CASE Done
    BY <1>7, <1>8 DEF Done
  <1> QED
    BY <1>1, <1>2, <1>3, <1>4, <1>5, <1>6, <1>7, <1>8 DEF Next

------------------------------------------------------------------------------
(* The bars after the entry *)

Untouched(c) == trade.stop < c.low /\ c.high < trade.target

\* The barriers of the open trade are the levels fusion counts from the entry,
\* EntryOffset units below the close that the label counts from.
BarriersPlaced ==
    /\ trade.stop = seen.close - EntryOffset * seen.unit - StopMult * seen.unit
    /\ trade.target = seen.close - EntryOffset * seen.unit + TargetMult * seen.unit

\* While a trade is open its history is the bars since the entry: none but the
\* one being judged is beyond a barrier of the trade.
WindowWatched ==
    InTrade =>
        /\ seen.unit > 0
        /\ 0 < trade.stop
        /\ BarriersPlaced
        /\ \A j \in 1..Len(seen.after) :
               pc = "bar" \/ j < Len(seen.after) => Untouched(seen.after[j])
        /\ pc = "exit" =>
               /\ Len(seen.after) > 0
               /\ seen.after[Len(seen.after)] = candle

SeenTyped == seen \in [close : Int, unit : Nat, after : Seq(Candles)]

WindowInv == BacktestInv /\ SeenTyped /\ WindowWatched

\* Where the barriers of the trade lie: below its target is its stop, and
\* neither is above the barrier of the label.
LEMMA BarriersApart ==
    ASSUME seen.close \in Int, seen.unit \in Nat \ {0}, BarriersPlaced
    PROVE  /\ trade.stop < trade.target
           /\ trade.stop <= seen.close - StopMult * seen.unit
           /\ trade.target <= seen.close + TargetMult * seen.unit
  <1> DEFINE offset == EntryOffset * seen.unit
             below == StopMult * seen.unit
             above == TargetMult * seen.unit
  <1>1. offset \in Nat /\ below \in Nat \ {0} /\ above \in Nat \ {0}
    BY FusionAssumption
  <1>2. trade.stop = seen.close - offset - below /\ trade.target = seen.close - offset + above
    BY DEF BarriersPlaced
  <1> HIDE DEF offset, below, above
  <1>3. /\ trade.stop < trade.target
        /\ trade.stop <= seen.close - below
        /\ trade.target <= seen.close + above
    BY <1>1, <1>2
  <1> QED
    BY <1>3 DEF below, above

\* A bar is appended to the window of the open trade.
LEMMA WindowNextBar ==
    ASSUME WindowInv, NEW c \in Candles, NextBar(c)
    PROVE  SeenTyped' /\ WindowWatched'
  <1> DEFINE after == seen.after
             later == Append(seen.after, c)
  <1>1. CASE ~InTrade
    BY <1>1 DEF WindowInv, SeenTyped, WindowWatched, NextBar, InTrade
  <1>2. CASE InTrade
    <2>1. /\ after \in Seq(Candles) /\ seen.close \in Int /\ seen.unit \in Nat
          /\ \A j \in 1..Len(after) : Untouched(after[j])
      BY <1>2 DEF WindowInv, SeenTyped, WindowWatched, NextBar
    <2>2. /\ pc' = "exit" /\ trade' = trade /\ candle' = c
          /\ seen' = [seen EXCEPT !.after = later]
      BY <1>2 DEF NextBar
    <2>3. seen'.close = seen.close /\ seen'.unit = seen.unit /\ seen'.after = later
      BY <2>2 DEF WindowInv, SeenTyped
    <2>4. /\ later \in Seq(Candles) /\ Len(later) = Len(after) + 1
          /\ later[Len(later)] = c
          /\ \A j \in 1..Len(after) : later[j] = after[j]
      BY <2>1
    <2>5. SeenTyped'
      BY <2>1, <2>2, <2>4 DEF WindowInv, SeenTyped
    <2>6. /\ seen'.unit > 0 /\ 0 < trade'.stop
          /\ BarriersPlaced'
      BY <1>2, <2>2, <2>3 DEF WindowInv, WindowWatched, BarriersPlaced
    <2>7. Len(after) \in Nat
      BY <2>1
    <2> HIDE DEF after, later
    <2>8. Len(later) > 0
      BY <2>4, <2>7
    <2>9. \A j \in 1..Len(later) : j < Len(later) =>
              trade'.stop < later[j].low /\ later[j].high < trade'.target
      <3> SUFFICES ASSUME NEW j \in 1..Len(later), j < Len(later)
                   PROVE  trade'.stop < later[j].low /\ later[j].high < trade'.target
        OBVIOUS
      <3>1. j \in 1..Len(after)
        BY <2>4, <2>7
      <3>2. Untouched(after[j]) /\ later[j] = after[j]
        BY <2>1, <2>4, <3>1
      <3> QED
        BY <2>2, <3>2 DEF Untouched
    <2> QED
      BY <2>2, <2>3, <2>4, <2>5, <2>6, <2>8, <2>9 DEF WindowWatched, Untouched
  <1> QED
    BY <1>1, <1>2

\* A bar that is kept did not touch a barrier and the time is not up.
LEMMA WindowKeep ==
    ASSUME WindowInv, KeepTrade
    PROVE  SeenTyped' /\ WindowWatched'
  <1> DEFINE after == seen.after
  <1>1. /\ pc = "exit" /\ pc' = "bar" /\ UNCHANGED <<candle, trade, seen>>
        /\ ExitPrice(candle, trade) = NoExit
    BY DEF KeepTrade
  <1>2. InTrade
    BY <1>1 DEF WindowInv, BacktestInv, TypeOK
  <1>3. /\ after \in Seq(Candles)
        /\ seen.close \in Int /\ seen.unit \in Nat /\ seen.unit > 0
        /\ 0 < trade.stop
        /\ BarriersPlaced
        /\ \A j \in 1..Len(after) : j < Len(after) => Untouched(after[j])
        /\ after[Len(after)] = candle
    BY <1>1, <1>2 DEF WindowInv, SeenTyped, WindowWatched
  <1>4. /\ trade.stop \in Int /\ trade.target \in Int
        /\ candle.low \in Nat /\ candle.high \in Nat
    BY BookTyped DEF WindowInv, BacktestInv, TypeOK
  <1>5. trade.stop < trade.target
    BY <1>3, BarriersApart
  <1>6. Untouched(candle)
    BY <1>1, <1>3, <1>4, <1>5 DEF ExitPrice, NoExit, Untouched
  <1>7. \A j \in 1..Len(after) : Untouched(after[j])
    <2> SUFFICES ASSUME NEW j \in 1..Len(after) PROVE Untouched(after[j])
      OBVIOUS
    <2>1. Len(after) \in Nat
      BY <1>3
    <2>2. j < Len(after) \/ j = Len(after)
      BY <2>1
    <2> QED
      BY <1>3, <1>6, <2>2
  <1>8. \A j \in 1..Len(after) : Untouched(after[j])'
    BY <1>1, <1>7 DEF Untouched
  <1>9. BarriersPlaced'
    BY <1>1, <1>3 DEF BarriersPlaced
  <1> QED
    BY <1>1, <1>3, <1>8, <1>9 DEF WindowInv, SeenTyped, WindowWatched

\* An entry starts an empty window, its barriers at the levels of fusion.
LEMMA WindowEnter ==
    ASSUME WindowInv, NEW verdict, NEW unit \in Units, Enter(verdict, unit)
    PROVE  SeenTyped' /\ WindowWatched'
  <1> DEFINE levels == Levels(candle.close, unit)
  <1>1. /\ pc' = "bar"
        /\ seen' = [close |-> candle.close, unit |-> unit, after |-> << >>]
        /\ trade'.stop = levels.stop /\ trade'.target = levels.target
        /\ levels.stop > 0
    BY DEF Enter, Noted
  <1>2. candle.close \in Nat /\ unit \in Nat \ {0}
    BY BookTyped, BacktestAssumption DEF WindowInv, BacktestInv
  <1>3. /\ levels.stop = candle.close - EntryOffset * unit - StopMult * unit
        /\ levels.target = candle.close - EntryOffset * unit + TargetMult * unit
    BY DEF Levels
  <1> HIDE DEF levels
  <1>4. SeenTyped'
    BY <1>1, <1>2 DEF SeenTyped
  <1>5. /\ seen'.close = candle.close /\ seen'.unit = unit
        /\ seen'.after = << >> /\ Len(seen'.after) = 0
    BY <1>1
  <1>6. BarriersPlaced'
    BY <1>1, <1>3, <1>5 DEF BarriersPlaced
  <1> QED
    BY <1>1, <1>2, <1>4, <1>5, <1>6 DEF WindowWatched

LEMMA WindowInit == Init => WindowInv
  <1> SUFFICES ASSUME Init PROVE SeenTyped /\ WindowWatched
    BY InvInit DEF WindowInv
  <1>1. seen = [close |-> 0, unit |-> 0, after |-> << >>] /\ ~InTrade
    BY DEF Init, NothingSeen, InTrade
  <1> QED
    BY <1>1 DEF SeenTyped, WindowWatched

LEMMA WindowStep == WindowInv /\ [Next]_vars => WindowInv'
  <1> SUFFICES ASSUME WindowInv, [Next]_vars PROVE SeenTyped' /\ WindowWatched'
    BY InvStep DEF WindowInv
  <1>1. ASSUME NEW c \in Candles, NextBar(c) PROVE SeenTyped' /\ WindowWatched'
    BY <1>1, WindowNextBar
  <1>2. ASSUME trade' = NoTrade, seen' = NothingSeen PROVE SeenTyped' /\ WindowWatched'
    BY <1>2 DEF SeenTyped, WindowWatched, InTrade, NothingSeen
  <1>3. CASE ExitTrade \/ Finish
    BY <1>2, <1>3 DEF ExitTrade, Finish
  <1>4. CASE KeepTrade
    BY <1>4, WindowKeep
  <1>5. ASSUME NEW v, NEW u \in Units, Skip(v, u) PROVE SeenTyped' /\ WindowWatched'
    BY <1>5 DEF Skip, WindowInv, BacktestInv, TradeInPlace, SeenTyped, WindowWatched, BarriersPlaced, InTrade
  <1>6. ASSUME NEW v, NEW u \in Units, Enter(v, u) PROVE SeenTyped' /\ WindowWatched'
    BY <1>6, WindowEnter
  <1>7. CASE UNCHANGED vars
    BY <1>7 DEF vars, WindowInv, SeenTyped, WindowWatched, BarriersPlaced, InTrade, Untouched
  <1>8. CASE Done
    BY <1>7, <1>8 DEF Done
  <1> QED
    BY <1>1, <1>3, <1>4, <1>5, <1>6, <1>7, <1>8 DEF Next

------------------------------------------------------------------------------
(* Theorems *)

\* The strengthened invariant of the backtest.
THEOREM BacktestSafe == Spec => []BacktestInv
  BY InvInit, InvStep, PTL DEF Spec

\* Types, for every set of bars and every setting.
THEOREM BacktestTypes == Spec => []TypeOK
  <1>1. BacktestInv => TypeOK
    BY DEF BacktestInv
  <1> QED
    BY <1>1, BacktestSafe, PTL

\* The books balance whatever is filled in part.
THEOREM Balanced == Spec => []BooksBalance
  <1>1. BacktestInv => BooksBalance
    BY DEF BacktestInv
  <1> QED
    BY <1>1, BacktestSafe, PTL

\* The loop's note of its trade is backed by the book.
THEOREM NoteBacked == Spec => []TradeIsHeld
  <1>1. BacktestInv => TradeIsHeld
    BY DEF BacktestInv
  <1> QED
    BY <1>1, BacktestSafe, PTL

\* The recorded trades explain the cash of a flat book.
THEOREM CashExplained == Spec => []TradesExplainCash
  <1>1. BacktestInv => TradesExplainCash
    <2> SUFFICES ASSUME BacktestInv, ~partial, ~Holding(book)
                 PROVE  book.trades.total = book.cash - StartingCash
      BY DEF TradesExplainCash
    <2>1. book.lot.cost = 0 /\ book.lot.fees = 0
      BY DEF BacktestInv, TypeOK, NoLot
    <2>2. book.cash + book.lot.cost + book.lot.fees = StartingCash + book.trades.total
      BY DEF BacktestInv, TradesBooked
    <2>3. book.cash \in Int /\ book.trades.total \in Int
      BY BookTyped DEF BacktestInv, Book, Trades
    <2> QED
      BY <2>1, <2>2, <2>3
  <1> QED
    BY <1>1, BacktestSafe, PTL

\* Only an entry makes the lot larger.
LEMMA OnlyEntries ==
    ASSUME BacktestInv, [Next]_vars, Entered
    PROVE  \E v \in Verdicts, u \in Units : Enter(v, u)
  <1>1. book \in Book /\ book.lot.quantity \in Nat
    BY BookTyped DEF BacktestInv, Book, Lot
  <1>2. ASSUME NEW price \in Int, InTrade,
               book' = SoldFill(book, SellFill(trade.quantity, price))
        PROVE  book'.lot.quantity < book.lot.quantity
    BY <1>2, SellOfTrade
  <1>3. ~ExitTrade
    <2> SUFFICES ASSUME ExitTrade PROVE FALSE
      OBVIOUS
    <2> DEFINE price == IF ExitPrice(candle, trade) # NoExit
                        THEN ExitPrice(candle, trade) ELSE candle.close
    <2>1. price \in Int
      BY BookTyped DEF BacktestInv, TypeOK, ExitPrice, NoExit
    <2>2. InTrade
      BY DEF BacktestInv, TypeOK, ExitTrade
    <2>3. book' = SoldFill(book, SellFill(trade.quantity, price))
      BY DEF ExitTrade
    <2> HIDE DEF price
    <2>4. book'.lot.quantity < book.lot.quantity
      BY <1>2, <2>1, <2>2, <2>3
    <2>5. book' \in Book
      BY <2>1, <2>2, <2>3, SellOfTrade
    <2> QED
      BY <1>1, <2>4, <2>5 DEF Entered, Book, Lot
  <1>4. ~Finish
    <2> SUFFICES ASSUME Finish PROVE FALSE
      OBVIOUS
    <2>1. candle.close \in Int
      BY BookTyped DEF BacktestInv
    <2>2. CASE InTrade
      <3>1. book' = SoldFill(book, SellFill(trade.quantity, candle.close))
        BY <2>2 DEF Finish
      <3>2. book'.lot.quantity < book.lot.quantity /\ book' \in Book
        BY <1>2, <2>1, <2>2, <3>1, SellOfTrade
      <3> QED
        BY <1>1, <3>2 DEF Entered, Book, Lot
    <2>3. CASE ~InTrade
      BY <1>1, <2>3 DEF Finish, Entered
    <2> QED
      BY <2>2, <2>3
  <1>5. UNCHANGED book => FALSE
    BY <1>1 DEF Entered
  <1>6. ~KeepTrade /\ ~(\E c \in Candles : NextBar(c)) /\ ~Done /\ ~UNCHANGED vars
    BY <1>5 DEF KeepTrade, NextBar, Done, vars
  <1>7. \A v, u : ~Skip(v, u)
    BY <1>5 DEF Skip
  <1> QED
    BY <1>3, <1>4, <1>6, <1>7 DEF Next

\* No entry during the cooldown of a losing trade.
THEOREM CooldownHolds == Spec => NoEntryInCooldown
  <1>1. BacktestInv /\ [Next]_vars => [Entered => bar >= lossBar + LossCooldownBars]_vars
    <2> SUFFICES ASSUME BacktestInv, [Next]_vars, Entered
                 PROVE  bar >= lossBar + LossCooldownBars
      OBVIOUS
    <2>1. bar >= risk.cooldownUntil
      BY OnlyEntries DEF Enter, Permitted, EntryAllowed
    <2>2. bar \in Nat /\ risk.cooldownUntil \in Int /\ lossBar \in Int
      BY BookTyped DEF BacktestInv, TypeOK, CooldownKnown
    <2> QED
      BY <2>1, <2>2 DEF BacktestInv, CooldownKnown
  <1> QED
    BY <1>1, BacktestSafe, PTL DEF Spec, NoEntryInCooldown

\* No entry past the loss limits of the day and of the week.
THEOREM LimitsHold == Spec => NoEntryPastLimits
  <1> DEFINE Within ==
        LET equity == Equity(book, candle.close) IN
        /\ opening.day > 0 => (opening.day - equity) * 100 < MaxDailyLoss * opening.day
        /\ opening.week > 0 => (opening.week - equity) * 100 < MaxWeeklyLoss * opening.week
  <1>1. BacktestInv /\ [Next]_vars => [Entered => Within]_vars
    <2> SUFFICES ASSUME BacktestInv, [Next]_vars, Entered PROVE Within
      OBVIOUS
    <2> DEFINE equity == Equity(book, candle.close)
    <2>1. ~Breached(risk.daily, equity, MaxDailyLoss) /\ ~Breached(risk.weekly, equity, MaxWeeklyLoss)
      BY OnlyEntries DEF Enter, Permitted, EntryAllowed, LossBlocks
    <2>2. risk.daily.start = opening.day /\ risk.weekly.start = opening.week
      BY DEF BacktestInv, BaselinesKnown
    <2>3. equity \in Int
      <3>1. book \in Book /\ candle.close \in Nat
        BY BookTyped DEF BacktestInv
      <3>2. book.lot.quantity * candle.close \in Int /\ book.cash \in Int
        BY <3>1 DEF Book, Lot
      <3> QED
        BY <3>2 DEF Equity
    <2> HIDE DEF equity
    <2>4. opening.day \in Int /\ opening.week \in Int
      BY DEF BacktestInv, BaselinesKnown
    <2>5. MaxDailyLoss \in Int /\ MaxWeeklyLoss \in Int
      OBVIOUS
    <2>6. ASSUME NEW tracker, NEW limit \in Int, tracker.start \in Int, tracker.start > 0,
                 ~Breached(tracker, equity, limit)
          PROVE  (tracker.start - equity) * 100 < limit * tracker.start
      <3> DEFINE lost == (tracker.start - equity) * 100
                 allowed == limit * tracker.start
      <3>1. lost \in Int /\ allowed \in Int
        BY <2>3, <2>6
      <3>2. ~(lost >= allowed)
        BY <2>6 DEF Breached
      <3> HIDE DEF lost, allowed
      <3>3. lost < allowed
        BY <3>1, <3>2
      <3> QED
        BY <3>3 DEF lost, allowed
    <2>7. opening.day > 0 => (opening.day - equity) * 100 < MaxDailyLoss * opening.day
      <3>1. SUFFICES ASSUME opening.day > 0
                     PROVE  (risk.daily.start - equity) * 100 < MaxDailyLoss * risk.daily.start
        BY <2>2
      <3> QED
        BY <2>1, <2>2, <2>4, <2>5, <2>6, <3>1
    <2>8. opening.week > 0 => (opening.week - equity) * 100 < MaxWeeklyLoss * opening.week
      <3>1. SUFFICES ASSUME opening.week > 0
                     PROVE  (risk.weekly.start - equity) * 100 < MaxWeeklyLoss * risk.weekly.start
        BY <2>2
      <3> QED
        BY <2>1, <2>2, <2>4, <2>5, <2>6, <3>1
    <2> QED
      BY <2>7, <2>8 DEF equity
  <1>2. Spec => [][Entered => Within]_vars
    BY <1>1, BacktestSafe, PTL DEF Spec
  <1> QED
    BY <1>2 DEF NoEntryPastLimits

\* For every offset and every geometry: what the meta-model learns as a win
\* (barrier_distances, triple_barrier_label) the backtest sells at the target.
THEOREM WinsPaid == Spec => LabelledWinsArePaid
  <1> DEFINE Paid == TradeSold /\ LabelOfEntry = "win" => SoldAtTarget
  <1>1. WindowInv => Paid
    <2> SUFFICES ASSUME WindowInv, pc = "exit", LabelOfEntry = "win"
                 PROVE  SoldAtTarget
      BY DEF TradeSold
    <2> DEFINE after == seen.after
               hold == IF MaxHoldBars < 1 THEN 1 ELSE MaxHoldBars
               bars == SubSeq(after, 1, IF Len(after) < hold THEN Len(after) ELSE hold)
               lower == seen.close - StopMult * seen.unit
               upper == seen.close + TargetMult * seen.unit
    <2>1. InTrade
      BY DEF WindowInv, BacktestInv, TypeOK
    <2>2. /\ after \in Seq(Candles) /\ seen.close \in Int /\ seen.unit \in Nat \ {0}
          /\ 0 < trade.stop
          /\ BarriersPlaced
          /\ \A j \in 1..Len(after) : j < Len(after) => Untouched(after[j])
          /\ after[Len(after)] = candle
      BY <2>1 DEF WindowInv, SeenTyped, WindowWatched
    <2>3. /\ trade.stop \in Int /\ trade.target \in Int
          /\ candle.low \in Nat /\ candle.high \in Nat
      BY BookTyped DEF WindowInv, BacktestInv, TypeOK
    <2>4. /\ trade.stop < trade.target
          /\ trade.stop <= lower
          /\ trade.target <= upper
      BY <2>2, BarriersApart
    <2>5. lower \in Int /\ upper \in Int
      BY <2>2, FusionAssumption
    <2>6. FirstTouch(bars, lower, upper) = "target"
      BY DEF LabelOfEntry, TripleBarrierLabel, BarrierDistances, NoLabel
    <2>7. /\ bars \in Seq(Candles)
          /\ \A j \in DOMAIN bars : j \in 1..Len(after) /\ bars[j] = after[j]
      BY <2>2, BacktestAssumption
    <2> HIDE DEF after, hold, bars, lower, upper
    <2>8. PICK j \in DOMAIN bars : bars[j].high >= upper /\ lower < bars[j].low
      <3>1. PICK j \in DOMAIN bars : bars[j].high >= upper /\ \A k \in 1..j : lower < bars[k].low
        BY <2>6 DEF FirstTouch
      <3>2. j \in 1..j
        BY <2>7
      <3> QED
        BY <3>1, <3>2
    <2>9. /\ j \in 1..Len(after) /\ after[j] \in Candles
          /\ after[j].high >= upper /\ lower < after[j].low
      BY <2>2, <2>7, <2>8
    <2>10. after[j].high \in Nat /\ after[j].low \in Nat
      BY <2>9, BacktestAssumption DEF Candle
    <2>11. ~Untouched(after[j])
      BY <2>3, <2>4, <2>5, <2>9, <2>10 DEF Untouched
    <2>12. after[j] = candle
      <3>1. Len(after) \in Nat
        BY <2>2
      <3>2. j = Len(after)
        BY <2>2, <2>9, <2>11, <3>1
      <3> QED
        BY <2>2, <3>2
    <2>13. candle.high >= trade.target /\ trade.stop < candle.low
      BY <2>3, <2>4, <2>5, <2>9, <2>12
    <2> QED
      BY <2>3, <2>13 DEF SoldAtTarget, ExitPrice
  <1>2. Spec => []WindowInv
    BY WindowInit, WindowStep, PTL DEF Spec
  <1>3. Spec => [][Paid]_vars
    BY <1>1, <1>2, PTL
  <1> QED
    BY <1>3 DEF LabelledWinsArePaid
=============================================================================
