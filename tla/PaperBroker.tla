------------------------------ MODULE PaperBroker ------------------------------
(***************************************************************************)
(* The simulated broker of the backtest and of the paper loop: market      *)
(* orders filled with slippage and a fee up to a share of the liquidity,   *)
(* one lot of the symbol with its cost, cash, realised PnL, fees paid and  *)
(* the closed trades (how many, the last one's PnL, their sum, the winners).*)
(* Its state is one record, `book`.                                        *)
(*                                                                         *)
(* The lot's average price is kept as its cost over its quantity; what a   *)
(* partial SELL takes out of the cost is rounded down to a whole number.   *)
(* Slippage is in price units, the fee in percent.                         *)
(***************************************************************************)
EXTENDS Integers

CONSTANTS
    StartingCash,       \* paper.starting_cash
    FeePct,             \* fee_bps
    BaseSlippage,       \* base_slippage_bps
    ImpactSlippage,     \* impact_slippage_bps
    Depth               \* notional one order may consume: liquidity times
                        \* partial_fill_liquidity_frac

ASSUME PaperAssumption ==
    /\ StartingCash \in Nat \ {0}
    /\ FeePct \in 0..100
    /\ BaseSlippage \in Nat
    /\ ImpactSlippage \in Nat
    /\ Depth \in Nat \ {0}

NoLot == [quantity |-> 0, cost |-> 0, fees |-> 0]

NoTrades == [count |-> 0, last |-> 0, total |-> 0, won |-> 0]

EmptyBook ==
    [cash |-> StartingCash, lot |-> NoLot, realised |-> 0, paid |-> 0,
     trades |-> NoTrades]

------------------------------------------------------------------------------
(* simulate_fill *)

\* The quantity one order may take at the price of the bar.
Fillable(price) == Depth \div price

\* The price moves against the order the more of the liquidity it takes; it
\* stays positive.
Slippage(filled, fillable) ==
    BaseSlippage + (ImpactSlippage * filled) \div fillable

SlippedSell(price, slip) == IF slip < price THEN price - slip ELSE 1

Fee(price, quantity) == (price * quantity * FeePct) \div 100

\* The fill of an order; `mark` is the price the liquidity is taken from.
Filled(side, quantity, price, mark) ==
    LET filled == IF quantity < Fillable(mark) THEN quantity ELSE Fillable(mark)
        slip == Slippage(filled, Fillable(mark))
        at == IF side = "buy" THEN price + slip ELSE SlippedSell(price, slip)
    IN  [quantity |-> filled, price |-> at, fee |-> Fee(at, filled),
         partial |-> filled < quantity]

------------------------------------------------------------------------------
(* submit_market_order *)

Holding(book) == book.lot.quantity > 0

\* _apply_fill, BUY.
BoughtFill(book, fill) ==
    [book EXCEPT
        !.cash = @ - fill.price * fill.quantity - fill.fee,
        !.paid = @ + fill.fee,
        !.lot = [quantity |-> @.quantity + fill.quantity,
                 cost |-> @.cost + fill.price * fill.quantity,
                 fees |-> @.fees + fill.fee]]

\* TradeRecord: what the closed trades are asked for.
WithTrade(trades, pnl) ==
    [count |-> trades.count + 1, last |-> pnl, total |-> trades.total + pnl,
     won |-> trades.won + (IF pnl > 0 THEN 1 ELSE 0)]

\* Mutant: an empty lot is kept with its fees.
LotAfterSaleKept(lot, quantity, released, fee) ==
    [quantity |-> lot.quantity - quantity, cost |-> lot.cost - released,
     fees |-> lot.fees + fee]

\* The lot after a SELL; an empty one is replaced by a new one.
LotAfterSale(lot, quantity, released, fee) ==
    IF quantity = lot.quantity
    THEN NoLot
    ELSE [quantity |-> lot.quantity - quantity, cost |-> lot.cost - released,
          fees |-> lot.fees + fee]

\* Mutant: the fee of a SELL is not taken from the cash.
ProceedsGross(fill) == fill.price * fill.quantity

Proceeds(fill) == fill.price * fill.quantity - fill.fee

\* _apply_fill, SELL: the trade is recorded when the lot is empty, with the
\* gain of this last fill and the fees of all of them.
SoldFill(book, fill) ==
    LET lot == book.lot
        released == (lot.cost * fill.quantity) \div lot.quantity
        realised == fill.price * fill.quantity - released
    IN  [book EXCEPT
            !.cash = @ + Proceeds(fill),
            !.paid = @ + fill.fee,
            !.realised = @ + realised,
            !.lot = LotAfterSale(lot, fill.quantity, released, fill.fee),
            !.trades = IF fill.quantity = lot.quantity
                       THEN WithTrade(@, realised - (lot.fees + fill.fee))
                       ELSE @]

\* A SELL is cut to what is held.
SellQuantity(book, quantity) ==
    IF quantity < book.lot.quantity THEN quantity ELSE book.lot.quantity

Equity(book, mark) == book.cash + book.lot.quantity * mark
=============================================================================
