--------------------------- MODULE LiveTradingProofs ---------------------------
(***************************************************************************)
(* Proofs about the live broker, for both adapters and every bound, then   *)
(* about the observer on it.  The observer's steps are calls of the        *)
(* broker, or leave it alone, so that what is shown of the broker holds    *)
(* there; the rest is about the four views of a position.                  *)
(***************************************************************************)
EXTENDS LiveTrading, FiniteSetTheorems, TLAPS

USE VenueAssumption, LiveAssumption, FaultsAssumption

------------------------------------------------------------------------------
(* The broker: the inductive invariant *)

Types == /\ held \in [Symbols -> Nat]
         /\ filled \in [Symbols \X Sides -> Nat]
         /\ lots \in [Symbols -> Nat]
         /\ bought \in [Symbols -> Nat]
         /\ lossToday \in Nat
         /\ realised \in Nat
         /\ lost \in [Sides -> Nat]
         /\ restarts \in Nat

\* The venue buys a symbol at most once per bucket, by an order within the cap.
OneFillPerId == \A s \in Symbols : /\ bought[s] = filled[<<s, "buy">>]
                                   /\ bought[s] <= MaxStake

\* The loss the broker counts for its day covers what was realised today, and
\* the halt is in place as soon as it reaches the cap.
LossBooked == /\ realised > 0 => lossDay = Today
              /\ realised <= lossToday
              /\ lossToday >= LossCap => haltedDay = lossDay

BrokerInv == /\ Types
             /\ OneFillPerId
             /\ NeverAheadOfVenue
             /\ LotsMirrorVenue
             /\ LotLimit
             /\ LossBooked

\* Booking is bounded by the cap and keeps the order of two sums.
LEMMA CappedSum ==
    ASSUME NEW m \in Nat, NEW n \in Nat, NEW l \in Nat, m <= n
    PROVE  /\ Capped(m + l) \in Nat /\ Capped(n + l) \in Nat
           /\ Capped(m + l) <= Capped(n + l)
           /\ m <= LossCap => m <= Capped(n + l)
  BY DEF Capped

\* What a filled SELL does: the venue gives up what the lot gives up.
LEMMA SellExecutes ==
    ASSUME Types, NEW s \in Symbols, NEW q \in Quantities, NEW f \in Quantities,
           lots[s] > 0, Executes(s, "sell", SellSize(s, q), f)
    PROVE  /\ f <= lots[s] /\ f <= held[s] /\ f \in Nat
           /\ held' = [held EXCEPT ![s] = @ - f]
           /\ \A t \in Symbols : filled'[<<t, "buy">>] = filled[<<t, "buy">>]
           /\ filled' \in [Symbols \X Sides -> Nat]
  <1>1. SellSize(s, q) \in Nat \ {0} /\ SellSize(s, q) <= lots[s] /\ f \in Nat
    BY DEF Types, SellSize, Quantities
  <1>2. f <= SellSize(s, q)
    BY <1>1 DEF Executes, FillSizes
  <1>3. SellSize(s, q) <= held[s] /\ held' = [held EXCEPT ![s] = @ - f]
    BY DEF Executes
  <1>4. filled' = [filled EXCEPT ![<<s, "sell">>] = f]
    BY DEF Executes, ClientId
  <1>5. \A t \in Symbols : <<t, "buy">> # <<s, "sell">>
    OBVIOUS
  <1>6. filled' \in [Symbols \X Sides -> Nat]
    BY <1>1, <1>4 DEF Types
  <1>7. \A t \in Symbols : <<t, "buy">> \in Symbols \X Sides
    BY DEF Sides
  <1>8. \A t \in Symbols : filled'[<<t, "buy">>] = filled[<<t, "buy">>]
    BY <1>4, <1>5, <1>7 DEF Types
  <1>9. held[s] \in Nat /\ lots[s] \in Nat
    BY DEF Types
  <1> QED
    BY <1>1, <1>2, <1>3, <1>6, <1>8, <1>9

\* What a filled BUY does: the id was unused, and it is at most one stake.
LEMMA BuyExecutes ==
    ASSUME Types, NEW s \in Symbols, NEW q \in Quantities, NEW f \in Quantities,
           BuyAllowed(s, q), Executes(s, "buy", q, f)
    PROVE  /\ f \in Nat /\ f <= MaxStake
           /\ held' = [held EXCEPT ![s] = @ + f]
           /\ filled[<<s, "buy">>] = 0
           /\ filled' = [filled EXCEPT ![<<s, "buy">>] = f]
           /\ filled' \in [Symbols \X Sides -> Nat]
  <1>1. f <= q /\ q <= MaxStake /\ f \in Nat /\ q \in Nat
    BY DEF Executes, FillSizes, BuyAllowed, Quantities
  <1>2. filled' = [filled EXCEPT ![<<s, "buy">>] = f] /\ filled[<<s, "buy">>] = 0
    BY DEF Executes, ClientId
  <1>3. held' = [held EXCEPT ![s] = @ + f]
    BY DEF Executes
  <1>4. filled' \in [Symbols \X Sides -> Nat]
    BY <1>1, <1>2 DEF Types
  <1> QED
    BY <1>1, <1>2, <1>3, <1>4

------------------------------------------------------------------------------
(* The parts of the invariant, by what an action does to them *)

\* _roll_daily_state on its own, as a refused call or a BUY leaves it.
LEMMA RollKeepsBooks ==
    ASSUME Types, LossBooked, Rolled, realised' = realised, now' = now
    PROVE  LossBooked' /\ lossToday' \in Nat /\ realised' \in Nat
  <1>1. Today' = Today
    BY DEF Today, Day
  <1>2. realised \in Nat /\ lossToday \in Nat /\ LossCap > 0
    BY DEF Types
  <1>3. CASE NewDay
    <2>1. lossToday' = 0 /\ lossDay' = Today
      BY <1>3 DEF Rolled, RolledLoss
    <2>2. realised = 0
      BY <1>2, <1>3 DEF LossBooked, NewDay
    <2> QED
      BY <1>1, <1>2, <2>1, <2>2 DEF LossBooked
  <1>4. CASE ~NewDay
    <2>1. lossToday' = lossToday /\ lossDay' = Today /\ haltedDay' = haltedDay
      BY <1>4 DEF Rolled, RolledLoss, RolledHalt
    <2>2. lossDay = Today
      BY <1>4 DEF NewDay
    <2> QED
      BY <1>1, <1>2, <2>1, <2>2 DEF LossBooked
  <1> QED
    BY <1>3, <1>4

\* A SELL books its loss in the broker's sum and in the history alike.
LEMMA SellKeepsBooks ==
    ASSUME Types, LossBooked, NEW s, NEW f, NEW l \in Losses, now' = now,
           ApplySell(s, f, l)
    PROVE  LossBooked' /\ lossToday' \in Nat /\ realised' \in Nat
  <1>1. Today' = Today
    BY DEF Today, Day
  <1>2. realised \in Nat /\ lossToday \in Nat /\ LossCap > 0 /\ l \in Nat
    BY DEF Types
  <1>3. /\ lossDay' = Today
        /\ lossToday' = Capped(RolledLoss + l)
        /\ haltedDay' = IF lossToday' >= LossCap THEN Today ELSE RolledHalt
        /\ realised' = Capped(realised + l)
    BY DEF ApplySell
  <1>4. RolledLoss \in Nat /\ realised <= RolledLoss
    BY <1>2 DEF RolledLoss, NewDay, LossBooked
  <1>5. /\ lossToday' \in Nat /\ realised' \in Nat
        /\ realised' <= lossToday'
    BY <1>2, <1>3, <1>4, CappedSum
  <1>6. lossToday' >= LossCap => haltedDay' = lossDay'
    BY <1>3
  <1>7. lossDay' = Today'
    BY <1>1, <1>3
  <1> QED
    BY <1>5, <1>6, <1>7 DEF LossBooked

\* A BUY the caps let through opens at most one more lot.
LEMMA OneMoreLot ==
    ASSUME Types, NEW s \in Symbols, NEW q, NEW f \in Nat, BuyAllowed(s, q),
           ApplyBuy(s, f)
    PROVE  LotLimit' /\ lots' \in [Symbols -> Nat]
  <1>1. lots' \in [Symbols -> Nat]
    BY DEF Types, ApplyBuy
  <1>2. OpenLots' \subseteq OpenLots \cup {s}
    BY DEF OpenLots, ApplyBuy, Types
  <1>3. IsFiniteSet(OpenLots) /\ Cardinality(OpenLots) \in Nat
    <2>1. OpenLots \subseteq Symbols /\ IsFiniteSet(Symbols)
      BY DEF OpenLots
    <2> QED
      BY <2>1, FS_Subset, FS_CardinalityType
  <1>4. /\ IsFiniteSet(OpenLots \cup {s})
        /\ Cardinality(OpenLots \cup {s}) \in Nat
        /\ Cardinality(OpenLots \cup {s}) <= Cardinality(OpenLots) + 1
    <2>1. /\ IsFiniteSet(OpenLots \cup {s})
          /\ \/ Cardinality(OpenLots \cup {s}) = Cardinality(OpenLots)
             \/ Cardinality(OpenLots \cup {s}) = Cardinality(OpenLots) + 1
      BY <1>3, FS_AddElement, Zenon
    <2> QED
      BY <1>3, <2>1
  <1>5. Cardinality(OpenLots') <= Cardinality(OpenLots \cup {s})
    BY <1>2, <1>4, FS_Subset
  <1>6. Cardinality(OpenLots') \in Nat
    BY <1>2, <1>4, FS_Subset, FS_CardinalityType
  <1>7. Cardinality(OpenLots) < MaxPositions
    BY DEF BuyAllowed
  <1> QED
    BY <1>1, <1>3, <1>4, <1>5, <1>6, <1>7 DEF LotLimit

\* A lot that shrinks opens none.
LEMMA NoMoreLots ==
    ASSUME Types, LotLimit, NEW s \in Symbols, NEW f \in Nat, NEW l, ApplySell(s, f, l)
    PROVE  LotLimit' /\ lots' \in [Symbols -> Nat]
  <1> DEFINE sold == IF f < lots[s] THEN f ELSE lots[s]
  <1>1. lots[s] \in Nat /\ sold \in Nat /\ sold <= lots[s]
    BY DEF Types
  <1>2. lots' = [lots EXCEPT ![s] = @ - sold]
    BY DEF ApplySell
  <1>3. lots[s] - sold \in Nat /\ lots[s] - sold <= lots[s]
    BY <1>1
  <1> HIDE DEF sold
  <1>4. lots' \in [Symbols -> Nat]
    BY <1>2, <1>3 DEF Types
  <1>5. OpenLots' \subseteq OpenLots
    BY <1>1, <1>2, <1>3 DEF OpenLots, Types
  <1>6. IsFiniteSet(OpenLots)
    <2>1. OpenLots \subseteq Symbols /\ IsFiniteSet(Symbols)
      BY DEF OpenLots
    <2> QED
      BY <2>1, FS_Subset
  <1>7. Cardinality(OpenLots') <= Cardinality(OpenLots)
    BY <1>5, <1>6, FS_Subset
  <1>8. Cardinality(OpenLots') \in Nat /\ Cardinality(OpenLots) \in Nat
    BY <1>5, <1>6, FS_Subset, FS_CardinalityType
  <1> QED
    BY <1>4, <1>7, <1>8 DEF LotLimit

------------------------------------------------------------------------------
(* One lemma per action *)

\* A fresh id counts its units once, and they are at most a stake.
LEMMA BuyIsCounted ==
    ASSUME Types, OneFillPerId, NEW s \in Symbols, NEW f \in Nat, f <= MaxStake,
           filled[<<s, "buy">>] = 0,
           filled' = [filled EXCEPT ![<<s, "buy">>] = f],
           bought' = [bought EXCEPT ![s] = @ + f]
    PROVE  OneFillPerId'
  <1> SUFFICES ASSUME NEW t \in Symbols
               PROVE  bought'[t] = filled'[<<t, "buy">>] /\ bought'[t] <= MaxStake
    BY DEF OneFillPerId
  <1>1. <<t, "buy">> \in Symbols \X Sides
    BY DEF Sides
  <1>2. bought[t] = filled[<<t, "buy">>] /\ bought[t] <= MaxStake /\ bought[t] \in Nat
    BY DEF OneFillPerId, Types
  <1>3. CASE t = s
    <2>1. filled'[<<t, "buy">>] = f
      BY <1>1, <1>3 DEF Types
    <2>2. bought'[t] = f
      BY <1>2, <1>3 DEF Types
    <2> QED
      BY <2>1, <2>2
  <1>4. CASE t # s
    <2>1. <<t, "buy">> # <<s, "buy">>
      BY <1>4
    <2>2. filled'[<<t, "buy">>] = filled[<<t, "buy">>]
      BY <1>1, <2>1 DEF Types
    <2>3. bought'[t] = bought[t]
      BY <1>4 DEF Types
    <2> QED
      BY <1>2, <2>2, <2>3
  <1> QED
    BY <1>3, <1>4

\* Venue and lot grow alike, and the fresh id had bought nothing yet.
LEMMA BuyKeepsInv ==
    ASSUME BrokerInv, NEW s \in Symbols, NEW q \in Quantities,
           NEW f \in Quantities, Buy(s, q, f)
    PROVE  BrokerInv'
  <1>1. Types /\ BuyAllowed(s, q) /\ Executes(s, "buy", q, f) /\ Rolled /\ ApplyBuy(s, f)
    BY DEF BrokerInv, Buy
  <1>2. /\ f \in Nat /\ f <= MaxStake
        /\ held' = [held EXCEPT ![s] = @ + f]
        /\ filled[<<s, "buy">>] = 0
        /\ filled' = [filled EXCEPT ![<<s, "buy">>] = f]
        /\ filled' \in [Symbols \X Sides -> Nat]
    BY <1>1, BuyExecutes
  <1>3. /\ now' = now /\ adapter' = adapter
        /\ lots' = [lots EXCEPT ![s] = @ + f]
        /\ bought' = [bought EXCEPT ![s] = @ + f]
        /\ UNCHANGED <<lost, restarts, realised>>
    BY <1>1 DEF Buy, Executes, ApplyBuy
  <1>4. LossBooked' /\ lossToday' \in Nat /\ realised' \in Nat
    BY <1>1, <1>3, RollKeepsBooks DEF BrokerInv
  <1>5. LotLimit' /\ lots' \in [Symbols -> Nat]
    BY <1>1, <1>2, OneMoreLot
  <1>6. Types'
    BY <1>1, <1>2, <1>3, <1>4, <1>5 DEF Types
  <1>7. OneFillPerId'
    BY <1>1, <1>2, <1>3, BuyIsCounted DEF BrokerInv
  <1>8. NeverAheadOfVenue'
    BY <1>1, <1>2, <1>3 DEF NeverAheadOfVenue, BrokerInv, Types
  <1>9. LotsMirrorVenue'
    BY <1>2, <1>3 DEF LotsMirrorVenue, BrokerInv
  <1> QED
    BY <1>4, <1>5, <1>6, <1>7, <1>8, <1>9 DEF BrokerInv

\* Venue and lot shrink alike: the order asked for no more than the lot.
LEMMA SellKeepsInv ==
    ASSUME BrokerInv, NEW s \in Symbols, NEW q \in Quantities,
           NEW f \in Quantities, NEW l \in Losses, Sell(s, q, f, l)
    PROVE  BrokerInv'
  <1>1. /\ Types /\ lots[s] > 0 /\ Executes(s, "sell", SellSize(s, q), f)
        /\ ApplySell(s, f, l)
    BY DEF BrokerInv, Sell
  <1>2. /\ f <= lots[s] /\ f <= held[s] /\ f \in Nat
        /\ held' = [held EXCEPT ![s] = @ - f]
        /\ \A t \in Symbols : filled'[<<t, "buy">>] = filled[<<t, "buy">>]
        /\ filled' \in [Symbols \X Sides -> Nat]
    BY <1>1, SellExecutes
  <1>3. /\ now' = now /\ adapter' = adapter /\ UNCHANGED <<lost, restarts, bought>>
    BY <1>1 DEF Sell, Executes
  <1>4. lots' = [lots EXCEPT ![s] = @ - f]
    <2>1. lots[s] \in Nat
      BY <1>1 DEF Types
    <2>2. (IF f < lots[s] THEN f ELSE lots[s]) = f
      BY <1>2, <2>1
    <2> QED
      BY <1>1, <2>2 DEF ApplySell
  <1>5. LossBooked' /\ lossToday' \in Nat /\ realised' \in Nat
    BY <1>1, <1>3, SellKeepsBooks DEF BrokerInv
  <1>6. LotLimit' /\ lots' \in [Symbols -> Nat]
    BY <1>1, <1>2, NoMoreLots DEF BrokerInv
  <1>7. Types'
    <2>1. held' \in [Symbols -> Nat]
      BY <1>1, <1>2 DEF Types
    <2> QED
      BY <1>1, <1>2, <1>3, <1>5, <1>6, <2>1 DEF Types
  <1>8. OneFillPerId'
    BY <1>2, <1>3 DEF OneFillPerId, BrokerInv
  <1>9. NeverAheadOfVenue'
    BY <1>1, <1>2, <1>3, <1>4 DEF NeverAheadOfVenue, BrokerInv, Types
  <1>10. LotsMirrorVenue'
    BY <1>2, <1>3, <1>4 DEF LotsMirrorVenue, BrokerInv
  <1> QED
    BY <1>5, <1>6, <1>7, <1>8, <1>9, <1>10 DEF BrokerInv

\* The mock's replay moves the lot alone; the venue's books stay.
LEMMA BuyAgainKeepsInv ==
    ASSUME BrokerInv, NEW s \in Symbols, NEW q \in Quantities,
           NEW f \in Quantities, BuyAgain(s, q, f)
    PROVE  BrokerInv'
  <1>1. /\ Types /\ BuyAllowed(s, q) /\ Rolled /\ ApplyBuy(s, f) /\ f \in Nat
        /\ adapter = "mock" /\ UNCHANGED venueVars /\ UNCHANGED historyVars
    BY DEF BrokerInv, BuyAgain, Replayed, Quantities
  <1>2. LossBooked' /\ lossToday' \in Nat /\ realised' \in Nat
    BY <1>1, RollKeepsBooks DEF BrokerInv, venueVars, historyVars
  <1>3. LotLimit' /\ lots' \in [Symbols -> Nat]
    BY <1>1, OneMoreLot
  <1>4. Types'
    BY <1>1, <1>2, <1>3 DEF Types, venueVars, historyVars
  <1>5. OneFillPerId'
    BY <1>1 DEF OneFillPerId, BrokerInv, venueVars, historyVars
  <1>6. NeverAheadOfVenue' /\ LotsMirrorVenue'
    BY <1>1 DEF NeverAheadOfVenue, LotsMirrorVenue, venueVars
  <1> QED
    BY <1>2, <1>3, <1>4, <1>5, <1>6 DEF BrokerInv

\* The replay of a SELL books a loss once more, and shrinks the lot once more.
LEMMA SellAgainKeepsInv ==
    ASSUME BrokerInv, NEW s \in Symbols, NEW q \in Quantities,
           NEW f \in Quantities, NEW l \in Losses, SellAgain(s, q, f, l)
    PROVE  BrokerInv'
  <1>1. /\ Types /\ ApplySell(s, f, l) /\ f \in Nat
        /\ adapter = "mock" /\ UNCHANGED venueVars
        /\ UNCHANGED <<lost, restarts, bought>>
    BY DEF BrokerInv, SellAgain, Replayed, Quantities
  <1>2. LossBooked' /\ lossToday' \in Nat /\ realised' \in Nat
    BY <1>1, SellKeepsBooks DEF BrokerInv, venueVars
  <1>3. LotLimit' /\ lots' \in [Symbols -> Nat]
    BY <1>1, NoMoreLots DEF BrokerInv
  <1>4. Types'
    BY <1>1, <1>2, <1>3 DEF Types, venueVars
  <1>5. OneFillPerId'
    BY <1>1 DEF OneFillPerId, BrokerInv, venueVars
  <1>6. NeverAheadOfVenue' /\ LotsMirrorVenue'
    BY <1>1 DEF NeverAheadOfVenue, LotsMirrorVenue, venueVars
  <1> QED
    BY <1>2, <1>3, <1>4, <1>5, <1>6 DEF BrokerInv

\* A lost answer to a BUY leaves the venue ahead of the broker.
LEMMA BuyUnconfirmedKeepsInv ==
    ASSUME BrokerInv, NEW s \in Symbols, NEW q \in Quantities,
           NEW f \in Quantities, BuyUnconfirmed(s, q, f)
    PROVE  BrokerInv'
  <1>1. Types /\ BuyAllowed(s, q) /\ Executes(s, "buy", q, f) /\ Rolled
    BY DEF BrokerInv, BuyUnconfirmed
  <1>2. /\ f \in Nat /\ f <= MaxStake
        /\ held' = [held EXCEPT ![s] = @ + f]
        /\ filled[<<s, "buy">>] = 0
        /\ filled' = [filled EXCEPT ![<<s, "buy">>] = f]
        /\ filled' \in [Symbols \X Sides -> Nat]
    BY <1>1, BuyExecutes
  <1>3. /\ now' = now /\ adapter' = adapter
        /\ lost' = [lost EXCEPT !["buy"] = @ + 1]
        /\ bought' = [bought EXCEPT ![s] = @ + f]
        /\ UNCHANGED <<lots, restarts, realised>>
    BY <1>1 DEF BuyUnconfirmed, Executes
  <1>4. LossBooked' /\ lossToday' \in Nat /\ realised' \in Nat
    BY <1>1, <1>3, RollKeepsBooks DEF BrokerInv
  <1>5. /\ lost' \in [Sides -> Nat]
        /\ lost'["sell"] = lost["sell"]
        /\ lost'["buy"] # 0
    BY <1>1, <1>3 DEF Types, Sides
  <1>6. Types'
    BY <1>1, <1>2, <1>3, <1>4, <1>5 DEF Types
  <1>7. OneFillPerId'
    BY <1>1, <1>2, <1>3, BuyIsCounted DEF BrokerInv
  <1>8. NeverAheadOfVenue'
    BY <1>1, <1>2, <1>3, <1>5 DEF NeverAheadOfVenue, BrokerInv, Types
  <1>9. LotsMirrorVenue'
    BY <1>5 DEF LotsMirrorVenue, Sides
  <1>10. LotLimit'
    BY <1>3 DEF LotLimit, OpenLots, BrokerInv
  <1> QED
    BY <1>4, <1>6, <1>7, <1>8, <1>9, <1>10 DEF BrokerInv

\* A lost answer to a SELL ends what the fail-closed property speaks of.
LEMMA SellUnconfirmedKeepsInv ==
    ASSUME BrokerInv, NEW s \in Symbols, NEW q \in Quantities,
           NEW f \in Quantities, SellUnconfirmed(s, q, f)
    PROVE  BrokerInv'
  <1>1. Types /\ lots[s] > 0 /\ Executes(s, "sell", SellSize(s, q), f) /\ Rolled
    BY DEF BrokerInv, SellUnconfirmed
  <1>2. /\ f <= held[s] /\ f \in Nat
        /\ held' = [held EXCEPT ![s] = @ - f]
        /\ \A t \in Symbols : filled'[<<t, "buy">>] = filled[<<t, "buy">>]
        /\ filled' \in [Symbols \X Sides -> Nat]
    BY <1>1, SellExecutes
  <1>3. /\ now' = now /\ adapter' = adapter
        /\ lost' = [lost EXCEPT !["sell"] = @ + 1]
        /\ UNCHANGED <<lots, restarts, bought, realised>>
    BY <1>1 DEF SellUnconfirmed, Executes
  <1>4. LossBooked' /\ lossToday' \in Nat /\ realised' \in Nat
    BY <1>1, <1>3, RollKeepsBooks DEF BrokerInv
  <1>5. lost' \in [Sides -> Nat] /\ lost'["sell"] # 0
    BY <1>1, <1>3 DEF Types, Sides
  <1>6. held' \in [Symbols -> Nat]
    BY <1>1, <1>2 DEF Types
  <1>7. Types'
    BY <1>1, <1>2, <1>3, <1>4, <1>5, <1>6 DEF Types
  <1>8. OneFillPerId'
    BY <1>2, <1>3 DEF OneFillPerId, BrokerInv
  <1>9. NeverAheadOfVenue' /\ LotsMirrorVenue'
    BY <1>5 DEF NeverAheadOfVenue, LotsMirrorVenue, Sides
  <1>10. LotLimit'
    BY <1>3 DEF LotLimit, OpenLots, BrokerInv
  <1> QED
    BY <1>4, <1>7, <1>8, <1>9, <1>10 DEF BrokerInv

\* A refused call only rolls the day.
LEMMA RefusedKeepsInv ==
    ASSUME BrokerInv, Refused
    PROVE  BrokerInv'
  <1>1. Types /\ Rolled /\ UNCHANGED venueVars /\ lots' = lots /\ UNCHANGED historyVars
    BY DEF BrokerInv, Refused
  <1>2. LossBooked' /\ lossToday' \in Nat /\ realised' \in Nat
    BY <1>1, RollKeepsBooks DEF BrokerInv, venueVars, historyVars
  <1>3. Types'
    BY <1>1, <1>2 DEF Types, venueVars, historyVars
  <1>4. OneFillPerId' /\ NeverAheadOfVenue' /\ LotsMirrorVenue' /\ LotLimit'
    BY <1>1 DEF OneFillPerId, NeverAheadOfVenue, LotsMirrorVenue, LotLimit, OpenLots,
                BrokerInv, venueVars, historyVars
  <1> QED
    BY <1>2, <1>3, <1>4 DEF BrokerInv

\* A restart forgets the lots, which can only put the venue ahead; a mock venue
\* forgets what it holds with them.
LEMMA RestartKeepsInv ==
    ASSUME BrokerInv, Restart
    PROVE  BrokerInv' /\ \A s \in Symbols : held'[s] <= held[s]
  <1>1. /\ UNCHANGED <<adapter, now, lost>>
        /\ lots' = [s \in Symbols |-> 0] /\ lossToday' = 0 /\ realised' = 0
        /\ restarts' = restarts + 1
    BY DEF Restart, Rebuilt, venueVars
  <1>2. \/ held' = held /\ filled' = filled /\ bought' = bought
        \/ /\ held' = [s \in Symbols |-> 0]
           /\ filled' = [id \in Symbols \X Sides |-> 0]
           /\ bought' = [s \in Symbols |-> 0]
    BY DEF Restart, Rebuilt, venueVars
  <1>3. Types' /\ \A s \in Symbols : held'[s] <= held[s]
    BY <1>1, <1>2 DEF BrokerInv, Types
  <1>4. OneFillPerId'
    <2>1. CASE filled' = filled /\ bought' = bought
      BY <2>1 DEF OneFillPerId, BrokerInv
    <2>2. CASE /\ filled' = [id \in Symbols \X Sides |-> 0]
               /\ bought' = [s \in Symbols |-> 0]
      BY <2>2 DEF OneFillPerId, Sides
    <2> QED
      BY <1>2, <2>1, <2>2
  <1>5. NeverAheadOfVenue'
    BY <1>1, <1>3 DEF NeverAheadOfVenue, Types
  <1>6. LotsMirrorVenue'
    BY <1>1 DEF LotsMirrorVenue, BrokerInv, Types
  <1>7. OpenLots' = {}
    BY <1>1 DEF OpenLots
  <1>8. LotLimit'
    BY <1>7, FS_EmptySet DEF LotLimit
  <1>9. LossBooked'
    BY <1>1 DEF LossBooked
  <1> QED
    BY <1>3, <1>4, <1>5, <1>6, <1>8, <1>9 DEF BrokerInv

\* A new bucket frees every id; a new day empties the history of the losses.
LEMMA ClockKeepsInv ==
    ASSUME BrokerInv, Clock
    PROVE  BrokerInv'
  <1>1. /\ UNCHANGED <<adapter, held>> /\ UNCHANGED brokerVars /\ UNCHANGED <<lost, restarts>>
        /\ filled' = [id \in Symbols \X Sides |-> 0]
        /\ bought' = [s \in Symbols |-> 0]
        /\ realised' = IF Day(now') = Today THEN realised ELSE 0
    BY DEF Clock, Minute
  <1>2. Types'
    BY <1>1 DEF BrokerInv, Types, brokerVars
  <1>3. OneFillPerId'
    BY <1>1 DEF OneFillPerId, Sides
  <1>4. NeverAheadOfVenue' /\ LotsMirrorVenue' /\ LotLimit'
    BY <1>1 DEF NeverAheadOfVenue, LotsMirrorVenue, LotLimit, OpenLots, BrokerInv, brokerVars
  <1>5. Day(now') = Today'
    BY DEF Today, Day
  <1>6. LossBooked'
    BY <1>1, <1>5 DEF LossBooked, BrokerInv, Types, brokerVars
  <1> QED
    BY <1>2, <1>3, <1>4, <1>6 DEF BrokerInv

------------------------------------------------------------------------------
(* The theorems *)

\* A new broker at an empty venue satisfies the invariant.
LEMMA InitEstablishesInv == Init => BrokerInv
  <1> SUFFICES ASSUME Init PROVE BrokerInv
    OBVIOUS
  <1> USE DEF Init, VenueInit
  <1>1. Types
    BY DEF Types
  <1>2. OneFillPerId
    BY DEF OneFillPerId, Sides
  <1>3. NeverAheadOfVenue /\ LotsMirrorVenue
    BY DEF NeverAheadOfVenue, LotsMirrorVenue
  <1>4. OpenLots = {}
    BY DEF OpenLots
  <1>5. LotLimit
    BY <1>4, FS_EmptySet DEF LotLimit
  <1>6. LossBooked
    BY DEF LossBooked
  <1> QED
    BY <1>1, <1>2, <1>3, <1>5, <1>6 DEF BrokerInv

\* Every step keeps the invariant.
LEMMA NextKeepsInv == BrokerInv /\ [Next]_vars => BrokerInv'
  <1> SUFFICES ASSUME BrokerInv, [Next]_vars PROVE BrokerInv'
    OBVIOUS
  <1>1. ASSUME NEW s \in Symbols, NEW q \in Quantities, NEW f \in Quantities,
               NEW l \in Losses, Sell(s, q, f, l) \/ SellAgain(s, q, f, l)
        PROVE  BrokerInv'
    BY <1>1, SellKeepsInv, SellAgainKeepsInv
  <1>2. ASSUME NEW s \in Symbols, NEW q \in Quantities, NEW f \in Quantities,
               \/ Buy(s, q, f)
               \/ BuyAgain(s, q, f)
               \/ BuyUnconfirmed(s, q, f)
               \/ SellUnconfirmed(s, q, f)
        PROVE  BrokerInv'
    BY <1>2, BuyKeepsInv, BuyAgainKeepsInv, BuyUnconfirmedKeepsInv, SellUnconfirmedKeepsInv
  <1>3. CASE Refused
    BY <1>3, RefusedKeepsInv
  <1>4. CASE Restart
    BY <1>4, RestartKeepsInv
  <1>5. CASE Clock
    BY <1>5, ClockKeepsInv
  <1>6. CASE UNCHANGED vars
    BY <1>6 DEF vars, venueVars, brokerVars, historyVars, BrokerInv, Types, OneFillPerId,
                NeverAheadOfVenue, LotsMirrorVenue, LotLimit, OpenLots, LossBooked, Today, Day
  <1> QED
    BY <1>1, <1>2, <1>3, <1>4, <1>5, <1>6 DEF Next

\* The inductive invariant holds in every behaviour of the broker.
THEOREM BrokerSafe == Spec => []BrokerInv
  BY InitEstablishesInv, NextKeepsInv, PTL DEF Spec

\* Calls that are repeated, lost or sent after a restart never make the venue
\* buy more than one stake of a symbol under the ids of one 60-second bucket.
THEOREM OneStake == Spec => []OneStakePerBucket
  <1>1. BrokerInv => OneStakePerBucket
    BY DEF BrokerInv, OneFillPerId, OneStakePerBucket
  <1> QED
    BY <1>1, BrokerSafe, PTL

\* Fail-closed: unless the answer to a SELL is lost, the broker never believes
\* to hold more than the venue does.
THEOREM FailClosed == Spec => []NeverAheadOfVenue
  <1>1. BrokerInv => NeverAheadOfVenue
    BY DEF BrokerInv
  <1> QED
    BY <1>1, BrokerSafe, PTL

\* Lots and venue agree as long as no answer is lost and no restart happens.
THEOREM LotsMirror == Spec => []LotsMirrorVenue
  <1>1. BrokerInv => LotsMirrorVenue
    BY DEF BrokerInv
  <1> QED
    BY <1>1, BrokerSafe, PTL

\* The position cap holds whatever fills arrive, replayed ones included.
THEOREM LotCap == Spec => []LotLimit
  <1>1. BrokerInv => LotLimit
    BY DEF BrokerInv
  <1> QED
    BY <1>1, BrokerSafe, PTL

\* Once the losses of the day reach the cap no BUY passes the kill switch.
LEMMA HaltedToday ==
    ASSUME BrokerInv, realised >= LossCap, NEW s, NEW q
    PROVE  ~BuyAllowed(s, q)
  <1>1. realised \in Nat /\ lossToday \in Nat /\ LossCap > 0
    BY DEF BrokerInv, Types
  <1>2. lossDay = Today /\ lossToday >= LossCap
    BY <1>1 DEF BrokerInv, LossBooked
  <1>3. haltedDay = Today
    BY <1>2 DEF BrokerInv, LossBooked
  <1> QED
    BY <1>2, <1>3 DEF BuyAllowed, RolledHalt, NewDay

\* Once the losses realised since the last restart reach the daily cap, no
\* call of that day makes the venue hold more of anything.
THEOREM CapHolds == Spec => CapStopsEntries
  <1> DEFINE NoEntry ==
        realised >= LossCap /\ Day(now') = Today => \A s \in Symbols : held'[s] <= held[s]
  <1>1. ASSUME BrokerInv, [Next]_vars PROVE [NoEntry]_vars
    <2> SUFFICES ASSUME realised >= LossCap, NEW t \in Symbols PROVE held'[t] <= held[t]
      OBVIOUS
    <2>1. held[t] \in Nat /\ Types
      BY <1>1 DEF BrokerInv, Types
    <2>2. \A s, q : ~BuyAllowed(s, q)
      BY <1>1, HaltedToday
    <2>3. ASSUME NEW s \in Symbols, NEW q \in Quantities, NEW f \in Quantities,
                 lots[s] > 0, Executes(s, "sell", SellSize(s, q), f)
          PROVE  held'[t] <= held[t]
      <3>1. f \in Nat /\ held' = [held EXCEPT ![s] = @ - f]
        BY <2>1, <2>3, SellExecutes
      <3> QED
        BY <2>1, <3>1 DEF Types
    <2>4. ASSUME NEW s \in Symbols, NEW q \in Quantities, NEW f \in Quantities,
                 NEW l \in Losses, Sell(s, q, f, l) \/ SellAgain(s, q, f, l)
          PROVE  held'[t] <= held[t]
      <3>1. CASE Sell(s, q, f, l)
        BY <2>3, <3>1 DEF Sell
      <3>2. CASE SellAgain(s, q, f, l)
        BY <2>1, <3>2 DEF SellAgain, Replayed, venueVars
      <3> QED
        BY <2>4, <3>1, <3>2
    <2>5. ASSUME NEW s \in Symbols, NEW q \in Quantities, NEW f \in Quantities,
                 \/ Buy(s, q, f)
                 \/ BuyAgain(s, q, f)
                 \/ BuyUnconfirmed(s, q, f)
                 \/ SellUnconfirmed(s, q, f)
          PROVE  held'[t] <= held[t]
      <3>1. CASE SellUnconfirmed(s, q, f)
        BY <2>3, <3>1 DEF SellUnconfirmed
      <3>2. CASE Buy(s, q, f) \/ BuyAgain(s, q, f) \/ BuyUnconfirmed(s, q, f)
        BY <2>2, <3>2 DEF Buy, BuyAgain, BuyUnconfirmed
      <3> QED
        BY <2>5, <3>1, <3>2
    <2>6. CASE Refused \/ Clock \/ UNCHANGED vars
      <3>1. held' = held
        BY <2>6 DEF Refused, Clock, Minute, vars, venueVars
      <3> QED
        BY <2>1, <3>1
    <2>7. CASE Restart
      BY <1>1, <2>7, RestartKeepsInv
    <2> QED
      BY <1>1, <2>4, <2>5, <2>6, <2>7 DEF Next
  <1>2. BrokerInv /\ [Next]_vars => [NoEntry]_vars
    BY <1>1
  <1> QED
    BY <1>2, BrokerSafe, PTL DEF Spec, CapStopsEntries

------------------------------------------------------------------------------
(* The observer on the broker: the inductive invariant *)

\* What an order may fill, or nothing.
Amounts == Quantities \cup {0}

LedgerTypes == /\ {tracked, row, saved} \subseteq [Symbols -> Amounts]
               /\ {scanning, remainders, unbooked} \subseteq BOOLEAN
               /\ faults \in Nat

\* The pending table claims no more than the venue holds either: the scan's
\* batch may commit it.
RowsBacked ==
    adapter = "binance" /\ lost["sell"] = 0 /\ ~unbooked
        => \A s \in Symbols : row[s] <= held[s] /\ saved[s] <= held[s]

\* Nothing has happened that the views need not survive.
Faultless == /\ adapter = "binance" /\ NoLoss
             /\ faults = 0 /\ restarts = 0 /\ ~remainders

\* During a scan all views but the disk agree.
ViewsInStep ==
    Faultless => /\ lots = tracked /\ tracked = row
                 /\ ~scanning => row = saved

TradingInv == BrokerInv /\ LedgerTypes /\ RowsBacked /\ ViewsInStep

LEMMA TradingInvInit == LiveInit => TradingInv
  <1> SUFFICES ASSUME LiveInit PROVE TradingInv
    OBVIOUS
  <1>1. BrokerInv
    BY InitEstablishesInv DEF LiveInit
  <1>2. LedgerTypes
    BY DEF LiveInit, LedgerTypes, Amounts, None
  <1>3. RowsBacked
    BY DEF LiveInit, RowsBacked, None, Init, VenueInit
  <1>4. ViewsInStep
    BY DEF LiveInit, ViewsInStep, None, Init
  <1> QED
    BY <1>1, <1>2, <1>3, <1>4 DEF TradingInv

------------------------------------------------------------------------------
(* The broker's part *)

\* A step of the observer is a step of the broker, or leaves it alone.
LEMMA StepCallsBroker == LedgerTypes /\ [LiveNext]_liveVars => [Next]_vars
  <1> SUFFICES ASSUME LedgerTypes, [LiveNext]_liveVars PROVE [Next]_vars
    OBVIOUS
  <1>1. CASE BeginScan \/ CommitScan \/ AbortScan
    BY <1>1 DEF BeginScan, CommitScan, AbortScan
  <1>2. CASE \E s \in Symbols, q, f \in Quantities :
                OpenLong(s, q, f) \/ OpenUnrecorded(s, q, f)
    BY <1>2 DEF OpenLong, OpenUnrecorded, Next
  <1>3. CASE OpenRefused
    BY <1>3 DEF OpenRefused, Next
  <1>4. \A s \in Symbols : tracked[s] > 0 => tracked[s] \in Quantities
    BY DEF LedgerTypes, Amounts, Quantities
  <1>5. CASE \E s \in Symbols, f \in Quantities, l \in Losses :
                CloseLong(s, f, l) \/ CloseUnrecorded(s, f, l)
    BY <1>4, <1>5 DEF CloseLong, CloseUnrecorded, Next
  <1>6. CASE CloseRefused
    BY <1>4, <1>6 DEF CloseRefused, Next
  <1>7. CASE RestartObserver
    BY <1>7 DEF RestartObserver, Next
  <1>8. CASE Clock /\ UNCHANGED ledgerVars
    BY <1>8 DEF Next
  <1>9. CASE UNCHANGED liveVars
    BY <1>9 DEF liveVars
  <1> QED
    BY <1>1, <1>2, <1>3, <1>5, <1>6, <1>7, <1>8, <1>9 DEF LiveNext

\* What a BUY that is filled changes.
LEMMA BuyFills ==
    ASSUME BrokerInv, NEW s \in Symbols, NEW q \in Quantities, NEW f \in Quantities,
           Buy(s, q, f) \/ BuyAgain(s, q, f)
    PROVE  /\ adapter' = adapter /\ lost' = lost /\ restarts' = restarts
           /\ lots' = [lots EXCEPT ![s] = @ + f]
           /\ adapter = "binance" => held' = [held EXCEPT ![s] = @ + f]
  <1>1. CASE Buy(s, q, f)
    BY <1>1 DEF Buy, Executes, ApplyBuy
  <1>2. CASE BuyAgain(s, q, f)
    BY <1>2 DEF BuyAgain, Replayed, ApplyBuy, venueVars, historyVars
  <1> QED
    BY <1>1, <1>2

\* What a SELL that is filled changes.
LEMMA SellFills ==
    ASSUME BrokerInv, NEW s \in Symbols, NEW q \in Quantities, NEW f \in Quantities,
           NEW l \in Losses, Sell(s, q, f, l) \/ SellAgain(s, q, f, l)
    PROVE  /\ adapter' = adapter /\ lost' = lost /\ restarts' = restarts
           /\ adapter = "binance" => /\ f \in Nat /\ f <= lots[s] /\ f <= q
                                     /\ held' = [held EXCEPT ![s] = @ - f]
                                     /\ lots' = [lots EXCEPT ![s] = @ - f]
  <1>1. CASE Sell(s, q, f, l)
    <2>1. f <= lots[s] /\ f \in Nat /\ held' = [held EXCEPT ![s] = @ - f]
      BY <1>1, SellExecutes DEF Sell, BrokerInv
    <2>2. lots' = [lots EXCEPT ![s] = @ - f]
      <3> DEFINE sold == IF f < lots[s] THEN f ELSE lots[s]
      <3>1. lots[s] \in Nat
        BY DEF BrokerInv, Types
      <3>2. sold = f
        BY <2>1, <3>1
      <3>3. lots' = [lots EXCEPT ![s] = @ - sold]
        BY <1>1 DEF Sell, ApplySell
      <3> QED
        BY <3>2, <3>3
    <2>3. f \in FillSizes(SellSize(s, q)) /\ adapter' = adapter
      BY <1>1 DEF Sell, Executes
    <2>4. f <= q
      BY <2>1, <2>3 DEF FillSizes, SellSize, Quantities, BrokerInv, Types
    <2> QED
      BY <1>1, <2>1, <2>2, <2>3, <2>4 DEF Sell
  <1>2. CASE SellAgain(s, q, f, l)
    BY <1>2 DEF SellAgain, Replayed, venueVars
  <1> QED
    BY <1>1, <1>2

------------------------------------------------------------------------------
(* The steps *)

\* A position is opened, with its row or without.
LEMMA OpenKeepsViews ==
    ASSUME TradingInv, NEW s \in Symbols, NEW q \in Quantities, NEW f \in Quantities,
           OpenLong(s, q, f) \/ OpenUnrecorded(s, q, f)
    PROVE  LedgerTypes' /\ RowsBacked' /\ ViewsInStep'
  <1>1. Buy(s, q, f) \/ BuyAgain(s, q, f)
    BY DEF OpenLong, OpenUnrecorded
  <1>2. /\ adapter' = adapter /\ lost' = lost /\ restarts' = restarts
        /\ lots' = [lots EXCEPT ![s] = @ + f]
        /\ adapter = "binance" => held' = [held EXCEPT ![s] = @ + f]
    BY <1>1, BuyFills DEF TradingInv
  <1>3. held \in [Symbols -> Nat] /\ lots \in [Symbols -> Nat] /\ f \in Nat
    BY DEF TradingInv, BrokerInv, Types, Quantities
  <1>4. /\ row \in [Symbols -> Nat] /\ saved \in [Symbols -> Nat]
        /\ tracked \in [Symbols -> Nat] /\ faults \in Nat
    BY DEF TradingInv, LedgerTypes, Amounts, Quantities
  <1>5. CASE OpenLong(s, q, f)
    <2>1. LedgerTypes'
      BY <1>5 DEF OpenLong, TradingInv, LedgerTypes, Amounts
    <2>2. RowsBacked'
      <3>1. SUFFICES ASSUME RowsBacked, adapter = "binance", lost["sell"] = 0, ~unbooked,
                            NEW t \in Symbols
                     PROVE  row'[t] <= held'[t] /\ saved'[t] <= held'[t]
        BY <1>2, <1>5 DEF OpenLong, TradingInv, RowsBacked
      <3>2. row[t] <= held[t] /\ saved[t] <= held[t]
        BY <3>1 DEF RowsBacked
      <3> QED
        BY <1>2, <1>3, <1>4, <1>5, <3>1, <3>2 DEF OpenLong
    <2>3. ViewsInStep'
      <3>1. SUFFICES ASSUME Faultless'
                     PROVE  lots' = tracked' /\ tracked' = row' /\ scanning'
        BY <1>5 DEF OpenLong, ViewsInStep
      <3>2. Faultless
        BY <1>2, <1>5, <3>1 DEF OpenLong, Faultless, NoLoss
      <3>3. lots = tracked /\ tracked = row /\ tracked[s] = 0
        BY <1>5, <3>2 DEF OpenLong, TradingInv, ViewsInStep
      <3> QED
        BY <1>2, <1>3, <1>4, <1>5, <3>3 DEF OpenLong
    <2> QED
      BY <2>1, <2>2, <2>3
  <1>6. CASE OpenUnrecorded(s, q, f)
    <2>1. LedgerTypes'
      BY <1>4, <1>6 DEF OpenUnrecorded, Fault, TradingInv, LedgerTypes
    <2>2. RowsBacked'
      BY <1>2, <1>3, <1>4, <1>6 DEF OpenUnrecorded, TradingInv, RowsBacked
    <2>3. ViewsInStep'
      BY <1>4, <1>6 DEF OpenUnrecorded, Fault, ViewsInStep, Faultless
    <2> QED
      BY <2>1, <2>2, <2>3
  <1> QED
    BY <1>5, <1>6

\* A position is closed, and its row with it or not.
LEMMA CloseKeepsViews ==
    ASSUME TradingInv, NEW s \in Symbols, NEW f \in Quantities, NEW l \in Losses,
           CloseLong(s, f, l) \/ CloseUnrecorded(s, f, l)
    PROVE  LedgerTypes' /\ RowsBacked' /\ ViewsInStep'
  <1>1. tracked[s] \in Quantities
    BY DEF CloseLong, CloseUnrecorded, TradingInv, LedgerTypes, Amounts, Quantities
  <1>2. Sell(s, tracked[s], f, l) \/ SellAgain(s, tracked[s], f, l)
    BY DEF CloseLong, CloseUnrecorded
  <1>3. /\ adapter' = adapter /\ lost' = lost /\ restarts' = restarts
        /\ adapter = "binance" => /\ f \in Nat /\ f <= lots[s] /\ f <= tracked[s]
                                  /\ held' = [held EXCEPT ![s] = @ - f]
                                  /\ lots' = [lots EXCEPT ![s] = @ - f]
    BY <1>1, <1>2, SellFills DEF TradingInv
  <1>4. held \in [Symbols -> Nat] /\ held' \in [Symbols -> Nat] /\ lots \in [Symbols -> Nat]
    <2>1. BrokerInv' => held' \in [Symbols -> Nat]
      BY DEF BrokerInv, Types
    <2>2. BrokerInv'
      BY <1>1, <1>2, NextKeepsInv DEF TradingInv, Next
    <2> QED
      BY <2>1, <2>2 DEF TradingInv, BrokerInv, Types
  <1>5. /\ row \in [Symbols -> Nat] /\ saved \in [Symbols -> Nat]
        /\ tracked \in [Symbols -> Nat] /\ faults \in Nat
    BY DEF TradingInv, LedgerTypes, Amounts, Quantities
  <1>6. CASE CloseLong(s, f, l)
    <2>1. LedgerTypes'
      BY <1>6 DEF CloseLong, TradingInv, LedgerTypes, Amounts
    <2>2. RowsBacked'
      <3>1. SUFFICES ASSUME adapter = "binance", lost["sell"] = 0, ~unbooked,
                            NEW t \in Symbols
                     PROVE  row'[t] <= held'[t] /\ saved'[t] <= held'[t]
        BY <1>3, <1>6 DEF CloseLong, RowsBacked
      <3>2. row[t] <= held[t]
        BY <3>1 DEF TradingInv, RowsBacked
      <3>3. row'[t] <= held'[t]
        BY <1>3, <1>4, <1>5, <1>6, <3>1, <3>2 DEF CloseLong
      <3> QED
        BY <1>6, <3>3 DEF CloseLong
    <2>3. ViewsInStep'
      <3>1. SUFFICES ASSUME Faultless'
                     PROVE  lots' = tracked' /\ tracked' = row' /\ row' = saved'
        BY DEF ViewsInStep
      <3>2. Faultless /\ f = tracked[s]
        <4>1. remainders' = (remainders \/ f < tracked[s]) /\ faults' = faults
          BY <1>6 DEF CloseLong
        <4>2. ~remainders'
          BY <3>1 DEF Faultless
        <4>3. ~remainders /\ ~(f < tracked[s])
          BY <4>1, <4>2, Zenon
        <4>4. Faultless
          BY <1>3, <3>1, <4>1, <4>3 DEF Faultless, NoLoss
        <4>5. f \in Nat /\ f <= tracked[s] /\ tracked[s] \in Nat
          BY <1>3, <1>5, <4>4 DEF Faultless
        <4> QED
          BY <4>3, <4>4, <4>5
      <3>3. lots = tracked /\ tracked = row
        BY <3>2 DEF TradingInv, ViewsInStep
      <3>4. lots' = [lots EXCEPT ![s] = 0]
        BY <1>3, <1>4, <3>2, <3>3 DEF Faultless
      <3> QED
        BY <1>6, <3>3, <3>4 DEF CloseLong
    <2> QED
      BY <2>1, <2>2, <2>3
  <1>7. CASE CloseUnrecorded(s, f, l)
    <2>1. row' \in [Symbols -> Amounts] /\ saved' \in [Symbols -> Amounts]
      BY <1>7 DEF CloseUnrecorded, TradingInv, LedgerTypes, Amounts
    <2>2. LedgerTypes'
      BY <1>5, <1>7, <2>1 DEF CloseUnrecorded, Fault, TradingInv, LedgerTypes
    <2>3. RowsBacked'
      BY <1>7 DEF CloseUnrecorded, RowsBacked
    <2>4. ViewsInStep'
      BY <1>5, <1>7 DEF CloseUnrecorded, Fault, ViewsInStep, Faultless
    <2> QED
      BY <2>2, <2>3, <2>4
  <1> QED
    BY <1>6, <1>7

\* The broker raises, whether or not the venue has executed.
LEMMA RefusalKeepsViews ==
    ASSUME TradingInv, OpenRefused \/ CloseRefused
    PROVE  LedgerTypes' /\ RowsBacked' /\ ViewsInStep'
  <1>1. UNCHANGED ledgerVars
    BY DEF OpenRefused, CloseRefused
  <1>2. LedgerTypes'
    BY <1>1 DEF TradingInv, LedgerTypes, ledgerVars
  <1>3. CASE Refused
    BY <1>1, <1>2, <1>3 DEF TradingInv, RowsBacked, ViewsInStep, Faultless, NoLoss,
       Refused, venueVars, historyVars, ledgerVars
  <1>4. lost \in [Sides -> Nat] /\ held \in [Symbols -> Nat]
    BY DEF TradingInv, BrokerInv, Types
  <1>5. ASSUME NEW s \in Symbols, NEW q \in Quantities, NEW f \in Quantities,
               BuyUnconfirmed(s, q, f)
        PROVE  RowsBacked' /\ ViewsInStep'
    <2>1. /\ adapter' = adapter /\ f \in Nat
          /\ held' = [held EXCEPT ![s] = @ + f]
          /\ lost' = [lost EXCEPT !["buy"] = @ + 1]
      BY <1>5 DEF BuyUnconfirmed, Executes, Quantities
    <2>2. RowsBacked'
      <3>1. /\ row \in [Symbols -> Nat] /\ saved \in [Symbols -> Nat]
        BY DEF TradingInv, LedgerTypes, Amounts, Quantities
      <3>2. \A t \in Symbols : held[t] <= held'[t] /\ held'[t] \in Nat
        BY <1>4, <2>1
      <3>3. lost'["sell"] = lost["sell"] /\ row' = row /\ saved' = saved /\ unbooked' = unbooked
        BY <1>1, <1>4, <2>1 DEF ledgerVars, Sides
      <3>4. SUFFICES ASSUME adapter = "binance", lost["sell"] = 0, ~unbooked,
                            NEW t \in Symbols
                     PROVE  row[t] <= held'[t] /\ saved[t] <= held'[t]
        BY <2>1, <3>3 DEF RowsBacked
      <3>5. row[t] <= held[t] /\ saved[t] <= held[t]
        BY <3>4 DEF TradingInv, RowsBacked
      <3> QED
        BY <1>4, <3>1, <3>2, <3>5
    <2>3. ViewsInStep'
      BY <1>4, <2>1 DEF ViewsInStep, Faultless, NoLoss, Sides
    <2> QED
      BY <2>2, <2>3
  <1>6. ASSUME NEW s \in Symbols, NEW q, NEW f \in Quantities, SellUnconfirmed(s, q, f)
        PROVE  RowsBacked' /\ ViewsInStep'
    <2>1. lost' = [lost EXCEPT !["sell"] = @ + 1]
      BY <1>6 DEF SellUnconfirmed
    <2>2. lost'["sell"] # 0
      BY <1>4, <2>1 DEF Sides
    <2> QED
      BY <2>2 DEF RowsBacked, ViewsInStep, Faultless, NoLoss, Sides
  <1> QED
    BY <1>2, <1>3, <1>5, <1>6 DEF OpenRefused, CloseRefused

\* A new process.
LEMMA RestartKeepsViews ==
    ASSUME TradingInv, RestartObserver
    PROVE  LedgerTypes' /\ RowsBacked' /\ ViewsInStep'
  <1>1. /\ adapter' = adapter /\ lost' = lost /\ restarts' # 0
        /\ adapter = "binance" => held' = held
    BY DEF RestartObserver, Restart, Rebuilt, venueVars, TradingInv, BrokerInv, Types
  <1>2. LedgerTypes'
    BY DEF RestartObserver, TradingInv, LedgerTypes
  <1>3. RowsBacked'
    BY <1>1 DEF RestartObserver, TradingInv, RowsBacked
  <1>4. ViewsInStep'
    BY <1>1 DEF ViewsInStep, Faultless
  <1> QED
    BY <1>2, <1>3, <1>4

\* The scan begins, commits or is rolled back; time passes.
LEMMA ScanKeepsViews ==
    ASSUME TradingInv, \/ BeginScan \/ CommitScan \/ AbortScan
                       \/ Clock /\ UNCHANGED ledgerVars
                       \/ UNCHANGED liveVars
    PROVE  LedgerTypes' /\ RowsBacked' /\ ViewsInStep'
  <1>1. UNCHANGED <<adapter, held, lost, restarts, lots>>
    BY DEF BeginScan, CommitScan, AbortScan, Clock, Minute, liveVars, vars,
       venueVars, brokerVars, historyVars
  <1>2. faults \in Nat
    BY DEF TradingInv, LedgerTypes
  <1>3. LedgerTypes'
    <2>1. {tracked', row', saved'} \subseteq {tracked, row, saved}
      BY DEF BeginScan, CommitScan, AbortScan, ledgerVars, liveVars
    <2>2. faults' \in Nat /\ UNCHANGED <<remainders, unbooked>>
      BY <1>2 DEF BeginScan, CommitScan, AbortScan, Fault, ledgerVars, liveVars
    <2>3. scanning' \in BOOLEAN
      BY DEF BeginScan, CommitScan, AbortScan, ledgerVars, liveVars,
         TradingInv, LedgerTypes
    <2> QED
      BY <2>1, <2>2, <2>3 DEF TradingInv, LedgerTypes
  <1>4. RowsBacked'
    BY <1>1 DEF BeginScan, CommitScan, AbortScan, ledgerVars, liveVars,
       TradingInv, RowsBacked
  <1>5. ViewsInStep'
    BY <1>1, <1>2 DEF BeginScan, CommitScan, AbortScan, Fault, ledgerVars, liveVars,
       TradingInv, ViewsInStep, Faultless, NoLoss
  <1> QED
    BY <1>3, <1>4, <1>5

LEMMA TradingInvStep == TradingInv /\ [LiveNext]_liveVars => TradingInv'
  <1> SUFFICES ASSUME TradingInv, [LiveNext]_liveVars PROVE TradingInv'
    OBVIOUS
  <1>1. BrokerInv'
    BY StepCallsBroker, NextKeepsInv DEF TradingInv
  <1>2. LedgerTypes' /\ RowsBacked' /\ ViewsInStep'
    BY OpenKeepsViews, CloseKeepsViews, RefusalKeepsViews, RestartKeepsViews,
       ScanKeepsViews DEF LiveNext
  <1> QED
    BY <1>1, <1>2 DEF TradingInv

------------------------------------------------------------------------------
(* The theorems *)

\* The inductive invariant holds in every behaviour of observer and broker.
THEOREM TradingSafe == LiveSpec => []TradingInv
  BY TradingInvInit, TradingInvStep, PTL DEF LiveSpec

\* The observer uses the broker as LiveBroker describes it, whatever its writes
\* and restarts: all that is proved of the broker holds of the broker it has.
THEOREM ImplementsBroker == LiveSpec => Spec
  <1>1. LiveInit => Init
    BY DEF LiveInit
  <1>2. TradingInv /\ [LiveNext]_liveVars => [Next]_vars
    BY StepCallsBroker DEF TradingInv
  <1> QED
    BY <1>1, <1>2, TradingSafe, PTL DEF LiveSpec, Spec

\* The ledger on disk claims nothing the venue does not hold, through crashes,
\* rolled-back scans, failed inserts and lost answers to BUYs.
THEOREM LedgerIsBacked == LiveSpec => []LedgerBacked
  <1>1. TradingInv => LedgerBacked
    BY DEF TradingInv, RowsBacked, LedgerBacked
  <1> QED
    BY <1>1, TradingSafe, PTL

\* Venue, broker, memory and table agree between two scans without faults.
THEOREM ViewsDoAgree == LiveSpec => []ViewsAgree
  <1>1. TradingInv => ViewsAgree
    BY DEF TradingInv, BrokerInv, LotsMirrorVenue, ViewsInStep, Faultless, ViewsAgree, NoLoss
  <1> QED
    BY <1>1, TradingSafe, PTL
==============================================================================
