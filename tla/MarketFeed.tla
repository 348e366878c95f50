------------------------------ MODULE MarketFeed ------------------------------
(***************************************************************************)
(* RealMarketFeed and what a cycle asks of it: the parallel warm-up, the   *)
(* scan with its staleness guard, and price_at for the evaluation of a     *)
(* prediction at its horizon.  Two caches stand between the observer and   *)
(* the exchange: `recent`, the last candles of a symbol, trusted for Ttl,  *)
(* and `closes`, the close of a minute, kept for good.                     *)
(*                                                                         *)
(* The close of a candle is the tick of the last trade in it, so that the  *)
(* candle of a minute that has not ended is told from the final one.       *)
(***************************************************************************)
EXTENDS Integers, SequencesExt

CONSTANTS
    Watchlist,
    Minute,     \* ticks of a minute
    Bars,       \* candles a scan asks for
    Retained,   \* _MINUTE_CLOSE_CACHE_MAX
    Ttl,        \* _RECENT_TTL, in ticks
    MaxAge,     \* runtime.max_data_age_seconds, in ticks
    Horizon,    \* minutes from a prediction to its evaluation
    LastTick,   \* bound
    MaxClaims   \* bound: predictions

ASSUME FeedAssumption ==
    /\ {Minute, Bars, Retained} \subseteq Nat \ {0}
    /\ {Ttl, MaxAge, Horizon, LastTick, MaxClaims} \subseteq Nat

VARIABLES
    tick,       \* the time
    recent,     \* _recent
    closes,     \* _minute_close, the oldest entry first
    answers,    \* klines the exchange has answered and candles_at not returned
    storing,    \* the minute of the answer whose close is stored next
    stage,      \* what the observer is at
    asOf,       \* the time of its cycle
    todo,       \* symbols still to be visited at this stage
    claims      \* predictions, each with the price it was evaluated at

feedOwn == <<tick, recent, closes, answers, storing, stage, asOf, todo, claims>>
caches == <<recent, closes, answers, storing>>

MinuteAt(t) == t \div Minute
LastTrade(m) == m * Minute + Minute - 1

\* The close of minute m in a kline answered at tick t.
CloseAt(m, t) == IF t < LastTrade(m) THEN t ELSE LastTrade(m)

Nothing == [read |-> -1, last |-> -1, at |-> -1]
NotStoring == -1
Unjudged == -1
NoKline == -2

FeedInit ==
    /\ tick = 0
    /\ recent = [s \in Watchlist |-> Nothing]
    /\ closes = <<>>
    /\ answers = [s \in Watchlist |-> Nothing]
    /\ storing = [s \in Watchlist |-> NotStoring]
    /\ stage = "sleep" /\ asOf = 0 /\ todo = {}
    /\ claims = <<>>

-----------------------------------------------------------------------------
(* The feed *)

\* candles_at trusts what it fetched less than Ttl ago, whatever as_of says.
Trusted(s) == recent[s] # Nothing /\ tick - recent[s].at < Ttl

Cached(key) == {i \in DOMAIN closes : closes[i].key = key}

\* Mutant: "closed candles never change", so a known minute is left alone.
CloseKept(cache, key, close) ==
    IF \E i \in DOMAIN cache : cache[i].key = key THEN cache
    ELSE LET more == Append(cache, [key |-> key, close |-> close])
         IN  IF Len(more) > Retained THEN Tail(more) ELSE more

Without(cache, key) ==
    IF \E i \in DOMAIN cache : cache[i].key = key
    THEN RemoveAt(cache, CHOOSE i \in DOMAIN cache : cache[i].key = key)
    ELSE cache

\* _cache_minute_close: the key moves to the end, the oldest is evicted.
CloseStored(cache, key, close) ==
    LET more == Append(Without(cache, key), [key |-> key, close |-> close])
    IN  IF Len(more) > Retained THEN Tail(more) ELSE more

Covers(answer, m) == answer.last - Bars < m /\ m <= answer.last

\* The earliest minute of an answer.
FirstMinute(answer) == IF answer.last < Bars THEN 0 ELSE answer.last - Bars + 1

\* The workers of the warm-up go side by side, the scan symbol by symbol.
Turn(s) == stage = "scan" => \A q \in Watchlist \ {s} : answers[q] = Nothing

\* The exchange answers with the candles up to as_of, the open one included.
Answer(s) ==
    /\ stage \in {"warm", "scan"} /\ s \in todo /\ Turn(s)
    /\ ~Trusted(s) /\ answers[s] = Nothing
    /\ answers' = [answers EXCEPT ![s] = [read |-> tick, last |-> MinuteAt(asOf), at |-> -1]]
    /\ UNCHANGED <<tick, recent, closes, storing, stage, asOf, todo, claims>>

\* candles_at keeps the candles ...
Keep(s) ==
    /\ answers[s] # Nothing /\ storing[s] = NotStoring
    /\ recent' = [recent EXCEPT ![s] = [answers[s] EXCEPT !.at = tick]]
    /\ storing' = [storing EXCEPT ![s] = FirstMinute(answers[s])]
    /\ UNCHANGED <<tick, closes, answers, stage, asOf, todo, claims>>

StoresClose(s) ==
    /\ storing[s] # NotStoring
    /\ closes' = CloseStored(closes, <<s, storing[s]>>, CloseAt(storing[s], answers[s].read))

\* ... and then their closes, one insertion at a time ...
KeepClose(s) ==
    /\ StoresClose(s)
    /\ storing[s] < answers[s].last
    /\ storing' = [storing EXCEPT ![s] = @ + 1]
    /\ UNCHANGED <<tick, recent, answers, stage, asOf, todo, claims>>

Answered(s) == /\ answers' = [answers EXCEPT ![s] = Nothing]
               /\ storing' = [storing EXCEPT ![s] = NotStoring]

\* ... and returns after the last, or at once with candles it trusts.
Candles(s) ==
    \/ Trusted(s) /\ answers[s] = Nothing /\ UNCHANGED caches
    \/ StoresClose(s) /\ storing[s] = answers[s].last /\ Answered(s) /\ UNCHANGED recent

\* The request fails after its retries.
NoCandles(s) ==
    /\ ~Trusted(s) /\ answers[s] = Nothing
    /\ UNCHANGED caches

-----------------------------------------------------------------------------
(* The cycle *)

FeedTick == /\ tick < LastTick /\ tick' = tick + 1
            /\ UNCHANGED <<caches, stage, asOf, todo, claims>>

FeedCycle == /\ stage = "sleep"
             /\ stage' = "warm" /\ asOf' = tick /\ todo' = Watchlist
             /\ UNCHANGED <<tick, caches, claims>>

\* _warm_feed_parallel: the symbols finish in any order; failures are swallowed.
Warm(s) ==
    /\ stage = "warm" /\ s \in todo
    /\ Candles(s) \/ NoCandles(s)
    /\ todo' = todo \ {s}
    /\ UNCHANGED <<tick, stage, asOf, claims>>

Warmed == /\ stage = "warm" /\ todo = {}
          /\ stage' = "scan" /\ todo' = Watchlist
          /\ UNCHANGED <<tick, caches, asOf, claims>>

\* The staleness guard: the candle in hand opened too long ago.
Stale(s) == asOf - recent'[s].last * Minute > MaxAge

\* _observe_symbol has its candles: it skips the symbol or predicts.
Observe(s) ==
    /\ stage = "scan" /\ s \in todo /\ Turn(s)
    /\ Candles(s)
    /\ claims' = IF Stale(s) \/ Len(claims) = MaxClaims THEN claims
                 ELSE Append(claims, [symbol |-> s, born |-> asOf, exit |-> Unjudged])
    /\ todo' = todo \ {s}
    /\ UNCHANGED <<tick, stage, asOf>>

\* candles_at raises: the symbol gets an error row and nothing else.
Unobserved(s) ==
    /\ stage = "scan" /\ s \in todo /\ Turn(s)
    /\ NoCandles(s)
    /\ todo' = todo \ {s}
    /\ UNCHANGED <<tick, stage, asOf, claims>>

Scanned == /\ stage = "scan" /\ todo = {}
           /\ stage' = "score"
           /\ UNCHANGED <<tick, caches, asOf, todo, claims>>

Due(i) == /\ claims[i].exit = Unjudged
          /\ claims[i].born + Horizon * Minute <= asOf

\* The minute price_at is asked for: that of the horizon.
HorizonMinute(claim) == MinuteAt(claim.born + Horizon * Minute)

\* price_at knows the minute.
ScoreFromCache(i) ==
    LET key == <<claims[i].symbol, HorizonMinute(claims[i])>>
    IN  /\ stage = "score" /\ Due(i)
        /\ \E c \in Cached(key) :
              claims' = [claims EXCEPT ![i].exit = closes[c].close]
        /\ UNCHANGED <<tick, caches, stage, asOf, todo>>

\* price_at fetches the kline of the minute and keeps its close.
ScoreFetched(i) ==
    LET m == HorizonMinute(claims[i])
        key == <<claims[i].symbol, m>>
    IN  /\ stage = "score" /\ Due(i) /\ Cached(key) = {}
        /\ claims' = [claims EXCEPT ![i].exit = CloseAt(m, tick)]
        /\ closes' = CloseStored(closes, key, CloseAt(m, tick))
        /\ UNCHANGED <<tick, recent, answers, storing, stage, asOf, todo>>

\* The exchange has no kline, or does not answer: the prediction is given up.
ScoreFails(i) ==
    /\ stage = "score" /\ Due(i)
    /\ Cached(<<claims[i].symbol, HorizonMinute(claims[i])>>) = {}
    /\ claims' = [claims EXCEPT ![i].exit = NoKline]
    /\ UNCHANGED <<tick, caches, stage, asOf, todo>>

FeedSleep == /\ stage = "score" /\ \A i \in DOMAIN claims : ~Due(i)
             /\ stage' = "sleep"
             /\ UNCHANGED <<tick, caches, asOf, todo, claims>>

\* The process dies and is started again, with empty caches.
FeedRestart == /\ stage' = "sleep" /\ todo' = {}
               /\ recent' = [s \in Watchlist |-> Nothing]
               /\ closes' = <<>>
               /\ answers' = [s \in Watchlist |-> Nothing]
               /\ storing' = [s \in Watchlist |-> NotStoring]
               /\ UNCHANGED <<tick, asOf, claims>>

FeedNext ==
    \/ FeedTick \/ FeedCycle \/ Warmed \/ Scanned \/ FeedSleep \/ FeedRestart
    \/ \E s \in Watchlist : \/ Answer(s) \/ Keep(s) \/ KeepClose(s)
                           \/ Warm(s) \/ Observe(s) \/ Unobserved(s)
    \/ \E i \in DOMAIN claims : ScoreFromCache(i) \/ ScoreFetched(i) \/ ScoreFails(i)

FeedSpec == FeedInit /\ [][FeedNext]_feedOwn

-----------------------------------------------------------------------------
(* Properties *)

FeedTypeOK ==
    /\ tick \in 0..LastTick /\ asOf \in 0..tick
    /\ stage \in {"sleep", "warm", "scan", "score"} /\ todo \subseteq Watchlist
    /\ LET Answers == [read : -1..tick, last : -1..MinuteAt(tick), at : -1..tick]
       IN  recent \in [Watchlist -> Answers] /\ answers \in [Watchlist -> Answers]
    /\ storing \in [Watchlist -> -1..MinuteAt(tick)]
    /\ closes \in Seq([key : Watchlist \X Nat, close : 0..tick]) /\ Len(closes) <= Retained
    /\ \A i, j \in DOMAIN closes : closes[i].key = closes[j].key => i = j
    /\ claims \in Seq([symbol : Watchlist, born : 0..tick, exit : NoKline..tick])
    /\ Len(claims) <= MaxClaims

\* The candles in hand include the minute and were answered after its last trade.
Refetched(claim) ==
    LET m == HorizonMinute(claim)
    IN  Covers(recent[claim.symbol], m) /\ recent[claim.symbol].read >= LastTrade(m)

\* price_at: "the real close price of the 1-minute candle".  The caches are
\* filled with the candle of the minute at work too, whose close still moves;
\* once a fetch has returned that minute complete, a prediction is judged by
\* its final close, whatever was cached before, evicted or in flight.
JudgedByFinalClose ==
    [][\A i \in DOMAIN claims :
          claims[i].exit = Unjudged /\ claims'[i].exit >= 0 /\ Refetched(claims[i])
              => claims'[i].exit = LastTrade(HorizonMinute(claims[i]))]_feedOwn
=============================================================================
