-------------------------------- MODULE Candles --------------------------------
(***************************************************************************)
(* The candles of GET /api/price (app/app/api/price/route.ts): trades are  *)
(* put into buckets of CandleInterval, and a loop over the buckets of the  *)
(* range fills those without trades.                                       *)
(***************************************************************************)
EXTENDS Integers, Sequences, FiniteSets, FiniteSetsExt, Functions

CONSTANTS
    Prices,          \* prices, 0 being one that is not valid
    Amounts,         \* trades' amounts, 0 being a small or missing one
    Dollar,          \* the amounts' units in a dollar
    CandleInterval,
    Lookback,
    AskedAt,         \* the time the request began
    MaxTrades        \* bound: trades the data service answers with

ASSUME CandlesOK ==
    /\ Prices \subseteq Nat /\ Amounts \subseteq Nat /\ Dollar \in Nat \ {0}
    /\ CandleInterval \in Nat \ {0} /\ Lookback \in Nat /\ MaxTrades \in Nat
    /\ AskedAt \in Nat /\ Lookback <= AskedAt

VARIABLES
    trades,          \* the answer, newest first: [price, amount, timestamp]
    candleMap,       \* None before, then a candle for each bucket with trades
    t,               \* the loop's bucket
    lastClose,
    filledCandles

candleVars == <<trades, candleMap, t, lastClose, filledCandles>>

Bucket(time) == (time \div CandleInterval) * CandleInterval

StartTime == Bucket(AskedAt - Lookback)

EndTime == Bucket(AskedAt)

(* Trades since the range began; the service's clock may be ahead. *)
TradeTimes == (AskedAt - Lookback)..(AskedAt + CandleInterval)

CandlesInit ==
    /\ trades \in UNION {[1..n -> [price : Prices, amount : Amounts, timestamp : TradeTimes]] :
                         n \in 0..MaxTrades}
    /\ \A i \in 2..Len(trades) : trades[i].timestamp <= trades[i - 1].timestamp
    /\ candleMap = <<>> /\ t = StartTime /\ lastClose = 0 /\ filledCandles = <<>>

Valid == {i \in DOMAIN trades : trades[i].price > 0}

InBucket(b) == {i \in Valid : Bucket(trades[i].timestamp) = b}

Buckets == {Bucket(trades[i].timestamp) : i \in Valid}

(* The sum of the trades' amounts in dollars, as Math.round rounds it. *)
Volume(b) ==
    LET sum == SumFunctionOnSet([i \in DOMAIN trades |-> trades[i].amount], InBucket(b))
    IN  (2 * sum + Dollar) \div (2 * Dollar)

Candle(b) ==
    LET prices == {trades[i].price : i \in InBucket(b)}
    IN  [timestamp |-> b, open |-> trades[Max(InBucket(b))].price, high |-> Max(prices),
         low |-> Min(prices), close |-> trades[Min(InBucket(b))].price,
         volume |-> Volume(b)]

Flat(b, price) ==
    [timestamp |-> b, open |-> price, high |-> price, low |-> price, close |-> price, volume |-> 0]

(* Without a valid trade the answer is an error. *)
MakeBuckets ==
    /\ candleMap = <<>> /\ Valid # {}
    /\ candleMap' = [b \in Buckets |-> Candle(b)]
    /\ lastClose' = candleMap'[Min(Buckets)].close
    /\ UNCHANGED <<trades, t, filledCandles>>

FillKeepsFirst ==               \* mutant: lastClose is not moved on
    /\ candleMap # <<>> /\ t <= EndTime
    /\ filledCandles' = Append(filledCandles,
           IF t \in DOMAIN candleMap THEN candleMap[t] ELSE Flat(t, lastClose))
    /\ t' = t + CandleInterval
    /\ UNCHANGED <<trades, candleMap, lastClose>>

(* One turn of the loop. *)
Fill ==
    /\ candleMap # <<>> /\ t <= EndTime
    /\ LET candle == IF t \in DOMAIN candleMap THEN candleMap[t] ELSE Flat(t, lastClose)
       IN  filledCandles' = Append(filledCandles, candle) /\ lastClose' = candle.close
    /\ t' = t + CandleInterval
    /\ UNCHANGED <<trades, candleMap>>

CandlesNext == MakeBuckets \/ Fill

-----------------------------------------------------------------------------
(* The valid trades until a bucket's end. *)
TradedBy(b) == {i \in Valid : Bucket(trades[i].timestamp) <= b}

(* What a chart expects: the candles go without a gap from the range's     *)
(* start to the loop's bucket; each closes at the price of the newest      *)
(* trade by its end, if there is one, spans the prices of its own trades,  *)
(* and is flat and without volume where there are none: whatever order     *)
(* equal times, invalid prices and trades from ahead of the clock come in. *)
(* A candle from before the first trade is flat at a price from after it.  *)
CandlesFaithful ==
    \A i \in DOMAIN filledCandles :
        LET c == filledCandles[i]
        IN  /\ c.timestamp = StartTime + (i - 1) * CandleInterval
            /\ TradedBy(c.timestamp) # {} => c.close = trades[Min(TradedBy(c.timestamp))].price
            /\ \A j \in InBucket(c.timestamp) :
                   c.low <= trades[j].price /\ trades[j].price <= c.high
            /\ InBucket(c.timestamp) = {} => c = Flat(c.timestamp, c.close)
            /\ i = Len(filledCandles) => t = c.timestamp + CandleInterval
=============================================================================
