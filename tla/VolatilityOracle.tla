---------------------------- MODULE VolatilityOracle ----------------------------
(***************************************************************************)
(* The volatility of packages/oracle: the price snapshots that samplers    *)
(* and the backfill store (database.ts, price-sampler.ts), the estimate    *)
(* from them (volatility-tracker.ts), its combination with the market's    *)
(* (hybrid-volatility.ts) and the buffer of the premium                    *)
(* (pricing-oracle.ts). Prices stand for their logarithms, so that returns *)
(* are differences; 0 is a price that is none. Scores are hundredths,      *)
(* weights thousandths, volatilities rounded down.                         *)
(***************************************************************************)
EXTENDS Clock, Integers, Sequences, SequencesExt, Null

CONSTANTS LogPrices,
          Confidences,             \* of a snapshot, in hundredths
          Lookback30,              \* lookbackDays
          DayLength,               \* 24 hours, over which recency is lost
          MinPoints, IdealPoints,  \* 30, 90
          BatchSize,               \* 100
          MaxRows, MaxDaily        \* bounds: snapshots stored, daily prices fetched

ASSUME OracleOK ==
    /\ LogPrices \subseteq Nat
    /\ Confidences \subseteq 0..100
    /\ DayLength \in Nat \ {0} /\ BatchSize \in Nat \ {0} /\ MaxDaily \in Nat
    /\ MinPoints \in Nat /\ IdealPoints \in Nat /\ IdealPoints > MinPoints

VARIABLES
    snapshots,   \* the table, in the order of its queries: by timestamp, ties as stored
    backfill,    \* the fetched prices a backfill has yet to store, or None
    estimate     \* a request to the pricing oracle between its awaits, or None

oracleVars == <<now, snapshots, backfill, estimate>>

OracleInit == snapshots = <<>> /\ backfill = None /\ estimate = None

Snapshot(price, at, confidence) == [price |-> price, at |-> at, confidence |-> confidence]

(* Rows of one timestamp come in any order the database likes.             *)
Placements(row) ==
    {i \in 1..(Len(snapshots) + 1) :
        /\ \A j \in 1..(i - 1) : snapshots[j].at <= row.at
        /\ \A j \in i..Len(snapshots) : snapshots[j].at >= row.at}

StorePriceSnapshot(row) ==
    /\ Len(snapshots) < MaxRows
    /\ \E i \in Placements(row) : snapshots' = InsertAt(snapshots, i, row)

Earlier(rows, at) == Cardinality({i \in DOMAIN rows : rows[i].at <= at})

Lesser(a, b) == IF a < b THEN a ELSE b

(* A sampler's price, which may be an old one of a closed market.          *)
Sample(price, at, confidence) ==
    /\ at <= now
    /\ StorePriceSnapshot(Snapshot(price, at, confidence))
    /\ UNCHANGED <<now, backfill, estimate>>

Stored(rows, batch) ==
    LET table[i \in 0..Len(batch)] ==
            IF i = 0 THEN rows
            ELSE InsertAt(table[i - 1], Earlier(table[i - 1], batch[i].at) + 1, batch[i])
    IN  table[Len(batch)]

(* backfillHistoricalPrices: one price a day, stored in batches; a batch   *)
(* that fails ends it, and the ones before it stay.                        *)
BackfillFetches(prices) ==
    /\ backfill = None
    /\ backfill' = [i \in DOMAIN prices |-> Snapshot(prices[i], i - 1, 100)]
    /\ Len(prices) <= now + 1
    /\ UNCHANGED <<now, snapshots, estimate>>

BackfillStores ==
    /\ backfill # None
    /\ LET end == Lesser(BatchSize, Len(backfill))
           table == Stored(snapshots, SubSeq(backfill, 1, end))
           left == SubSeq(backfill, end + 1, Len(backfill))
       IN  /\ Len(table) <= MaxRows
           /\ snapshots' = table
           /\ backfill' = IF left = <<>> THEN None ELSE left
    /\ UNCHANGED <<now, estimate>>

BackfillFails == backfill # None /\ backfill' = None /\ UNCHANGED <<now, snapshots, estimate>>

-----------------------------------------------------------------------------
(* Statistics of a sequence of returns. NaN is what 0/0 gives.             *)
NaN == -1
Greater(a, b) == IF a > b THEN a ELSE b
Total(s) == LET sum[i \in 0..Len(s)] == IF i = 0 THEN 0 ELSE sum[i - 1] + s[i] IN sum[Len(s)]
Sqrt(x) == CHOOSE r \in 0..x : r * r <= x /\ (r + 1) * (r + 1) > x

(* Deviations from the mean, times the number of returns.                 *)
Deviations(returns) ==
    LET total == Total(returns) IN [i \in DOMAIN returns |-> Len(returns) * returns[i] - total]
Squares(s) == [i \in DOMAIN s |-> s[i] * s[i]]

(* The standard deviation of a sample, whose variance is over n - 1, times *)
(* the square root of the periods of a year.                               *)
Volatility(returns, periods) ==
    LET n == Len(returns)
    IN  IF n = 1 THEN NaN ELSE Sqrt((periods * Total(Squares(Deviations(returns)))) \div (n * n * (n - 1)))

LogReturns(prices) == [i \in 1..(Len(prices) - 1) |-> prices[i + 1] - prices[i]]

(* Pairs with a price that is none are skipped.                            *)
CalculateLogReturns(rows) ==
    LET returns[i \in 0..(Len(rows) - 1)] ==
            IF i = 0 THEN <<>>
            ELSE IF rows[i].price > 0 /\ rows[i + 1].price > 0
            THEN Append(returns[i - 1], rows[i + 1].price - rows[i].price) ELSE returns[i - 1]
    IN  returns[Len(rows) - 1]

(* A confidence of 0 is taken for none, which counts as full.              *)
SourceConfidence(row) == IF row.confidence = 0 THEN 100 ELSE row.confidence

Kurtosis(returns) ==
    LET n == Len(returns)
        squares == Squares(Deviations(returns))
        second == Total(squares)
    IN  IF n < 4 \/ second = 0 THEN 0
        ELSE (100 * n * Total(Squares(squares))) \div (second * second) - 300

ConsistencyScore(kurtosis) == Greater(0, 100 - Greater(kurtosis, -kurtosis) \div 10)

DataPointScore(n) == Lesser((100 * (n - MinPoints)) \div (IdealPoints - MinPoints), 100)

Confidence(rows, returns) ==
    LET age == now - rows[Len(rows)].at
        recency == Greater(0, 100 - (100 * age) \div DayLength)
        source == Total([i \in DOMAIN rows |-> SourceConfidence(rows[i])]) \div Len(rows)
    IN  (30 * DataPointScore(Len(rows)) + 30 * recency + 20 * source
         + 20 * ConsistencyScore(Kurtosis(returns))) \div 100

(* 365 days, and 7.5% on top: 365 * 1.075 * 1.075.                         *)
OnChainPeriods == 421

NoOnChain == [volatility |-> 0, confidence |-> 0, dataPoints |-> 0]

(* getVolatility, and what its callers make of an exception.               *)
OnChainVolatility(rows) ==
    LET returns == CalculateLogReturns(rows)
    IN  IF Len(rows) < 2 \/ returns = <<>> THEN NoOnChain
        ELSE [volatility |-> Volatility(returns, OnChainPeriods),
              confidence |-> Confidence(rows, returns), dataPoints |-> Len(rows)]

-----------------------------------------------------------------------------
(* A request reads the table and the market's prices at once, and goes on  *)
(* when it has both.                                                       *)
AskPricing ==
    /\ estimate = None
    /\ estimate' = [asked |-> now, onChain |-> None, tradFiVol |-> None]
    /\ UNCHANGED <<now, snapshots, backfill>>

GetPriceSnapshots(from, to) ==
    LET rows[i \in 0..Len(snapshots)] ==
            IF i = 0 THEN <<>>
            ELSE IF snapshots[i].at \in from..to THEN Append(rows[i - 1], snapshots[i])
            ELSE rows[i - 1]
    IN  rows[Len(snapshots)]

OnChainAnswers ==
    /\ estimate # None /\ estimate.onChain = None
    /\ LET rows == GetPriceSnapshots(estimate.asked - Lookback30, estimate.asked)
       IN  estimate' \in {[estimate EXCEPT !.onChain = v] : v \in {NoOnChain, OnChainVolatility(rows)}}
    /\ UNCHANGED <<now, snapshots, backfill>>

(* Without enough prices of the market the request fails.                  *)
TradFiAnswers(prices) ==
    /\ estimate # None /\ estimate.tradFiVol = None
    /\ estimate' = IF Len(prices) < 2 THEN None
                   ELSE [estimate EXCEPT !.tradFiVol = Volatility(LogReturns(prices), 252)]
    /\ UNCHANGED <<now, snapshots, backfill>>

Answered == estimate # None /\ estimate.onChain # None /\ estimate.tradFiVol # None

AnswerTaken == Answered /\ estimate' = None /\ UNCHANGED <<now, snapshots, backfill>>

WeightBelowZero(v) ==       \* mutant: too few points count against the weight
    Lesser(4 * v.confidence + 3 * DataPointScore(v.dataPoints), 700)

CalculateWeight(v) ==
    LET factor == Lesser(Greater(0, DataPointScore(v.dataPoints)), 100)
    IN  Lesser(4 * v.confidence + 3 * factor, 700)

(* In thousandths, so that nothing is rounded.                             *)
FinalVolatility ==
    LET v == estimate.onChain
        weight == CalculateWeight(v)
    IN  IF NaN \in {v.volatility, estimate.tradFiVol} THEN NaN
        ELSE v.volatility * weight + estimate.tradFiVol * (1000 - weight)

(* divergence is a quotient that 0 makes infinite or NaN: a warning.       *)
Recommendation ==
    LET onChain == estimate.onChain.volatility
        tradFi == estimate.tradFiVol
        difference == Greater(onChain - tradFi, tradFi - onChain)
    IN  IF NaN \in {onChain, tradFi} THEN "warning"
        ELSE IF 100 * difference < 10 * tradFi THEN "safe"
        ELSE IF 100 * difference < 25 * tradFi THEN "caution" ELSE "warning"

(* What is added to the fair premium, in hundredths.                       *)
RiskAdjustment == CASE Recommendation = "warning" -> 15
                    [] Recommendation = "caution" -> 8
                    [] OTHER -> 3

DailyPrices == UNION {[1..n -> LogPrices \ {0}] : n \in 0..MaxDaily}

OracleTick == Tick /\ UNCHANGED <<snapshots, backfill, estimate>>

OracleNext ==
    \/ \E price \in LogPrices, at \in 0..MaxTime, c \in Confidences : Sample(price, at, c)
    \/ \E prices \in DailyPrices \ {<<>>} : BackfillFetches(prices)
    \/ BackfillStores \/ BackfillFails
    \/ AskPricing \/ OnChainAnswers \/ AnswerTaken
    \/ \E prices \in DailyPrices : TradFiAnswers(prices)
    \/ OracleTick

-----------------------------------------------------------------------------
(* What too few points take from the weight through the confidence, which  *)
(* counts them below zero though the weight itself does not.               *)
Shortfall(v) == Greater(0, -4 * ((30 * DataPointScore(v.dataPoints)) \div 100))

(* Whatever is stored, late, twice, invalid or missing: when both          *)
(* estimates are numbers, the volatility lies between them, or leaves the  *)
(* market's by at most that part of the distance to the other, on either   *)
(* side of it; when the estimate from the snapshots fails, the market's    *)
(* alone is used, with the largest buffer.                                 *)
EstimateSound ==
    Answered /\ NaN \notin {estimate.onChain.volatility, estimate.tradFiVol} =>
        LET onChain == estimate.onChain.volatility
            tradFi == estimate.tradFiVol
            reach == Shortfall(estimate.onChain) * Greater(onChain - tradFi, tradFi - onChain)
        IN  /\ \/ /\ FinalVolatility >= 1000 * Lesser(onChain, tradFi)
                  /\ FinalVolatility <= 1000 * Greater(onChain, tradFi)
               \/ /\ FinalVolatility >= 1000 * tradFi - reach
                  /\ FinalVolatility <= 1000 * tradFi + reach
            /\ estimate.onChain = NoOnChain =>
                 FinalVolatility = 1000 * tradFi /\ RiskAdjustment = 15
=============================================================================
