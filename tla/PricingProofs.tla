----------------------------- MODULE PricingProofs -----------------------------
(***************************************************************************)
(* Theorems about what fetches, shows or computes a price: the price       *)
(* route, the candles, the search for an implied volatility and the        *)
(* oracle's volatility, each for any prices and any parameters.            *)
(***************************************************************************)
EXTENDS PriceRoute, Candles, OptionsMath, VolatilityOracle, Numbers,
        SequenceTheorems, FiniteSetTheorems

(* The price route and the volatility's, alone and from time 0.            *)
PriceSpec == PriceInit /\ now = 0 /\ [][PriceNext]_priceVars

CacheEntry == [timestamp : Nat, price : Nat]
CallRecord == [key : CacheKeys \cup {None}, began : Nat, cached : CacheEntry \cup {None},
               step : Queries \cup {"nvda"}, awaits : {None, "token", "answer", "fetch"},
               price : Nat \cup {None}]
AnswerRecord == [key : CacheKeys, began : Nat, price : Nat, stale : BOOLEAN]

(* What a request under way knows at a time: it has a key until the        *)
(* volatility, and once past the trades a price read since it began.       *)
CallOK(r, time) ==
    /\ r \in CallRecord
    /\ r.began <= time
    /\ r.step # "nvda" => r.key # None
    /\ r.step # "trades" /\ r.key # None => r.price \in Nat /\ r.price >= r.began

(* A price is not older than the time it is cached under.                  *)
EntryOK(e) == e = None \/ (e \in CacheEntry /\ e.timestamp <= e.price)

CallsOK ==
    /\ DOMAIN call = Calls /\ call = [c \in Calls |-> call[c]]
    /\ \A c \in Calls : call[c] # None => CallOK(call[c], now)

CacheOK ==
    /\ DOMAIN priceCache = CacheKeys /\ priceCache = [k \in CacheKeys |-> priceCache[k]]
    /\ \A k \in CacheKeys : EntryOK(priceCache[k])

AnswerOK == answered = None \/ answered \in AnswerRecord

PriceInv == now \in Nat /\ CallsOK /\ CacheOK /\ AnswerOK /\ OnlyMarkedStale

LEMMA PriceInitInv == PriceInit /\ now = 0 => PriceInv
  BY DEF PriceInit, PriceInv, CallsOK, CacheOK, EntryOK, AnswerOK, OnlyMarkedStale

(* A step of one request, which ends or goes on, at a time that stays.     *)
LEMMA CallStep ==
  ASSUME PriceInv, NEW c \in Calls, NEW r, call' = [call EXCEPT ![c] = r],
         r # None => CallOK(r, now), now' = now
  PROVE  CallsOK' /\ now' \in Nat
  BY DEF PriceInv, CallsOK

LEMMA CacheKept == PriceInv /\ UNCHANGED priceCache => CacheOK'
  BY DEF PriceInv, CacheOK

LEMMA AnswerKept == PriceInv /\ UNCHANGED answered => AnswerOK' /\ OnlyMarkedStale'
  BY DEF PriceInv, AnswerOK, OnlyMarkedStale

(* An answer that is marked, or whose price is fresh.                      *)
LEMMA AnswerGiven ==
  ASSUME NEW k \in CacheKeys, NEW began \in Nat, NEW price \in Nat, NEW stale \in BOOLEAN,
         Answer(k, began, price, stale),
         stale \/ price >= began \/ began - price < CacheTtl[k]
  PROVE  AnswerOK' /\ OnlyMarkedStale'
  BY DEF Answer, AnswerOK, OnlyMarkedStale, AnswerRecord

LEMMA CallIs ==
  ASSUME PriceInv, NEW c \in Calls, call[c] # None
  PROVE  CallOK(call[c], now) /\ call[c] \in CallRecord /\ now \in Nat
  BY DEF PriceInv, CallsOK, CallOK

LEMMA EntryIs ==
  ASSUME PriceInv, NEW k \in CacheKeys, priceCache[k] # None
  PROVE  /\ priceCache[k] \in CacheEntry
         /\ priceCache[k].timestamp \in Nat /\ priceCache[k].price \in Nat
         /\ priceCache[k].timestamp <= priceCache[k].price
  BY DEF PriceInv, CacheOK, EntryOK, CacheEntry

(* What is answered from the cache was read after the time of its entry.   *)
LEMMA GetCachedInv == ASSUME PriceInv, NEW k \in CacheKeys, GetCached(k) PROVE PriceInv'
<1>1. priceCache[k] # None /\ now - priceCache[k].timestamp < CacheTtl[k]
  BY DEF GetCached, Fresh
<1>2. /\ priceCache[k].timestamp \in Nat /\ priceCache[k].price \in Nat
      /\ priceCache[k].timestamp <= priceCache[k].price
  BY <1>1, EntryIs
<1>3. CacheTtl[k] \in Nat /\ now \in Nat
  BY PriceOK DEF PriceInv
<1>4. now - priceCache[k].price < CacheTtl[k]
  BY <1>1, <1>2, <1>3
<1>5. AnswerOK' /\ OnlyMarkedStale'
  BY <1>2, <1>3, <1>4, AnswerGiven DEF GetCached
<1> QED
  BY <1>5, CacheKept DEF GetCached, PriceInv, CallsOK

LEMMA GetInv ==
  ASSUME PriceInv, NEW c \in Calls
  PROVE  /\ \A k \in CacheKeys : Get(c, k) => PriceInv'
         /\ \A b \in BOOLEAN : GetVolatility(c, b) => PriceInv'
<1>1. ASSUME NEW k \in CacheKeys, Get(c, k) PROVE PriceInv'
  <2>1. priceCache[k] \in CacheEntry \cup {None} /\ now \in Nat
    BY EntryIs DEF PriceInv
  <2>2. CallOK(NewCall(k, priceCache[k], "trades"), now)
    BY <2>1, PriceOK DEF CallOK, CallRecord, NewCall, Queries
  <2> QED
    BY <1>1, <2>2, CallStep, CacheKept, AnswerKept DEF Get, PriceInv
<1>2. ASSUME NEW b \in BOOLEAN, GetVolatility(c, b) PROVE PriceInv'
  <2> DEFINE w == IF b THEN "fetch" ELSE None
             r == [NewCall(None, None, "nvda") EXCEPT !.awaits = w]
  <2>1. w \in {None, "fetch"}
    OBVIOUS
  <2>2. call' = [call EXCEPT ![c] = r]
    BY <1>2 DEF GetVolatility
  <2> HIDE DEF w
  <2>3. r = [key |-> None, began |-> now, cached |-> None, step |-> "nvda", awaits |-> w,
             price |-> None]
    BY DEF NewCall
  <2>4. CallOK(r, now)
    BY <2>1, <2>3 DEF CallOK, CallRecord, PriceInv
  <2> QED
    BY <1>2, <2>2, <2>4, CallStep, CacheKept, AnswerKept DEF GetVolatility, PriceInv
<1> QED
  BY <1>1, <1>2

(* What a request awaits changes, and nothing else.                        *)
LEMMA AwaitsInv ==
  ASSUME PriceInv, NEW c \in Calls, call[c] # None, NEW w \in {None, "token", "answer", "fetch"},
         call' = [call EXCEPT ![c].awaits = w], UNCHANGED <<now, priceCache, answered>>
  PROVE  PriceInv'
<1> DEFINE r == [call[c] EXCEPT !.awaits = w]
<1>1. call' = [call EXCEPT ![c] = r]
  BY DEF PriceInv, CallsOK
<1>2. CallOK(call[c], now) /\ call[c] \in CallRecord
  BY CallIs
<1>3. /\ r \in CallRecord /\ r.began = call[c].began
      /\ r.step = call[c].step /\ r.key = call[c].key /\ r.price = call[c].price
  BY <1>2 DEF CallRecord
<1>4. CallOK(r, now)
  BY <1>2, <1>3 DEF CallOK
<1> QED
  BY <1>1, <1>4, CallStep, CacheKept, AnswerKept DEF PriceInv

(* The trades give the price, read now; the other queries keep it.         *)
LEMMA AnsweredInv == ASSUME PriceInv, NEW c \in Calls, QueryAnswered(c) PROVE PriceInv'
<1> DEFINE step == AfterQuery(call[c].step)
           price == IF call[c].step = "trades" THEN now ELSE call[c].price
           r == [call[c] EXCEPT !.awaits = None, !.step = step, !.price = price]
<1>1. CallOK(call[c], now) /\ call[c] \in CallRecord /\ now \in Nat
  BY CallIs DEF QueryAnswered
<1>2. call[c].step \in Queries
  BY DEF QueryAnswered
<1>3. call' = [call EXCEPT ![c] = r] /\ now' = now
  BY DEF QueryAnswered, PriceInv, CallsOK
<1>4. step \in {"volume", "supply", "nvda"}
  BY <1>2 DEF AfterQuery, Queries
<1>5. price \in Nat \cup {None}
  BY <1>1 DEF CallRecord
<1>6. call[c].key # None => price \in Nat /\ price >= call[c].began
  BY <1>1 DEF CallOK, CallRecord
<1>7. call[c].key # None
  BY <1>1, <1>2 DEF CallOK, Queries
<1> HIDE DEF step, price
<1>8. /\ r \in CallRecord /\ r.began = call[c].began
      /\ r.step = step /\ r.key = call[c].key /\ r.price = price
  BY <1>1, <1>4, <1>5 DEF CallRecord, Queries
<1>9. CallOK(r, now)
  BY <1>1, <1>6, <1>7, <1>8 DEF CallOK
<1> QED
  BY <1>3, <1>9, CallStep, CacheKept, AnswerKept DEF QueryAnswered, PriceInv

(* Without the trades the answer is marked; without another query the      *)
(* request goes on with its price.                                         *)
LEMMA FailsInv ==
  ASSUME PriceInv, NEW c \in Calls
  PROVE  /\ TradesFail(c) => PriceInv'
         /\ OtherQueryFails(c) => PriceInv'
         /\ NoTrades(c) => PriceInv'
<1>1. ASSUME TradesFail(c) PROVE PriceInv'
  <2>1. CallOK(call[c], now) /\ call[c] \in CallRecord /\ call[c].step = "trades"
    BY <1>1, CallIs DEF TradesFail
  <2>2. CASE call[c].cached = None
    BY <1>1, <2>2, CallStep, CacheKept, AnswerKept DEF TradesFail, Reply, PriceInv
  <2>3. CASE call[c].cached # None
    <3>1. /\ call[c].key \in CacheKeys /\ call[c].began \in Nat
          /\ call[c].cached.price \in Nat
      BY <2>1, <2>3 DEF CallOK, CallRecord, CacheEntry
    <3>2. AnswerOK' /\ OnlyMarkedStale'
      BY <1>1, <2>3, <3>1, AnswerGiven DEF TradesFail
    <3> QED
      BY <1>1, <3>2, CallStep, CacheKept DEF TradesFail, Reply, PriceInv
  <2> QED
    BY <2>2, <2>3
<1>2. ASSUME OtherQueryFails(c) PROVE PriceInv'
  <2> DEFINE step == AfterQuery(call[c].step)
             r == [call[c] EXCEPT !.awaits = None, !.step = step]
  <2>1. CallOK(call[c], now) /\ call[c] \in CallRecord /\ now \in Nat
    BY <1>2, CallIs DEF OtherQueryFails
  <2>2. call[c].step \in {"volume", "supply"}
    BY <1>2 DEF OtherQueryFails
  <2>3. call' = [call EXCEPT ![c] = r] /\ now' = now
    BY <1>2 DEF OtherQueryFails, PriceInv, CallsOK
  <2>4. step \in {"supply", "nvda"}
    BY <2>2 DEF AfterQuery
  <2> HIDE DEF step
  <2>5. /\ r \in CallRecord /\ r.began = call[c].began
        /\ r.step = step /\ r.key = call[c].key /\ r.price = call[c].price
    BY <2>1, <2>4 DEF CallRecord, Queries
  <2>6. CallOK(r, now)
    BY <2>1, <2>2, <2>5 DEF CallOK
  <2> QED
    BY <1>2, <2>3, <2>6, CallStep, CacheKept, AnswerKept DEF OtherQueryFails, PriceInv
<1>3. ASSUME NoTrades(c) PROVE PriceInv'
  BY <1>3, CallStep, CacheKept, AnswerKept DEF NoTrades, Reply, PriceInv
<1> QED
  BY <1>1, <1>2, <1>3

(* What is answered and cached was read since the request began, which is  *)
(* the time it is cached under.                                            *)
LEMMA FinishInv ==
  ASSUME PriceInv, NEW c \in Calls, call[c] # None, call[c].step = "nvda", Finish(c),
         now' = now
  PROVE  PriceInv'
<1>1. CallOK(call[c], now) /\ call[c] \in CallRecord
  BY CallIs
<1>2. CASE call[c].key = None
  BY <1>2, CallStep, CacheKept, AnswerKept DEF Finish, Reply, PriceInv
<1>3. CASE call[c].key # None
  <2> DEFINE e == [timestamp |-> call[c].began, price |-> call[c].price]
  <2>1. /\ call[c].key \in CacheKeys /\ call[c].began \in Nat
        /\ call[c].price \in Nat /\ call[c].price >= call[c].began
    BY <1>1, <1>3 DEF CallOK, CallRecord
  <2>2. priceCache' = [priceCache EXCEPT ![call[c].key] = e]
    BY <1>3 DEF Finish, CachedUnder
  <2>3. EntryOK(e)
    BY <2>1 DEF EntryOK, CacheEntry
  <2> HIDE DEF e
  <2>4. CacheOK'
    BY <2>2, <2>3 DEF PriceInv, CacheOK
  <2>5. AnswerOK' /\ OnlyMarkedStale'
    BY <1>3, <2>1, AnswerGiven DEF Finish
  <2> QED
    BY <2>4, <2>5, CallStep DEF Finish, Reply, PriceInv
<1> QED
  BY <1>2, <1>3

LEMMA NvdaInv ==
  ASSUME PriceInv, NEW c \in Calls
  PROVE  /\ NvdaCached(c) => PriceInv'
         /\ \A b \in BOOLEAN : NvdaFetched(c, b) => PriceInv'
<1>1. ASSUME NvdaCached(c), ~NvdaFresh PROVE PriceInv'
  BY <1>1, AwaitsInv DEF NvdaCached, Awaiting
<1>2. ASSUME NvdaCached(c), NvdaFresh PROVE PriceInv'
  BY <1>2, FinishInv DEF NvdaCached, Awaiting
<1>3. ASSUME NEW b \in BOOLEAN, NvdaFetched(c, b) PROVE PriceInv'
  BY <1>3, FinishInv DEF NvdaFetched, Awaiting
<1> QED
  BY <1>1, <1>2, <1>3

LEMMA PriceOthersInv ==
  ASSUME PriceInv
  PROVE  /\ \A c \in Calls : Query(c) \/ TokenArrives(c) => PriceInv'
         /\ RouteRestart => PriceInv'
         /\ PriceTick => PriceInv'
<1>1. ASSUME NEW c \in Calls, Query(c) PROVE PriceInv'
  BY <1>1, AwaitsInv DEF Query
<1>2. ASSUME NEW c \in Calls, TokenArrives(c) PROVE PriceInv'
  BY <1>2, AwaitsInv DEF TokenArrives
<1>3. ASSUME RouteRestart PROVE PriceInv'
  BY <1>3, AnswerKept DEF RouteRestart, PriceInv, CallsOK, CacheOK, EntryOK
<1>4. ASSUME PriceTick PROVE PriceInv'
  <2>1. now \in Nat /\ now' = now + 1 /\ call' = call
    BY <1>4 DEF PriceTick, Tick, PriceInv
  <2>2. ASSUME NEW c \in Calls, call[c] # None PROVE CallOK(call[c], now')
    <3>1. CallOK(call[c], now) /\ call[c].began \in Nat
      BY <2>2, CallIs DEF CallRecord
    <3> QED
      BY <2>1, <3>1 DEF CallOK
  <2>3. CallsOK'
    BY <2>1, <2>2 DEF PriceInv, CallsOK
  <2> QED
    BY <1>4, <2>1, <2>3, CacheKept, AnswerKept DEF PriceTick, PriceInv
<1> QED
  BY <1>1, <1>2, <1>3, <1>4

LEMMA PriceNextInv == PriceInv /\ [PriceNext]_priceVars => PriceInv'
<1> SUFFICES ASSUME PriceInv, [PriceNext]_priceVars PROVE PriceInv'
  OBVIOUS
<1>1. CASE PriceNext
  BY <1>1, GetCachedInv, GetInv, AnsweredInv, FailsInv, NvdaInv, PriceOthersInv DEF PriceNext
<1>2. CASE UNCHANGED priceVars
  BY <1>2, CacheKept, AnswerKept DEF priceVars, PriceInv, CallsOK
<1> QED
  BY <1>1, <1>2

(* The price route (price/route.ts): an answer that is not marked stale    *)
(* holds a price read since the request began or less than the entry's     *)
(* lifetime before, for any lifetimes, any number of requests under way,   *)
(* and however long each of the services takes or whether it answers.      *)
THEOREM OnlyMarkedStaleHolds == PriceSpec => []OnlyMarkedStale
<1>1. PriceInv => OnlyMarkedStale
  BY DEF PriceInv
<1> QED
  BY <1>1, PriceInitInv, PriceNextInv, PTL DEF PriceSpec

-----------------------------------------------------------------------------
(* The candles of one answer.                                              *)
CandlesSpec == CandlesInit /\ [][CandlesNext]_candleVars

TradeRecord == [price : Prices, amount : Amounts, timestamp : TradeTimes]

TradesOK ==
    /\ trades \in Seq(TradeRecord)
    /\ \A i \in 2..Len(trades) : trades[i].timestamp <= trades[i - 1].timestamp

(* The price at the end of a bucket as the loop has it: that of the newest *)
(* trade until then, or before there is one of the first bucket's newest.  *)
PriceBy(b) ==
    IF TradedBy(b) # {} THEN trades[Min(TradedBy(b))].price
    ELSE trades[Min(InBucket(Min(Buckets)))].price

(* Between its turns the loop knows the price at the end of the bucket     *)
(* before.                                                                 *)
CandlesInv ==
    /\ TradesOK
    /\ \E S : filledCandles \in Seq(S)
    /\ t = StartTime + Len(filledCandles) * CandleInterval
    /\ candleMap = <<>> => filledCandles = <<>>
    /\ candleMap # <<>> =>
         /\ Valid # {}
         /\ candleMap = [b \in Buckets |-> Candle(b)]
         /\ lastClose = PriceBy(t - CandleInterval)
    /\ CandlesFaithful

LEMMA MinOf ==
  ASSUME NEW S \in SUBSET Nat, S # {}
  PROVE  Min(S) \in S /\ \A y \in S : Min(S) <= y
BY SomeSmallest DEF Min

LEMMA MaxOf ==
  ASSUME NEW n \in Nat, NEW S \in SUBSET (0..n), S # {}
  PROVE  Max(S) \in S /\ \A y \in S : Max(S) >= y
<1>1. PICK x \in S : \A y \in S : y <= x
  BY SomeGreatest
<1>2. \A y \in S : x >= y
  BY <1>1
<1> QED
  BY <1>2 DEF Max

(* A bucket is the multiple of the interval at or before a time.           *)
LEMMA BucketIs ==
  ASSUME NEW time \in Nat
  PROVE  \E q \in Nat : /\ Bucket(time) = q * CandleInterval /\ Bucket(time) \in Nat
                        /\ Bucket(time) <= time /\ time < (q + 1) * CandleInterval
<1>1. CandleInterval \in Nat /\ CandleInterval > 0
  BY CandlesOK
<1> HIDE DEF Bucket
<1>2. time \div CandleInterval \in Nat
  BY <1>1, DivBounds
<1>3. (time \div CandleInterval) * CandleInterval \in Nat
  BY <1>1, <1>2
<1> QED
  BY <1>1, <1>2, <1>3, DivBounds DEF Bucket

LEMMA BucketMonotonic ==
  ASSUME NEW x \in Nat, NEW y \in Nat, x <= y
  PROVE  Bucket(x) <= Bucket(y)
<1>1. PICK q \in Nat : /\ Bucket(x) = q * CandleInterval /\ Bucket(x) \in Nat
                       /\ Bucket(x) <= x /\ x < (q + 1) * CandleInterval
  BY BucketIs
<1>2. PICK p \in Nat : /\ Bucket(y) = p * CandleInterval /\ Bucket(y) \in Nat
                       /\ Bucket(y) <= y /\ y < (p + 1) * CandleInterval
  BY BucketIs
<1>3. CandleInterval \in Nat
  BY CandlesOK
<1>4. CASE q <= p
  BY <1>1, <1>2, <1>3, <1>4, TimesMonotonic
<1>5. CASE p + 1 <= q
  <2>1. (p + 1) * CandleInterval <= q * CandleInterval
    BY <1>3, <1>5, TimesMonotonic
  <2>2. (p + 1) * CandleInterval \in Int
    BY <1>3
  <2> HIDE DEF Bucket
  <2> QED
    BY <1>1, <1>2, <2>1, <2>2
<1> QED
  BY <1>4, <1>5

(* Of two multiples of the interval the smaller is an interval before.     *)
LEMMA Apart ==
  ASSUME NEW q \in Int, NEW p \in Int, q * CandleInterval < p * CandleInterval
  PROVE  q * CandleInterval <= p * CandleInterval - CandleInterval
<1>1. CandleInterval \in Nat
  BY CandlesOK
<1>2. q * CandleInterval \in Int /\ p * CandleInterval \in Int
  BY <1>1
<1>3. ~(p <= q)
  BY <1>1, <1>2, TimesMonotonic
<1>4. q + 1 <= p
  BY <1>3
<1>5. (q + 1) * CandleInterval <= p * CandleInterval
  BY <1>1, <1>4, TimesMonotonic
<1>6. (q + 1) * CandleInterval = q * CandleInterval + CandleInterval
  BY <1>1, TimesMonotonic
<1> QED
  BY <1>1, <1>2, <1>5, <1>6

LEMMA TradeIs ==
  ASSUME TradesOK, NEW i \in DOMAIN trades
  PROVE  /\ i \in 1..Len(trades) /\ Len(trades) \in Nat
         /\ trades[i].price \in Nat /\ trades[i].timestamp \in Nat
         /\ AskedAt - Lookback <= trades[i].timestamp
<1>1. trades[i] \in TradeRecord /\ i \in 1..Len(trades) /\ Len(trades) \in Nat
  BY DEF TradesOK
<1>2. trades[i].price \in Prices /\ trades[i].timestamp \in TradeTimes
  BY <1>1 DEF TradeRecord
<1>3. AskedAt - Lookback \in Nat /\ AskedAt + CandleInterval \in Nat /\ Prices \in SUBSET Nat
  BY CandlesOK
<1>4. trades[i].timestamp \in (AskedAt - Lookback)..(AskedAt + CandleInterval)
  BY <1>2 DEF TradeTimes
<1>5. \A x \in (AskedAt - Lookback)..(AskedAt + CandleInterval) : x \in Nat /\ AskedAt - Lookback <= x
  BY <1>3
<1>6. trades[i].price \in Nat
  BY <1>2, <1>3
<1> QED
  BY <1>1, <1>4, <1>5, <1>6

(* The newest trade is first.                                              *)
LEMMA Sorted ==
  ASSUME TradesOK, NEW i \in DOMAIN trades, NEW j \in DOMAIN trades, i <= j
  PROVE  trades[j].timestamp <= trades[i].timestamp
<1> DEFINE time(k) == trades[k].timestamp
           S == {k \in i..Len(trades) : ~(time(k) <= time(i))}
<1>1. DOMAIN trades = 1..Len(trades) /\ Len(trades) \in Nat
  BY DEF TradesOK
<1>2. \A k \in 1..Len(trades) : time(k) \in Nat
  BY <1>1, TradeIs
<1> SUFFICES ASSUME j \in S PROVE FALSE
  BY <1>1
<1>3. S \in SUBSET Nat /\ S # {}
  BY <1>1
<1>4. PICK k \in S : \A l \in S : k <= l
  <2> HIDE DEF S
  <2> QED BY <1>3, SomeSmallest
<1>5. k # i /\ k - 1 \in i..Len(trades) /\ k \in 2..Len(trades)
  BY <1>1, <1>2, <1>4
<1>6. k - 1 \notin S
  <2> HIDE DEF S
  <2> QED BY <1>3, <1>4
<1>7. time(k - 1) <= time(i)
  BY <1>5, <1>6
<1>8. time(k) <= time(k - 1)
  BY <1>5 DEF TradesOK
<1>9. k \in 1..Len(trades) /\ k - 1 \in 1..Len(trades)
  BY <1>1, <1>5
<1> QED
  BY <1>1, <1>2, <1>4, <1>7, <1>8, <1>9

LEMMA InBucketIs ==
  ASSUME TradesOK, NEW b
  PROVE  /\ InBucket(b) \in SUBSET Valid /\ Valid \in SUBSET Nat /\ Valid \in SUBSET (DOMAIN trades)
         /\ Valid \in SUBSET (0..Len(trades)) /\ Len(trades) \in Nat /\ Buckets \in SUBSET Nat
         /\ InBucket(b) # {} <=> b \in Buckets
<1>1. \A i \in Valid : i \in DOMAIN trades
  BY DEF Valid
<1>2. DOMAIN trades = 1..Len(trades) /\ Len(trades) \in Nat
  BY DEF TradesOK
<1>3. \A i \in Valid : Bucket(trades[i].timestamp) \in Nat
  BY <1>1, TradeIs, BucketIs
<1> QED
  BY <1>1, <1>2, <1>3 DEF InBucket, Buckets

(* The candle of a bucket with trades.                                     *)
LEMMA CandleIs ==
  ASSUME TradesOK, NEW b \in Nat, InBucket(b) # {}
  PROVE  /\ Candle(b).timestamp = b
         /\ Candle(b).close = PriceBy(b)
         /\ \A j \in InBucket(b) :
                Candle(b).low <= trades[j].price /\ trades[j].price <= Candle(b).high
<1> DEFINE I == InBucket(b)
           prices == {trades[i].price : i \in I}
           before == TradedBy(b)
<1>1. I \in SUBSET (0..Len(trades)) /\ I \in SUBSET Nat /\ Len(trades) \in Nat /\ I # {}
  BY InBucketIs
<1>2. Min(I) \in I /\ (\A y \in I : Min(I) <= y) /\ Max(I) \in I
  <2> HIDE DEF I
  <2> QED BY <1>1, MinOf, MaxOf
<1>3. \A i \in DOMAIN trades : trades[i].price \in Nat /\ trades[i].timestamp \in Nat
  BY TradeIs
<1>4. \A i \in I : i \in DOMAIN trades /\ i \in Valid
  BY InBucketIs
<1>5. prices # {} /\ prices \in SUBSET Nat
  BY <1>1, <1>3, <1>4
<1>6. \E n \in Nat : prices \in SUBSET (0..n)
  <2> DEFINE f == [i \in 1..Len(trades) |-> trades[i].price]
  <2>1. DOMAIN trades = 1..Len(trades)
    BY DEF TradesOK
  <2>2. \A i \in 1..Len(trades) : f[i] \in Nat /\ f[i] = trades[i].price
    BY <1>3, <2>1
  <2> HIDE DEF f
  <2>3. PICK n \in Nat : \A i \in 1..Len(trades) : f[i] <= n
    BY <1>1, <2>2, SomeBound
  <2>4. \A i \in I : trades[i].price \in 0..n
    BY <1>4, <2>1, <2>2, <2>3
  <2> QED
    BY <2>4
<1>7. Max(prices) \in prices /\ Min(prices) \in prices
      /\ \A p \in prices : Min(prices) <= p /\ Max(prices) >= p
  <2> HIDE DEF prices
  <2> QED BY <1>5, <1>6, MinOf, MaxOf
<1>8. trades[Min(I)].price \in prices /\ trades[Max(I)].price \in prices
  BY <1>2
<1>10. Min(before) = Min(I)
  <2>1. before \in SUBSET Nat /\ before \in SUBSET (DOMAIN trades)
    BY InBucketIs DEF TradedBy
  <2>2. Min(I) \in before
    <3>1. trades[Min(I)].timestamp \in Nat /\ Bucket(trades[Min(I)].timestamp) = b
      BY <1>2, <1>3, <1>4 DEF InBucket
    <3>2. Min(I) \in Valid
      BY <1>2, <1>4
    <3> QED
      BY <3>1, <3>2 DEF TradedBy
  <2>3. \A j \in before : Min(I) <= j
    <3> SUFFICES ASSUME NEW j \in before, j < Min(I) PROVE FALSE
      <4>1. \A j \in before : j \in Nat /\ Min(I) \in Nat
        BY <1>1, <1>2, <2>1
      <4> QED BY <4>1
    <3>1. j \in Valid /\ j \in Nat /\ Min(I) \in Nat /\ j \in DOMAIN trades /\ Min(I) \in DOMAIN trades
      BY <1>1, <1>2, <1>4, <2>1 DEF TradedBy
    <3>2. trades[Min(I)].timestamp <= trades[j].timestamp
      BY <3>1, Sorted
    <3>3. Bucket(trades[Min(I)].timestamp) <= Bucket(trades[j].timestamp)
      BY <1>3, <3>1, <3>2, BucketMonotonic
    <3>4. Bucket(trades[Min(I)].timestamp) = b /\ Bucket(trades[j].timestamp) <= b
      BY <1>2 DEF InBucket, TradedBy
    <3>5. Bucket(trades[j].timestamp) \in Nat
      BY <1>3, <3>1, BucketIs
    <3>6. Bucket(trades[j].timestamp) = b
      BY <3>3, <3>4, <3>5
    <3>7. j \in I
      BY <3>1, <3>6 DEF InBucket
    <3> QED
      BY <1>2, <3>1, <3>7
  <2>4. Min(before) \in before /\ \A y \in before : Min(before) <= y
    <3> HIDE DEF before
    <3> QED BY <2>1, <2>2, MinOf
  <2>5. Min(before) <= Min(I) /\ Min(I) <= Min(before) /\ Min(before) \in Nat /\ Min(I) \in Nat
    BY <2>1, <2>2, <2>3, <2>4
  <2> HIDE DEF before, I
  <2> QED
    BY <2>5
<1>11. PriceBy(b) = trades[Min(I)].price
  <2>1. before # {}
    <3>1. Min(I) \in Valid /\ Bucket(trades[Min(I)].timestamp) = b /\ b <= b
      BY <1>2, <1>4 DEF InBucket
    <3> QED
      BY <3>1 DEF TradedBy
  <2> QED
    BY <1>10, <2>1 DEF PriceBy
<1>12. /\ Candle(b).timestamp = b /\ Candle(b).close = trades[Min(I)].price
       /\ Candle(b).low = Min(prices) /\ Candle(b).high = Max(prices)
  BY DEF Candle
<1>13. \A j \in I : Min(prices) <= trades[j].price /\ trades[j].price <= Max(prices)
  <2> SUFFICES ASSUME NEW j \in I
               PROVE  Min(prices) <= trades[j].price /\ trades[j].price <= Max(prices)
    OBVIOUS
  <2>1. trades[j].price \in prices
    OBVIOUS
  <2>2. Max(prices) \in Nat /\ trades[j].price \in Nat
    BY <1>5, <1>7, <2>1
  <2> HIDE DEF prices
  <2> QED
    BY <1>7, <2>1, <2>2
<1> HIDE DEF prices, before
<1> QED
  BY <1>11, <1>12, <1>13

(* Without a trade in a bucket the price is that of the one before.        *)
LEMMA PriceStays ==
  ASSUME TradesOK, NEW q \in Nat, InBucket(q * CandleInterval) = {}
  PROVE  PriceBy(q * CandleInterval) = PriceBy(q * CandleInterval - CandleInterval)
<1> DEFINE b == q * CandleInterval
<1>1. CandleInterval \in Nat /\ b \in Int
  BY CandlesOK
<1>2. ASSUME NEW i \in Valid
      PROVE  Bucket(trades[i].timestamp) <= b <=> Bucket(trades[i].timestamp) <= b - CandleInterval
  <2>1. trades[i].timestamp \in Nat
    BY InBucketIs, TradeIs
  <2>2. PICK p \in Nat : Bucket(trades[i].timestamp) = p * CandleInterval /\ Bucket(trades[i].timestamp) \in Nat
    BY <2>1, BucketIs
  <2>3. Bucket(trades[i].timestamp) # b
    BY DEF InBucket
  <2>4. p * CandleInterval < b => p * CandleInterval <= b - CandleInterval
    BY Apart
  <2> HIDE DEF b, Bucket
  <2> QED
    BY <1>1, <2>2, <2>3, <2>4
<1>3. TradedBy(b) = TradedBy(b - CandleInterval)
  BY <1>2 DEF TradedBy
<1> QED
  BY <1>3 DEF PriceBy

(* Before the range there is no trade.                                     *)
LEMMA PriceBefore ==
  ASSUME TradesOK
  PROVE  PriceBy(StartTime - CandleInterval) = trades[Min(InBucket(Min(Buckets)))].price
<1>1. ASSUME NEW i \in Valid PROVE ~(Bucket(trades[i].timestamp) <= StartTime - CandleInterval)
  <2>1. trades[i].timestamp \in Nat /\ AskedAt - Lookback <= trades[i].timestamp
    BY InBucketIs, TradeIs
  <2>2. AskedAt - Lookback \in Nat /\ CandleInterval \in Nat \ {0}
    BY CandlesOK
  <2>3. StartTime <= Bucket(trades[i].timestamp)
    BY <2>1, <2>2, BucketMonotonic DEF StartTime
  <2>4. StartTime \in Nat /\ Bucket(trades[i].timestamp) \in Nat
    BY <2>1, <2>2, BucketIs DEF StartTime
  <2> HIDE DEF Bucket, StartTime
  <2> QED
    BY <2>2, <2>3, <2>4
<1> QED
  BY <1>1 DEF PriceBy, TradedBy

LEMMA SameTrades ==
  ASSUME UNCHANGED trades
  PROVE  /\ TradesOK' <=> TradesOK
         /\ Valid' = Valid /\ Buckets' = Buckets
         /\ \A b : /\ InBucket(b)' = InBucket(b) /\ Candle(b)' = Candle(b)
                   /\ PriceBy(b)' = PriceBy(b) /\ TradedBy(b)' = TradedBy(b)
<1>1. Valid' = Valid
  BY DEF Valid
<1>2. Buckets' = Buckets
  BY <1>1 DEF Buckets, Bucket
<1>3. \A b : InBucket(b)' = InBucket(b)
  BY <1>1 DEF InBucket, Bucket
<1>4. \A b : Candle(b)' = Candle(b)
  BY <1>3 DEF Candle, Volume
<1>5. \A b : PriceBy(b)' = PriceBy(b) /\ TradedBy(b)' = TradedBy(b)
  BY <1>1, <1>2, <1>3 DEF PriceBy, TradedBy, Bucket
<1>6. TradesOK' <=> TradesOK
  BY DEF TradesOK, TradeTimes
<1> QED
  BY <1>1, <1>2, <1>3, <1>4, <1>5, <1>6

LEMMA CandlesInitInv == CandlesInit => CandlesInv
<1> SUFFICES ASSUME CandlesInit PROVE CandlesInv
  OBVIOUS
<1>1. TradesOK
  <2>1. PICK n \in 0..MaxTrades : trades \in [1..n -> TradeRecord]
    BY DEF CandlesInit, TradeRecord
  <2>2. n \in Nat
    BY CandlesOK
  <2>3. trades \in Seq(TradeRecord)
    BY <2>1, <2>2
  <2> QED
    BY <2>3 DEF CandlesInit, TradesOK
<1>2. StartTime \in Nat /\ CandleInterval \in Nat
  BY CandlesOK, BucketIs DEF StartTime
<1>3. filledCandles = <<>> /\ candleMap = <<>> /\ t = StartTime
  BY DEF CandlesInit
<1>4. t = StartTime + Len(filledCandles) * CandleInterval
  BY <1>2, <1>3
<1>5. CandlesFaithful
  BY <1>3 DEF CandlesFaithful
<1>6. filledCandles \in Seq({})
  BY <1>3
<1> QED
  BY <1>1, <1>3, <1>4, <1>5, <1>6 DEF CandlesInv

LEMMA MakeBucketsStep ==
  ASSUME CandlesInv, MakeBuckets
  PROVE  CandlesInv'
<1>1. UNCHANGED <<trades, t, filledCandles>> /\ candleMap = <<>> /\ Valid # {}
      /\ candleMap' = [b \in Buckets |-> Candle(b)]
      /\ lastClose' = candleMap'[Min(Buckets)].close
  BY DEF MakeBuckets
<1>2. TradesOK /\ filledCandles = <<>> /\ t = StartTime
  <2>1. TradesOK /\ filledCandles = <<>> /\ t = StartTime + Len(filledCandles) * CandleInterval
    BY <1>1 DEF CandlesInv
  <2>2. StartTime \in Nat /\ CandleInterval \in Nat
    BY CandlesOK, BucketIs DEF StartTime
  <2> QED
    BY <2>1, <2>2
<1>3. Min(Buckets) \in Buckets
  <2>1. Buckets # {} /\ Buckets \in SUBSET Nat
    BY <1>1, <1>2, InBucketIs DEF Buckets
  <2> QED
    BY <2>1, MinOf
<1>4. lastClose' = trades[Min(InBucket(Min(Buckets)))].price
  BY <1>1, <1>3 DEF Candle
<1>5. lastClose' = PriceBy(t - CandleInterval)
  BY <1>2, <1>4, PriceBefore
<1>6. CandlesFaithful'
  BY <1>1, <1>2 DEF CandlesFaithful
<1>7. /\ Valid' = Valid /\ TradesOK' /\ Buckets' = Buckets
      /\ \A b : Candle(b)' = Candle(b) /\ PriceBy(b)' = PriceBy(b)
  BY <1>1, <1>2, SameTrades
<1>8. candleMap' = [b \in Buckets' |-> Candle(b)']
  BY <1>1, <1>7
<1>9. lastClose' = PriceBy(t - CandleInterval)'
  BY <1>1, <1>5, <1>7
<1>10. /\ filledCandles' \in Seq({})
       /\ t' = StartTime + Len(filledCandles') * CandleInterval
       /\ candleMap' = <<>> => filledCandles' = <<>>
  BY <1>1, <1>2 DEF CandlesInv
<1> QED
  BY <1>1, <1>6, <1>7, <1>8, <1>9, <1>10 DEF CandlesInv

LEMMA FillStep ==
  ASSUME CandlesInv, Fill
  PROVE  CandlesInv'
<1> DEFINE candle == IF t \in DOMAIN candleMap THEN candleMap[t] ELSE Flat(t, lastClose)
           n == Len(filledCandles)
<1>1. /\ UNCHANGED <<trades, candleMap>> /\ candleMap # <<>>
      /\ filledCandles' = Append(filledCandles, candle) /\ lastClose' = candle.close
      /\ t' = t + CandleInterval
  BY DEF Fill
<1>2. /\ TradesOK /\ Valid # {} /\ candleMap = [b \in Buckets |-> Candle(b)]
      /\ lastClose = PriceBy(t - CandleInterval) /\ \E S : filledCandles \in Seq(S)
      /\ n \in Nat /\ CandleInterval \in Nat \ {0}
  BY <1>1, CandlesOK DEF CandlesInv
<1>3. PICK q \in Nat : StartTime = q * CandleInterval /\ StartTime \in Nat
  <2>1. AskedAt - Lookback \in Nat
    BY CandlesOK
  <2> QED
    BY <2>1, BucketIs DEF StartTime
<1>4. t = StartTime + n * CandleInterval /\ n * CandleInterval \in Nat
  BY <1>2 DEF CandlesInv
<1>5. t = (q + n) * CandleInterval /\ t \in Nat /\ q + n \in Nat
  BY <1>2, <1>3, <1>4
<1>6. /\ candle.timestamp = t /\ candle.close = PriceBy(t)
      /\ \A j \in InBucket(t) : candle.low <= trades[j].price /\ trades[j].price <= candle.high
      /\ InBucket(t) = {} => candle = Flat(t, candle.close)
  <2>1. CASE t \in Buckets
    <3>1. candle = Candle(t)
      BY <1>2, <2>1
    <3>2. InBucket(t) # {}
      BY <1>2, <2>1, InBucketIs
    <3> HIDE DEF candle
    <3> QED
      BY <1>2, <1>5, <3>1, <3>2, CandleIs
  <2>2. CASE t \notin Buckets
    <3>1. candle = Flat(t, lastClose)
      BY <1>2, <2>2
    <3>2. InBucket(t) = {}
      BY <1>2, <2>2, InBucketIs
    <3>3. PriceBy(t) = lastClose
      BY <1>2, <1>5, <3>2, PriceStays
    <3> HIDE DEF candle
    <3> QED
      BY <3>1, <3>2, <3>3 DEF Flat
  <2> QED
    BY <2>1, <2>2
<1> HIDE DEF candle
<1>7. /\ (\E S : filledCandles' \in Seq(S)) /\ Len(filledCandles') = n + 1
      /\ filledCandles'[n + 1] = candle
      /\ \A i \in 1..n : filledCandles'[i] = filledCandles[i]
      /\ DOMAIN filledCandles' = 1..(n + 1) /\ DOMAIN filledCandles = 1..n
  <2>1. PICK S : filledCandles \in Seq(S)
    BY <1>2
  <2>2. filledCandles \in Seq(S \cup {candle})
    BY <2>1
  <2> QED
    BY <1>1, <1>2, <2>2
<1>8. t' = StartTime + (n + 1) * CandleInterval
  BY <1>1, <1>2, <1>3, <1>4
<1>9. /\ TradesOK' /\ Valid' = Valid /\ Buckets' = Buckets
      /\ \A b : /\ InBucket(b)' = InBucket(b) /\ Candle(b)' = Candle(b)
                /\ PriceBy(b)' = PriceBy(b) /\ TradedBy(b)' = TradedBy(b)
  BY <1>1, <1>2, SameTrades
<1>10. lastClose' = PriceBy(t' - CandleInterval)
  <2>1. t' - CandleInterval = t
    BY <1>1, <1>2, <1>5
  <2> QED
    BY <1>1, <1>6, <2>1
<1>11. CandlesFaithful'
  <2> SUFFICES ASSUME NEW i \in DOMAIN filledCandles'
               PROVE  LET c == filledCandles'[i]
                      IN  /\ c.timestamp = StartTime + (i - 1) * CandleInterval
                          /\ TradedBy(c.timestamp) # {} =>
                               c.close = trades[Min(TradedBy(c.timestamp))].price
                          /\ \A j \in InBucket(c.timestamp) :
                               c.low <= trades[j].price /\ trades[j].price <= c.high
                          /\ InBucket(c.timestamp) = {} => c = Flat(c.timestamp, c.close)
                          /\ i = Len(filledCandles') => t' = c.timestamp + CandleInterval
    BY <1>1, <1>9 DEF CandlesFaithful, Flat
  <2>1. CASE i = n + 1
    <3>1. i - 1 = n
      BY <1>2, <2>1
    <3>2. TradedBy(t) # {} => candle.close = trades[Min(TradedBy(t))].price
      BY <1>6 DEF PriceBy
    <3> QED
      BY <1>1, <1>4, <1>6, <1>7, <2>1, <3>1, <3>2
  <2>2. CASE i \in 1..n
    <3>1. i # n + 1
      BY <1>2, <2>2
    <3>2. filledCandles'[i] = filledCandles[i] /\ i \in DOMAIN filledCandles
      BY <1>7, <2>2
    <3>3. i # Len(filledCandles')
      BY <1>7, <3>1
    <3> HIDE DEF n
    <3> QED
      BY <3>2, <3>3 DEF CandlesInv, CandlesFaithful
  <2> QED
    BY <1>2, <1>7, <2>1, <2>2
<1>12. candleMap' = [b \in Buckets' |-> Candle(b)']
  BY <1>1, <1>2, <1>9
<1> QED
  BY <1>1, <1>2, <1>7, <1>8, <1>9, <1>10, <1>11, <1>12 DEF CandlesInv

(* The price route's candles (price/route.ts): gapless, spanning their     *)
(* trades, closed at the newest price from the first trade on, and flat    *)
(* without volume where nothing was traded; for any trades and any range.  *)
THEOREM CandlesAlwaysFaithful == CandlesSpec => []CandlesFaithful
<1>1. CandlesInv /\ [CandlesNext]_candleVars => CandlesInv'
  <2> SUFFICES ASSUME CandlesInv, UNCHANGED candleVars PROVE CandlesInv'
    BY MakeBucketsStep, FillStep DEF CandlesNext
  <2>1. UNCHANGED <<trades, candleMap, t, lastClose, filledCandles>>
    BY DEF candleVars
  <2>2. CandlesFaithful'
    <3>1. \A b : InBucket(b)' = InBucket(b) /\ TradedBy(b)' = TradedBy(b)
      BY <2>1, SameTrades
    <3> SUFFICES ASSUME NEW i \in DOMAIN filledCandles
                 PROVE  LET c == filledCandles[i]
                        IN  /\ c.timestamp = StartTime + (i - 1) * CandleInterval
                            /\ TradedBy(c.timestamp) # {} =>
                                 c.close = trades[Min(TradedBy(c.timestamp))].price
                            /\ \A j \in InBucket(c.timestamp) :
                                 c.low <= trades[j].price /\ trades[j].price <= c.high
                            /\ InBucket(c.timestamp) = {} => c = Flat(c.timestamp, c.close)
                            /\ i = Len(filledCandles) => t = c.timestamp + CandleInterval
      BY <2>1, <3>1 DEF CandlesFaithful, Flat
    <3> QED
      BY DEF CandlesInv, CandlesFaithful
  <2>3. candleMap # <<>> => candleMap' = [b \in Buckets' |-> Candle(b)']
    BY <2>1, SameTrades DEF CandlesInv
  <2> QED
    BY <2>1, <2>2, <2>3, SameTrades DEF CandlesInv
<1>2. CandlesInv => CandlesFaithful
  BY DEF CandlesInv
<1> QED
  BY <1>1, <1>2, CandlesInitInv, PTL DEF CandlesSpec

-----------------------------------------------------------------------------
(* OptionsMath: the search for a volatility.                               *)

(* A function is how the width of the bracket goes on for n halvings.      *)
Narrows(f, n) ==
    f = [k \in 0..n |-> IF k = 0 THEN HighVol - LowVol ELSE f[k - 1] - (f[k - 1] \div 2)]

LEMMA NarrowsExists ==
  ASSUME NEW n \in Nat
  PROVE  \E f : Narrows(f, n)
<1> DEFINE Good(k) == \E f : Narrows(f, k)
           S == {k \in 0..n : ~Good(k)}
<1> SUFFICES ASSUME ~Good(n) PROVE FALSE
  OBVIOUS
<1>1. S \in SUBSET Nat /\ S # {}
  <2> HIDE DEF Good
  <2> QED OBVIOUS
<1>2. PICK k \in S : \A j \in S : k <= j
  <2> HIDE DEF S
  <2> QED BY <1>1, SomeSmallest
<1>3. Good(0)
  <2> DEFINE f == [i \in 0..0 |-> HighVol - LowVol]
  <2>1. f = [i \in 0..0 |->
            IF i = 0 THEN HighVol - LowVol ELSE f[i - 1] - (f[i - 1] \div 2)]
    OBVIOUS
  <2> QED
    BY <2>1 DEF Narrows
<1>4. k - 1 \in 0..n /\ k \in 1..n
  <2> HIDE DEF Good
  <2> QED BY <1>2, <1>3
<1>5. Good(k - 1)
  <2> HIDE DEF Good
  <2> QED BY <1>2, <1>4
<1>6. PICK g : Narrows(g, k - 1)
  BY <1>5
<1> DEFINE f == [i \in 0..k |->
                   IF i = 0 THEN HighVol - LowVol ELSE g[i - 1] - (g[i - 1] \div 2)]
<1>7. \A i \in 0..(k - 1) : f[i] = g[i]
  <2>1. \A i \in 0..(k - 1) :
           g[i] = IF i = 0 THEN HighVol - LowVol ELSE g[i - 1] - (g[i - 1] \div 2)
    BY <1>6, Zenon DEF Narrows
  <2>2. \A i \in 0..(k - 1) : i \in 0..k
    BY <1>4
  <2> QED
    BY <2>1, <2>2, Zenon
<1>8. \A i \in 0..k : i = 0 \/ i - 1 \in 0..(k - 1)
  BY <1>4
<1>9. \A i \in 0..k : f[i] = IF i = 0 THEN HighVol - LowVol ELSE f[i - 1] - (f[i - 1] \div 2)
  BY <1>7, <1>8
<1>10. f = [i \in 0..k |-> f[i]]
  OBVIOUS
<1> HIDE DEF f
<1>11. Narrows(f, k)
  BY <1>9, <1>10, Zenon DEF Narrows
<1> QED
  BY <1>2, <1>11

LEMMA WidthIs ==
  /\ Width[0] = HighVol - LowVol
  /\ \A k \in 0..(Iterations - 1) : Width[k + 1] = Width[k] - (Width[k] \div 2)
<1>1. Iterations \in Nat
  BY IterationsOK
<1>2. Width = CHOOSE f : Narrows(f, Iterations)
  BY DEF Width, Narrows
<1>3. Narrows(Width, Iterations)
  BY <1>1, <1>2, NarrowsExists
<1>4. \A k \in 0..Iterations :
         Width[k] = IF k = 0 THEN HighVol - LowVol ELSE Width[k - 1] - (Width[k - 1] \div 2)
  BY <1>3, Zenon DEF Narrows
<1>5. 0 \in 0..Iterations
      /\ \A k \in 0..(Iterations - 1) : k + 1 \in 0..Iterations /\ k + 1 # 0 /\ k + 1 - 1 = k
  BY <1>1
<1> QED
  BY <1>4, <1>5

LEMMA WidthsInt == \A k \in 0..Iterations : Width[k] \in Int
<1> DEFINE S == {k \in 0..Iterations : Width[k] \notin Int}
<1>1. Iterations \in Nat /\ HighVol - LowVol \in Int
  BY IterationsOK, OptionsOK
<1> SUFFICES ASSUME S # {} PROVE FALSE
  OBVIOUS
<1>2. S \in SUBSET Nat
  BY <1>1
<1>3. PICK k \in S : \A j \in S : k <= j
  <2> HIDE DEF S
  <2> QED BY <1>2, SomeSmallest
<1>4. k \in 0..Iterations /\ Width[k] \notin Int
  BY <1>3
<1>5. k # 0
  BY <1>1, <1>4, WidthIs
<1>6. k - 1 \in 0..Iterations /\ k - 1 \in 0..(Iterations - 1) /\ ~(k <= k - 1) /\ k - 1 + 1 = k
  BY <1>1, <1>4, <1>5
<1>7. Width[k - 1] \in Int
  BY <1>3, <1>6
<1>8. Width[k - 1 + 1] = Width[k - 1] - (Width[k - 1] \div 2)
  BY <1>6, WidthIs
<1>9. Width[k] \in Int
  BY <1>6, <1>7, <1>8
<1> QED
  BY <1>4, <1>9

OptionRecord == [of : Options, price : Int, pricedAt : (MinIV..MaxIV) \cup {None}]
SearchRecord == [method : {"bisection", "newton", "sdk"}, low : Vols, high : Vols,
                 sigma : Int, i : Nat, most : {FewIterations, Iterations}]

(* What bisection has passed over by now holds no volatility of that       *)
(* price, and the bracket is as narrow as its halvings make it.            *)
BisectionInv ==
    search # None /\ search.method = "bisection" =>
        /\ option.price > 0
        /\ search.i <= search.most
        /\ LowVol <= search.low /\ search.low <= search.high /\ search.high <= HighVol
        /\ \A v \in LowVol..(HighVol - 1) : Close(v) => v >= search.low /\ v < search.high
        /\ search.i < FewIterations => search.high - search.low <= Width[search.i]
        /\ search.i >= FewIterations => \A v \in LowVol..(HighVol - 1) : ~Close(v)

OptionsInv ==
    /\ option = None \/ option \in OptionRecord
    /\ search = None \/ search \in SearchRecord
    /\ search # None => option # None
    /\ search # None => search.sigma <= TopVol /\ (search.method = "newton" => search.sigma \in Vols)
    /\ implied # None => option # None
    /\ option # None /\ option.pricedAt # None => option.price = Value[option.of][option.pricedAt]
    /\ BisectionInv
    /\ ImpliedVolFound

LEMMA SearchMoves ==
  ASSUME NEW r \in SearchRecord, NEW sigma \in Int, NEW q, q = Tried(r, sigma)
  PROVE  /\ q \in SearchRecord /\ q.sigma = sigma /\ q.i = r.i + 1
         /\ q.method = r.method /\ q.low = r.low /\ q.high = r.high /\ q.most = r.most
<1>1. r = [method |-> r.method, low |-> r.low, high |-> r.high, sigma |-> r.sigma,
           i |-> r.i, most |-> r.most]
      /\ r.i + 1 \in Nat
  BY DEF SearchRecord
<1>2. q = [method |-> r.method, low |-> r.low, high |-> r.high, sigma |-> sigma,
           i |-> r.i + 1, most |-> r.most]
  BY <1>1, Zenon DEF Tried
<1> QED
  BY <1>1, <1>2 DEF SearchRecord

LEMMA PricesOrdered ==
  ASSUME option \in OptionRecord
  PROVE  /\ \A v \in Vols : PriceAt(v) = Value[option.of][v] /\ PriceAt(v) \in Nat /\ Error(v) \in Int
         /\ \A v, w \in Vols : v <= w => Error(v) <= Error(w)
         /\ option.price \in Int /\ Intrinsic \in Nat
<1>1. option.of \in Options /\ option.price \in Int
  BY DEF OptionRecord
<1>2. TopVol \in Nat /\ Value[option.of] \in [Vols -> Nat]
  BY <1>1, OptionsOK
<1>3. \A v \in Vols : AtMost(v, TopVol) = v
  BY <1>2 DEF AtMost, Vols
<1>4. \A v \in Vols : PriceAt(v) = Value[option.of][v] /\ PriceAt(v) \in Nat
  BY <1>2, <1>3 DEF PriceAt
<1>5. \A v, w \in Vols : v <= w => Value[option.of][v] <= Value[option.of][w]
  BY <1>1, OptionsOK
<1>6. 0 \in Vols
  BY <1>2 DEF Vols
<1> QED
  BY <1>1, <1>2, <1>4, <1>5, <1>6 DEF Error, Intrinsic

LEMMA BoundsAre ==
  /\ TopVol \in Nat /\ LowVol \in Nat /\ HighVol \in Nat /\ Tolerance \in Nat \ {0}
  /\ LowVol <= 20 /\ 300 < HighVol /\ HighVol <= TopVol
  /\ Iterations \in Nat /\ FewIterations \in Nat \ {0} /\ FewIterations <= Iterations
  /\ Width[FewIterations - 1] <= 1
  BY OptionsOK, IterationsOK DEF MinIV, MaxIV

(* Whatever the past, an option is priced within the bounds.               *)
LEMMA AdjustedIV ==
  ASSUME NEW b \in Int, NEW o \in Options
  PROVE  AdjustIVForSmile(b, Terms[o]) \in MinIV..MaxIV
<1>1. Terms[o].days \in Nat /\ Terms[o].distance \in Nat
  BY OptionsOK
<1> DEFINE floor == AtLeast(b, 30)
           term  == (floor * TermFactor(Terms[o].days)) \div 100
           skew  == (term * (10000 + Terms[o].distance * SkewSlope(Terms[o]))) \div 10000
<1>2. floor \in Int /\ TermFactor(Terms[o].days) \in Int /\ SkewSlope(Terms[o]) \in Int
  BY <1>1 DEF AtLeast, TermFactor, SkewSlope
<1>3. term \in Int
  BY <1>2
<1>4. Terms[o].distance * SkewSlope(Terms[o]) \in Int
  BY <1>1, <1>2
<1>5. term * (10000 + Terms[o].distance * SkewSlope(Terms[o])) \in Int
  BY <1>3, <1>4
<1>6. skew \in Int
  BY <1>5
<1>7. AdjustIVForSmile(b, Terms[o]) = Clamp(MinIV, MaxIV, skew)
  BY DEF AdjustIVForSmile
<1> HIDE DEF skew
<1> QED
  BY <1>6, <1>7 DEF MinIV, MaxIV, Clamp, AtLeast, AtMost

LEMMA WeightedIsInt ==
  ASSUME NEW size \in SampleSizes, NEW stdDev \in [Samples(size) -> StdDevs]
  PROVE  WeightedVolatility(size, stdDev) \in Int
<1> DEFINE HV(window) == HistoricalVolatility(SampleOf(window, size), stdDev[SampleOf(window, size)])
<1>1. size \in Nat /\ StdDevs \subseteq Nat
  BY OptionsOK
<1>2. \A w \in {10, 20, 60, size} : SampleOf(w, size) \in Samples(size)
  BY DEF Samples
<1>3. \A s \in Samples(size) : stdDev[s] \in Int
  <2>1. ASSUME NEW s \in Samples(size) PROVE stdDev[s] \in Int
    <3>1. stdDev[s] \in StdDevs
      OBVIOUS
    <3>2. stdDev[s] \in Nat
      BY <1>1, <3>1, Zenon
    <3> QED BY <3>2
  <2> QED BY <2>1
<1>4. \A w \in {10, 20, 60, size} : HV(w) \in Int
  <2>1. \A s \in Samples(size) : HistoricalVolatility(s, stdDev[s]) \in Int
    BY <1>3 DEF HistoricalVolatility, Clamp, AtLeast, AtMost
  <2> QED BY <1>2, <2>1
<1>5. WeightedVolatility(size, stdDev) = (4 * HV(10) + 3 * HV(20) + 2 * HV(60) + HV(size)) \div 10
  BY DEF WeightedVolatility
<1> HIDE DEF HV
<1>6. HV(10) \in Int /\ HV(20) \in Int /\ HV(60) \in Int /\ HV(size) \in Int
  BY <1>4
<1> QED
  BY <1>5, <1>6

LEMMA OptionAsked ==
  ASSUME OptionsInv
  PROVE  /\ \A o \in Options, size \in SampleSizes : \A stdDev \in [Samples(size) -> StdDevs] :
              PriceOption(o, size, stdDev) => OptionsInv'
         /\ \A o \in Options, price \in MarketPrices : SeePrice(o, price) => OptionsInv'
<1>1. ASSUME search' = None, implied' = None, option' \in OptionRecord,
             option'.pricedAt # None => option'.price = Value[option'.of][option'.pricedAt]
      PROVE  OptionsInv'
  BY <1>1 DEF OptionsInv, BisectionInv, ImpliedVolFound
<1>2. ASSUME NEW o \in Options, NEW size \in SampleSizes, NEW stdDev \in [Samples(size) -> StdDevs],
             PriceOption(o, size, stdDev)
      PROVE  OptionsInv'
  <2> DEFINE iv == AdjustIVForSmile(WeightedVolatility(size, stdDev), Terms[o])
  <2>1. iv \in MinIV..MaxIV
    BY AdjustedIV, WeightedIsInt
  <2>2. option' = [of |-> o, price |-> Value[o][iv], pricedAt |-> iv]
        /\ search' = None /\ implied' = None
    BY <1>2 DEF PriceOption
  <2> HIDE DEF iv
  <2>3. Value[o] \in [Vols -> Nat] /\ iv \in Vols
    BY <2>1, OptionsOK, BoundsAre DEF Vols, MinIV, MaxIV
  <2>4. option' \in OptionRecord
    BY <2>1, <2>2, <2>3 DEF OptionRecord
  <2> QED
    BY <1>1, <2>2, <2>4
<1>3. ASSUME NEW o \in Options, NEW price \in MarketPrices, SeePrice(o, price)
      PROVE  OptionsInv'
  <2>1. option' = [of |-> o, price |-> price, pricedAt |-> None]
        /\ search' = None /\ implied' = None
    BY <1>3 DEF SeePrice
  <2>2. price \in Int
    BY OptionsOK
  <2> QED
    BY <1>1, <2>1, <2>2 DEF OptionRecord
<1> QED
  BY <1>2, <1>3

(* What is priced by the library and has a price is in the bracket.        *)
LEMMA PricedIsClose ==
  ASSUME OptionsInv, option # None, option.pricedAt # None
  PROVE  \E v \in LowVol..(HighVol - 1) : Close(v)
<1> DEFINE v == option.pricedAt
<1>1. option \in OptionRecord /\ option.price = Value[option.of][v]
  BY DEF OptionsInv
<1>2. v \in MinIV..MaxIV
  BY <1>1 DEF OptionRecord
<1>3. v \in Vols /\ v \in LowVol..(HighVol - 1)
  BY <1>2, BoundsAre DEF Vols, MinIV, MaxIV
<1>4. Error(v) = 0
  BY <1>1, <1>3, PricesOrdered DEF Error
<1> QED
  BY <1>3, <1>4, BoundsAre DEF Close

(* A search ends, or begins.                                               *)
LEMMA SearchEnds ==
  ASSUME OptionsInv, option # None, UNCHANGED option,
         NEW method, NEW iv, NEW converged \in BOOLEAN, Ends(method, iv, converged),
         converged => iv \in Vols /\ Close(iv),
         method = "bisection" /\ ~converged /\ option.price > 0 =>
             \A v \in LowVol..(HighVol - 1) : ~Close(v)
  PROVE  OptionsInv'
<1>1. implied' = [method |-> method, iv |-> iv, converged |-> converged] /\ search' = None
  BY DEF Ends
<1>2. \A v : Close(v)' <=> Close(v)
  BY DEF Close, Error, PriceAt
<1>3. ImpliedVolFound'
  BY <1>1, <1>2, PricedIsClose DEF ImpliedVolFound
<1> QED
  BY <1>1, <1>3 DEF OptionsInv, BisectionInv

LEMMA SearchGoesOn ==
  ASSUME OptionsInv, option # None, UNCHANGED <<option, implied>>,
         search' \in SearchRecord, search'.sigma <= TopVol,
         search'.method = "newton" => search'.sigma \in Vols,
         BisectionInv'
  PROVE  OptionsInv'
<1>1. ImpliedVolFound'
  BY DEF OptionsInv, ImpliedVolFound, Close, Error, PriceAt
<1> QED
  BY <1>1 DEF OptionsInv

LEMMA BisectBegins ==
  ASSUME OptionsInv, option # None, NEW most \in {FewIterations, Iterations}, Bisect(most),
         UNCHANGED option
  PROVE  OptionsInv'
<1>1. option \in OptionRecord
  BY DEF OptionsInv
<1>2. CASE option.price <= 0 \/ option.price < Intrinsic - Tolerance
  <2>1. Ends("bisection", 0, FALSE)
    BY <1>2 DEF Bisect
  <2>2. ASSUME option.price > 0, NEW v \in LowVol..(HighVol - 1) PROVE ~Close(v)
    <3>1. option.price < Intrinsic - Tolerance /\ option.price \in Int /\ Intrinsic \in Nat
      BY <1>1, <1>2, <2>2, PricesOrdered
    <3>2. v \in Vols /\ 0 \in Vols /\ 0 <= v
      BY BoundsAre DEF Vols
    <3>3. Error(0) <= Error(v) /\ Error(v) \in Int /\ PriceAt(0) = Intrinsic
      BY <1>1, <3>2, PricesOrdered DEF Intrinsic
    <3>4. Error(0) = Intrinsic - option.price
      BY <3>3 DEF Error
    <3> QED
      BY <3>1, <3>3, <3>4, BoundsAre DEF Close
  <2> QED
    BY <2>1, <2>2, SearchEnds
<1>3. CASE ~(option.price <= 0 \/ option.price < Intrinsic - Tolerance)
  <2>1. search' = Search("bisection", 25, most) /\ UNCHANGED implied
    BY <1>3 DEF Bisect
  <2>2. search' = [method |-> "bisection", low |-> LowVol, high |-> HighVol, sigma |-> 25,
                   i |-> 0, most |-> most]
    BY <2>1 DEF Search
  <2>3. LowVol \in Vols /\ HighVol \in Vols /\ LowVol <= HighVol
    BY BoundsAre DEF Vols
  <2>4. search' \in SearchRecord /\ search'.method # "newton" /\ search'.sigma <= TopVol
    BY <2>2, <2>3, BoundsAre DEF SearchRecord
  <2>5. \A v \in LowVol..(HighVol - 1) : v >= LowVol /\ v < HighVol
    BY BoundsAre
  <2>6. BisectionInv'
    BY <1>1, <1>3, <2>2, <2>3, <2>5, WidthIs, BoundsAre, PricesOrdered DEF BisectionInv
  <2> QED
    BY <2>1, <2>4, <2>6, SearchGoesOn
<1> QED
  BY <1>2, <1>3

LEMMA BisectionStepInv == OptionsInv /\ BisectionStep => OptionsInv'
<1> SUFFICES ASSUME OptionsInv, BisectionStep PROVE OptionsInv'
  OBVIOUS
<1> DEFINE low == search.low
           high == search.high
           i == search.i
           mid == (low + high) \div 2
<1>1. search # None /\ search.method = "bisection" /\ search \in SearchRecord /\ option # None
      /\ option \in OptionRecord /\ UNCHANGED option /\ BisectionInv
  BY DEF BisectionStep, OptionsInv
<1>2. low \in Nat /\ high \in Nat /\ i \in Nat /\ low \in Vols /\ high \in Vols
      /\ search.most \in {FewIterations, Iterations}
  BY <1>1, BoundsAre DEF SearchRecord, Vols
<1>3. /\ option.price > 0 /\ i <= search.most
      /\ LowVol <= low /\ low <= high /\ high <= HighVol
      /\ \A v \in LowVol..(HighVol - 1) : Close(v) => v >= low /\ v < high
      /\ i < FewIterations => high - low <= Width[i]
      /\ i >= FewIterations => \A v \in LowVol..(HighVol - 1) : ~Close(v)
  BY <1>1 DEF BisectionInv
<1>4. mid \in Nat /\ low <= mid /\ mid <= high /\ mid \in Vols
      /\ (high - low <= 1 => mid = low \/ low = high)
  <2> HIDE DEF low, high
  <2> QED BY <1>2, <1>3, BoundsAre DEF Vols
<1>4a. (low < high => mid < high)
      /\ 2 * mid <= low + high /\ low + high <= 2 * mid + 1
  <2> HIDE DEF low, high
  <2> QED BY <1>2, <1>3
<1>5. CASE i = search.most
  <2>1. Ends("bisection", search.sigma, FALSE)
    BY <1>1, <1>5 DEF BisectionStep
  <2>2. \A v \in LowVol..(HighVol - 1) : ~Close(v)
    BY <1>2, <1>3, <1>5, BoundsAre
  <2> QED
    BY <1>1, <2>1, <2>2, SearchEnds
<1>6. CASE i # search.most /\ Close(mid)
  <2>1. Ends("bisection", mid, TRUE)
    BY <1>1, <1>6 DEF BisectionStep
  <2> HIDE DEF mid
  <2> QED
    BY <1>1, <1>4, <1>6, <2>1, SearchEnds
<1>7. CASE i # search.most /\ ~Close(mid)
  <2>1. search' = Tried(Bracket(mid), mid) /\ UNCHANGED implied
    BY <1>1, <1>7 DEF BisectionStep
  <2> HIDE DEF mid
  <2>2. /\ search' \in SearchRecord /\ search'.method = "bisection" /\ search'.sigma <= TopVol /\ search'.most = search.most
        /\ search'.i = i + 1
        /\ Error(mid) > 0 => search'.high = mid /\ search'.low = low
        /\ ~(Error(mid) > 0) => search'.low = mid /\ search'.high = high
    <3> DEFINE b == Bracket(mid)
    <3>1. /\ b \in SearchRecord /\ b.method = "bisection" /\ b.most = search.most /\ b.i = i
          /\ Error(mid) > 0 => b.high = mid /\ b.low = low
          /\ ~(Error(mid) > 0) => b.low = mid /\ b.high = high
      BY <1>1, <1>2, <1>4 DEF Bracket, SearchRecord
    <3>2. search' = Tried(b, mid) /\ mid \in Int /\ mid <= TopVol
      BY <1>4, <2>1, BoundsAre DEF Vols
    <3> HIDE DEF b
    <3>3. /\ search' \in SearchRecord /\ search'.sigma = mid /\ search'.i = b.i + 1
          /\ search'.method = b.method /\ search'.low = b.low /\ search'.high = b.high
          /\ search'.most = b.most
      BY <3>1, <3>2, SearchMoves
    <3> QED
      BY <3>1, <3>2, <3>3
  <2>3. \A v \in LowVol..(HighVol - 1) : Close(v)' <=> Close(v)
    BY <1>1 DEF Close, Error, PriceAt
  <2>4. ASSUME NEW v \in LowVol..(HighVol - 1), Close(v)
        PROVE  v >= search'.low /\ v < search'.high /\ v # mid
    <3>1. v \in Vols /\ v >= low /\ v < high
      BY <1>3, <2>4, BoundsAre DEF Vols
    <3>2. Error(v) \in Int /\ Error(mid) \in Int /\ (v <= mid => Error(v) <= Error(mid))
          /\ (mid <= v => Error(mid) <= Error(v)) /\ v \in Int
      BY <1>1, <1>4, <3>1, PricesOrdered DEF Vols
    <3>3. v # mid
      BY <1>7, <2>4
    <3>4. Error(v) < Tolerance /\ -Error(v) < Tolerance
          /\ ~(Error(mid) < Tolerance /\ -Error(mid) < Tolerance)
      BY <1>7, <2>4 DEF Close
    <3>5. CASE Error(mid) > 0
      <4>1. Error(mid) >= Tolerance
        BY <3>2, <3>4, <3>5, BoundsAre
      <4>2. v < mid
        BY <1>4, <3>2, <3>4, <4>1, BoundsAre
      <4> QED BY <2>2, <3>1, <3>3, <3>5, <4>2
    <3>6. CASE ~(Error(mid) > 0)
      <4>1. -Error(mid) >= Tolerance
        BY <3>2, <3>4, <3>6, BoundsAre
      <4>2. v > mid
        BY <1>4, <3>2, <3>3, <3>4, <4>1, BoundsAre
      <4> QED BY <1>4, <2>2, <3>1, <3>2, <3>3, <3>6, <4>2
    <3> QED
      BY <3>5, <3>6
  <2>5. search'.low \in Nat /\ search'.high \in Nat
        /\ LowVol <= search'.low /\ search'.low <= search'.high /\ search'.high <= HighVol
    BY <1>2, <1>3, <1>4, <2>2, BoundsAre
  <2>6. ASSUME i + 1 < FewIterations PROVE search'.high - search'.low <= Width[i + 1]
    <3> DEFINE w == Width[i]
    <3>1. i \in 0..(Iterations - 1) /\ i \in 0..Iterations /\ i < FewIterations
      BY <1>2, <2>6, BoundsAre
    <3>2. Width[i + 1] = w - (w \div 2) /\ high - low <= w
      BY <1>3, <3>1, WidthIs
    <3>3. w \in Int
      BY <3>1, WidthsInt
    <3>4. search'.high - search'.low <= (high - low) - ((high - low) \div 2)
      BY <1>2, <1>3, <1>4, <1>4a, <2>2
    <3>5. (high - low) - ((high - low) \div 2) <= w - (w \div 2)
      <4> HIDE DEF w, low, high
      <4> QED BY <1>2, <3>2, <3>3
    <3> QED
      BY <1>2, <2>5, <3>2, <3>3, <3>4, <3>5
  <2>7. ASSUME i + 1 >= FewIterations, NEW v \in LowVol..(HighVol - 1), Close(v) PROVE FALSE
    <3>1. i < FewIterations
      BY <1>2, <1>3, <2>7, BoundsAre
    <3>2. i = FewIterations - 1
      BY <1>2, <2>7, <3>1, BoundsAre
    <3>3. high - low <= 1
      BY <1>2, <1>3, <3>1, <3>2, BoundsAre, WidthsInt
    <3>4. v \in Int /\ v >= low /\ v < high
      BY <1>3, <2>7, BoundsAre
    <3>5. v = low /\ low # high
      BY <1>2, <3>3, <3>4
    <3> QED
      BY <1>4, <2>4, <2>7, <3>3, <3>5
  <2>8. search'.i <= search'.most
    BY <1>2, <1>3, <1>7, <2>2, BoundsAre
  <2>9. BisectionInv'
    BY <1>1, <1>2, <1>3, <2>2, <2>3, <2>4, <2>5, <2>6, <2>7, <2>8 DEF BisectionInv
  <2> QED
    BY <1>1, <2>1, <2>2, <2>9, SearchGoesOn
<1> QED
  BY <1>5, <1>6, <1>7

LEMMA GuessIsInt ==
  ASSUME option \in OptionRecord
  PROVE  FirstGuess \in Int /\ FirstGuess <= TopVol
<1>1. GuessScale[option.of] \in Nat /\ option.price \in Int /\ TopVol \in Nat
  BY OptionsOK DEF OptionRecord
<1>2. GuessScale[option.of] * option.price \in Int
  BY <1>1
<1> QED
  BY <1>1, <1>2 DEF FirstGuess, AtMost

LEMMA NewtonBegins == OptionsInv /\ (ImpliedVolNewtonRaphson \/ CalculateImpliedVolatility) => OptionsInv'
<1> SUFFICES ASSUME OptionsInv, ImpliedVolNewtonRaphson \/ CalculateImpliedVolatility
             PROVE  OptionsInv'
  OBVIOUS
<1>1. option # None /\ option \in OptionRecord /\ UNCHANGED <<option, implied>>
  BY DEF OptionsInv, ImpliedVolNewtonRaphson, CalculateImpliedVolatility
<1>2. FirstGuess \in Int /\ FirstGuess <= TopVol
  BY <1>1, GuessIsInt
<1>3. Clamp(1, 200, FirstGuess) \in Vols
  BY <1>2, BoundsAre DEF Vols, Clamp, AtLeast, AtMost
<1>4. LowVol \in Vols /\ HighVol \in Vols
  BY BoundsAre DEF Vols
<1>5. CASE ImpliedVolNewtonRaphson
  <2>1. search' = [method |-> "newton", low |-> LowVol, high |-> HighVol,
                   sigma |-> Clamp(1, 200, FirstGuess), i |-> 0, most |-> FewIterations]
    BY <1>5 DEF ImpliedVolNewtonRaphson, Search
  <2>2. search' \in SearchRecord /\ search'.sigma \in Vols /\ search'.sigma <= TopVol
        /\ search'.method # "bisection"
    BY <1>3, <1>4, <2>1, BoundsAre DEF SearchRecord, Vols
  <2> QED
    BY <1>1, <2>2, SearchGoesOn DEF BisectionInv
<1>6. CASE CalculateImpliedVolatility
  <2>1. search' = [method |-> "sdk", low |-> LowVol, high |-> HighVol,
                   sigma |-> FirstGuess, i |-> 0, most |-> Iterations]
    BY <1>6 DEF CalculateImpliedVolatility, Search
  <2>2. search' \in SearchRecord /\ search'.sigma <= TopVol
        /\ search'.method # "newton" /\ search'.method # "bisection"
    BY <1>2, <1>4, <2>1, BoundsAre DEF SearchRecord
  <2> QED
    BY <1>1, <2>2, SearchGoesOn DEF BisectionInv
<1> QED
  BY <1>5, <1>6

LEMMA UpdateStays ==
  ASSUME OptionsInv, search # None, option # None, search.method # "bisection",
         NEW least \in {0, 1}, NEW sigma \in Vols, VegaAt(sigma) # 0,
         search' = NewtonUpdate(sigma, least), UNCHANGED <<option, implied>>
  PROVE  OptionsInv'
<1>1. search \in SearchRecord /\ option \in OptionRecord
  BY DEF OptionsInv
<1>2. VegaAt(sigma) \in Nat \ {0} /\ Error(sigma) \in Int
  <2>1. sigma < TopVol => sigma + 1 \in Vols /\ sigma <= sigma + 1
    BY BoundsAre DEF Vols
  <2>2. sigma < TopVol => Error(sigma) <= Error(sigma + 1)
    BY <1>1, <2>1, PricesOrdered
  <2>3. option.price \in Int /\ PriceAt(sigma) \in Nat /\ (sigma < TopVol => PriceAt(sigma + 1) \in Nat)
    BY <1>1, <2>1, PricesOrdered
  <2>4. VegaAt(sigma) = IF sigma < TopVol THEN Error(sigma + 1) - Error(sigma) ELSE 0
    BY <2>3 DEF VegaAt, Error
  <2> QED
    BY <1>1, <2>1, <2>2, <2>4, PricesOrdered
<1>3. Error(sigma) \div VegaAt(sigma) \in Int
  BY <1>2
<1>4. sigma - (Error(sigma) \div VegaAt(sigma)) \in Int
  BY <1>3, BoundsAre DEF Vols
<1> DEFINE new == sigma - (Error(sigma) \div VegaAt(sigma))
           kept == Clamp(least, HighVol, new)
<1>5. kept \in Vols
  <2> HIDE DEF new
  <2> QED BY <1>4, BoundsAre DEF new, Vols, Clamp, AtLeast, AtMost
<1>6. search' = Tried(search, kept)
  BY DEF NewtonUpdate
<1> HIDE DEF kept
<1>7. search' \in SearchRecord /\ search'.sigma \in Vols /\ search'.sigma <= TopVol
        /\ search'.method # "bisection"
  <2>1. kept \in Int /\ kept <= TopVol
    BY <1>5, BoundsAre DEF Vols
  <2>2. search' \in SearchRecord /\ search'.sigma = kept /\ search'.method = search.method
    BY <1>1, <1>6, <2>1, SearchMoves
  <2> QED BY <1>5, <2>1, <2>2
<1> QED
  BY <1>7, SearchGoesOn DEF BisectionInv

LEMMA NewtonStepInv == OptionsInv /\ NewtonStep => OptionsInv'
<1> SUFFICES ASSUME OptionsInv, NewtonStep PROVE OptionsInv'
  OBVIOUS
<1>1. search # None /\ search.method = "newton" /\ search \in SearchRecord /\ option # None
      /\ search.sigma \in Vols /\ UNCHANGED option /\ search.most \in {FewIterations, Iterations}
  BY DEF OptionsInv, NewtonStep, SearchRecord
<1>2. CASE search.i = search.most
  BY <1>1, <1>2, SearchEnds DEF NewtonStep
<1>3. CASE search.i # search.most /\ Close(search.sigma)
  BY <1>1, <1>3, SearchEnds DEF NewtonStep
<1>4. CASE search.i # search.most /\ ~Close(search.sigma) /\ VegaAt(search.sigma) = 0
  BY <1>1, <1>4, BisectBegins DEF NewtonStep
<1>5. CASE search.i # search.most /\ ~Close(search.sigma) /\ VegaAt(search.sigma) # 0
  BY <1>1, <1>5, UpdateStays DEF NewtonStep
<1> QED
  BY <1>2, <1>3, <1>4, <1>5

LEMMA SdkStepInv == OptionsInv /\ SdkStep => OptionsInv'
<1> SUFFICES ASSUME OptionsInv, SdkStep PROVE OptionsInv'
  OBVIOUS
<1>1. search # None /\ search.method = "sdk" /\ search \in SearchRecord /\ option # None
      /\ search.sigma \in Int /\ UNCHANGED option /\ search.sigma <= TopVol
  BY DEF OptionsInv, SdkStep, SearchRecord
<1>2. CASE search.i = search.most \/ SdkRefuses(search.sigma)
  BY <1>1, <1>2, SearchEnds DEF SdkStep
<1>3. CASE ~(search.i = search.most \/ SdkRefuses(search.sigma))
  <2>1. search.sigma \in Vols
    BY <1>1, <1>3, BoundsAre DEF Vols, SdkRefuses
  <2>2. CASE Close(search.sigma)
    BY <1>1, <1>3, <2>1, <2>2, SearchEnds DEF SdkStep
  <2>3. CASE ~Close(search.sigma) /\ VegaAt(search.sigma) = 0
    BY <1>1, <1>3, <2>3, SearchEnds DEF SdkStep
  <2>4. CASE ~Close(search.sigma) /\ VegaAt(search.sigma) # 0
    BY <1>1, <1>3, <2>1, <2>4, UpdateStays DEF SdkStep
  <2> QED
    BY <2>2, <2>3, <2>4
<1> QED
  BY <1>2, <1>3

LEMMA OptionsNextInv == OptionsInv /\ [OptionsNext]_optionVars => OptionsInv'
<1> SUFFICES ASSUME OptionsInv, [OptionsNext]_optionVars PROVE OptionsInv'
  OBVIOUS
<1>1. CASE ImpliedVolBisection
  BY <1>1, BisectBegins DEF ImpliedVolBisection
<1>2. CASE UNCHANGED optionVars
  BY <1>2 DEF optionVars, OptionsInv, BisectionInv, ImpliedVolFound, Close, Error, PriceAt
<1> QED
  BY <1>1, <1>2, OptionAsked, BisectionStepInv, NewtonBegins, NewtonStepInv, SdkStepInv
     DEF OptionsNext

(* Options and their volatilities (options-math.ts, pricing.ts of the      *)
(* SDK): what is found is right, bisection finds what there is, and every  *)
(* priced option has its volatility found, for all options whose price     *)
(* does not fall as volatility rises, any tolerance and any numbers of     *)
(* iterations that narrow the bracket to nothing.                          *)
THEOREM ImpliedVolAlwaysFound == OptionsSpec => []ImpliedVolFound
<1>1. OptionsInit => OptionsInv
  BY DEF OptionsInit, OptionsInv, BisectionInv, ImpliedVolFound
<1>2. OptionsInv => ImpliedVolFound
  BY DEF OptionsInv
<1> QED
  BY <1>1, <1>2, OptionsNextInv, PTL DEF OptionsSpec

-----------------------------------------------------------------------------
(* The oracle's volatility, alone and from time 0.                         *)
SumTo(s, f) == f = [i \in 0..Len(s) |-> IF i = 0 THEN 0 ELSE f[i - 1] + s[i]]

(* The total is the last of the sums.                                      *)
LEMMA TotalIs ==
  ASSUME NEW s \in Seq(Int)
  PROVE  \E f \in [0..Len(s) -> Int] :
            /\ f[0] = 0 /\ \A i \in 1..Len(s) : f[i] = f[i - 1] + s[i]
            /\ Total(s) = f[Len(s)]
<1> DEFINE n == Len(s)
           step == [p \in (1..n) \X Int |-> p[2] + s[p[1]]]
<1>1. n \in Nat /\ 0 \in Int /\ \A i \in 1..n : s[i] \in Int
  OBVIOUS
<1>2. step \in [(1..n) \X Int -> Int]
  BY <1>1
<1> HIDE DEF n
<1>3. PICK f : Solves(f, n, Int, 0, step)
  BY <1>1, <1>2, RecursionExists DEF Steps
<1>13. f \in [0..n -> Int] /\ f[0] = 0 /\ \A i \in 1..n : f[i] = step[<<i, f[i - 1]>>]
  <2> HIDE DEF step
  <2> QED BY <1>3 DEF Solves
<1>4. \A i \in 1..n : f[i] = f[i - 1] + s[i]
  <2>1. \A i \in 1..n : i - 1 \in 0..n
    BY <1>1
  <2> QED BY <1>13, <2>1
<1>5. /\ 0 \in 0..n /\ \A i \in 0..n : i = 0 \/ i \in 1..n
      /\ \A i \in 1..n : i \in 0..n /\ i # 0
  BY <1>1
<1>6. SumTo(s, f)
  <2>1. \A i \in 0..n : f[i] = IF i = 0 THEN 0 ELSE f[i - 1] + s[i]
    BY <1>13, <1>4, <1>5
  <2>2. f = [i \in 0..n |-> f[i]]
    BY <1>13
  <2> QED BY <2>1, <2>2, Zenon DEF SumTo, n
<1> DEFINE g == CHOOSE h : SumTo(s, h)
<1>7. Total(s) = g[n]
  BY DEF Total, SumTo, n
<1>8. SumTo(s, g)
  BY <1>6
<1> HIDE DEF g
<1>9. \A i \in 0..n : g[i] = IF i = 0 THEN 0 ELSE g[i - 1] + s[i]
  BY <1>8, Zenon DEF SumTo, n
<1>10. g = [i \in 0..n |-> g[i]]
  <2>1. g = [i \in 0..n |-> IF i = 0 THEN 0 ELSE g[i - 1] + s[i]]
    BY <1>8 DEF SumTo, n
  <2> QED BY <1>9, <2>1, Zenon
<1>11. g[0] = f[0] /\ \A i \in 1..n : g[i - 1] = f[i - 1] => g[i] = f[i]
  BY <1>13, <1>4, <1>5, <1>9
<1>12. g = f
  <2>1. Follows(g, n, f)
    BY <1>10, <1>11 DEF Follows
  <2> HIDE DEF step
  <2> QED BY <1>1, <1>3, <2>1, RecursionUnique
<1> QED
  BY <1>4, <1>7, <1>12, <1>13 DEF n

LEMMA TotalNat ==
  ASSUME NEW s \in Seq(Nat)
  PROVE  Total(s) \in Nat
<1>1. Len(s) \in Nat /\ s \in Seq(Int) /\ \A i \in 1..Len(s) : s[i] \in Nat
  OBVIOUS
<1>2. PICK f \in [0..Len(s) -> Int] :
         /\ f[0] = 0 /\ \A i \in 1..Len(s) : f[i] = f[i - 1] + s[i]
         /\ Total(s) = f[Len(s)]
  BY <1>1, TotalIs
<1> DEFINE P == {i \in 0..Len(s) : f[i] \in Nat}
<1>3. 0 \in P
  BY <1>1, <1>2
<1>4. ASSUME NEW i \in 0..(Len(s) - 1), i \in P PROVE i + 1 \in P
  <2>1. i + 1 \in 1..Len(s) /\ i + 1 \in 0..Len(s) /\ i + 1 - 1 = i
    BY <1>1
  <2>2. f[i + 1] = f[i] + s[i + 1] /\ s[i + 1] \in Nat /\ f[i] \in Nat
    BY <1>1, <1>2, <1>4, <2>1
  <2> QED
    BY <2>1, <2>2
<1>5. \A i \in 0..Len(s) : i \in P
  <2> HIDE DEF P
  <2> QED BY <1>1, <1>3, <1>4, InductionUpTo
<1> QED
  BY <1>1, <1>2, <1>5

LEMMA SquaresAre ==
  ASSUME NEW s \in Seq(Int)
  PROVE  Squares(s) \in Seq(Nat)
<1>1. Squares(s) = [i \in 1..Len(s) |-> s[i] * s[i]] /\ Len(s) \in Nat
  BY DEF Squares
<1>2. ASSUME NEW i \in 1..Len(s) PROVE s[i] * s[i] \in Nat
  <2>1. s[i] \in Int
    OBVIOUS
  <2>2. \A y \in Int : y * y >= 0 /\ y * y \in Int
    OBVIOUS
  <2> QED
    BY <2>1, <2>2
<1> QED
  BY <1>1, <1>2

LEMMA DeviationsAre ==
  ASSUME NEW r \in Seq(Int)
  PROVE  /\ Deviations(r) \in Seq(Int)
         /\ Squares(Deviations(r)) \in Seq(Nat)
<1>1. Len(r) \in Nat /\ \A i \in 1..Len(r) : r[i] \in Int
  OBVIOUS
<1>2. Total(r) \in Int
  <2>1. PICK f \in [0..Len(r) -> Int] : Total(r) = f[Len(r)]
    BY TotalIs
  <2> QED BY <1>1, <2>1
<1> DEFINE d == Deviations(r)
<1>3. d = [i \in 1..Len(r) |-> Len(r) * r[i] - Total(r)]
  BY DEF Deviations
<1>4. \A i \in 1..Len(r) : Len(r) * r[i] - Total(r) \in Int
  BY <1>1, <1>2
<1> HIDE DEF d
<1>5. d \in Seq(Int) /\ Len(d) = Len(r)
  BY <1>1, <1>3, <1>4
<1> QED
  BY <1>5, SquaresAre DEF d

LEMMA KurtosisIs ==
  ASSUME NEW r \in Seq(Int)
  PROVE  Kurtosis(r) \in Int
<1> DEFINE s == Squares(Deviations(r))
           second == Total(s)
           a == 100 * Len(r) * Total(Squares(s))
<1>1. s \in Seq(Nat)
  BY DeviationsAre
<1> HIDE DEF s
<1>2. s \in Seq(Int)
  BY <1>1
<1>3. second \in Nat /\ Total(Squares(s)) \in Nat
  BY <1>1, <1>2, SquaresAre, TotalNat
<1>4. Kurtosis(r) = IF Len(r) < 4 \/ second = 0 THEN 0 ELSE a \div (second * second) - 300
  BY DEF Kurtosis, s
<1>5. a \in Nat
  BY <1>3
<1> HIDE DEF a, second
<1>6. second # 0 => second * second \in Nat \ {0}
  BY <1>3, TimesPositive
<1> DEFINE b == second * second
<1>7. b \in Nat \ {0} => a \div b \in Int
  <2> HIDE DEF b
  <2> QED BY <1>5
<1> QED
  BY <1>4, <1>6, <1>7

LEMMA ConsistencyIs ==
  ASSUME NEW k \in Int
  PROVE  ConsistencyScore(k) \in Nat
<1> DEFINE q == Greater(k, -k) \div 10
<1>1. q \in Int
  BY DEF Greater
<1> HIDE DEF q
<1> QED
  BY <1>1 DEF ConsistencyScore, Greater, q

LEMMA SqrtIs ==
  ASSUME NEW x \in Nat
  PROVE  Sqrt(x) \in Nat
<1> DEFINE S == {r \in 0..x : r * r <= x}
<1>1. S \in SUBSET (0..x) /\ S # {}
  <2>1. 0 \in S
    OBVIOUS
  <2> HIDE DEF S
  <2>2. S \in SUBSET (0..x)
    BY DEF S
  <2> QED BY <2>1, <2>2
<1>2. PICK r \in S : \A y \in S : y <= r
  <2> HIDE DEF S
  <2> QED BY <1>1, SomeGreatest
<1>3. r \in 0..x /\ r * r <= x
  BY <1>2
<1>4. (r + 1) * (r + 1) > x
  <2> SUFFICES ASSUME (r + 1) * (r + 1) <= x PROVE FALSE
    BY <1>3
  <2>1. r + 1 <= (r + 1) * (r + 1) /\ (r + 1) * (r + 1) \in Nat
    BY <1>3
  <2>2. r + 1 \in S
    BY <1>3, <2>1
  <2> QED
    BY <1>2, <1>3, <2>2
<1>5. \E q \in 0..x : q * q <= x /\ (q + 1) * (q + 1) > x
  BY <1>3, <1>4
<1>6. Sqrt(x) \in 0..x
  BY <1>5 DEF Sqrt
<1> QED
  BY <1>6

LEMMA VolatilityIs ==
  ASSUME NEW r \in Seq(Int), Len(r) # 0, NEW periods \in Nat
  PROVE  Volatility(r, periods) \in Nat \cup {NaN}
<1> DEFINE n == Len(r)
           total == Total(Squares(Deviations(r)))
<1>1. n \in Nat \ {0}
  OBVIOUS
<1>2. total \in Nat
  BY DeviationsAre, TotalNat
<1> HIDE DEF n, total
<1>3. CASE n = 1
  BY <1>3 DEF Volatility, n
<1>4. CASE n # 1
  <2> DEFINE b == n * n * (n - 1)
             a == periods * total
  <2>1. b \in Nat \ {0} /\ a \in Nat
    <3>1. n - 1 \in Nat \ {0} /\ n * n \in Nat \ {0}
      BY <1>1, <1>4, TimesPositive
    <3>2. b \in Nat \ {0}
      BY <3>1, TimesPositive
    <3> QED BY <1>2, <3>2
  <2> HIDE DEF a, b
  <2>2. a \div b \in Nat
    BY <2>1, DivBounds
  <2>3. Volatility(r, periods) = Sqrt(a \div b)
    BY <1>4 DEF Volatility, a, b, n, total
  <2> QED
    BY <2>2, <2>3, SqrtIs
<1> QED
  BY <1>3, <1>4

SnapshotRecord == [price : Nat, at : Nat, confidence : 0..100]

Rise(rows, i) == rows[i + 1].price - rows[i].price
Priced(rows, i) == rows[i].price > 0 /\ rows[i + 1].price > 0
ReturnsTo(rows, f) ==
    f = [i \in 0..(Len(rows) - 1) |->
            IF i = 0 THEN <<>>
            ELSE IF rows[i].price > 0 /\ rows[i + 1].price > 0
            THEN Append(f[i - 1], rows[i + 1].price - rows[i].price) ELSE f[i - 1]]

(* There are fewer returns than rows.                                      *)
LEMMA ReturnsAre ==
  ASSUME NEW rows \in Seq(SnapshotRecord), Len(rows) > 0
  PROVE  /\ CalculateLogReturns(rows) \in Seq(Int)
         /\ Len(CalculateLogReturns(rows)) <= Len(rows) - 1
<1> DEFINE n == Len(rows) - 1
           D == Seq(Int)
           step == [p \in (1..n) \X D |->
                      IF Priced(rows, p[1]) THEN Append(p[2], Rise(rows, p[1])) ELSE p[2]]
<1>1. n \in Nat /\ \A i \in 1..n : i \in 1..Len(rows) /\ i + 1 \in 1..Len(rows)
  OBVIOUS
<1>2. \A i \in 1..n : Rise(rows, i) \in Int
  <2>2. \A i \in 1..Len(rows) : rows[i] \in SnapshotRecord
    OBVIOUS
  <2>1. \A i \in 1..Len(rows) : rows[i].price \in Nat
    BY <2>2 DEF SnapshotRecord
  <2> QED BY <1>1, <2>1 DEF Rise
<1>3. \A s \in D, x \in Int : Append(s, x) \in D /\ Len(Append(s, x)) = Len(s) + 1 /\ Len(s) \in Nat
  OBVIOUS
<1>4. <<>> \in D /\ Len(<<>>) = 0
  OBVIOUS
<1>5. step \in Steps(n, D)
  <2> HIDE DEF D, n
  <2> QED BY <1>2, <1>3 DEF Steps
<1> HIDE DEF n, D
<1>6. PICK f : Solves(f, n, D, <<>>, step)
  <2> HIDE DEF step
  <2> QED BY <1>1, <1>4, <1>5, RecursionExists
<1>7. f \in [0..n -> D] /\ f[0] = <<>> /\ \A i \in 1..n : f[i] = step[<<i, f[i - 1]>>]
  <2> HIDE DEF step
  <2> QED BY <1>6 DEF Solves
<1>8. \A i \in 1..n : i - 1 \in 0..n /\ i \in 0..n /\ i # 0
  BY <1>1
<1>9. \A i \in 1..n :
         f[i] = IF Priced(rows, i) THEN Append(f[i - 1], Rise(rows, i)) ELSE f[i - 1]
  BY <1>7, <1>8
<1>10. \A i \in 0..n : i = 0 \/ i \in 1..n
  BY <1>1
<1>11. ReturnsTo(rows, f)
  <2>1. \A i \in 0..n : f[i] = IF i = 0 THEN <<>>
           ELSE IF Priced(rows, i) THEN Append(f[i - 1], Rise(rows, i)) ELSE f[i - 1]
    BY <1>7, <1>8, <1>9, <1>10
  <2>2. f = [i \in 0..n |-> f[i]]
    BY <1>7
  <2> QED BY <2>1, <2>2, Zenon DEF ReturnsTo, Priced, Rise, n
<1> DEFINE g == CHOOSE h : ReturnsTo(rows, h)
<1>12. CalculateLogReturns(rows) = g[n]
  BY DEF CalculateLogReturns, ReturnsTo, n
<1>13. ReturnsTo(rows, g)
  BY <1>11
<1> HIDE DEF g
<1>14. \A i \in 0..n : g[i] = IF i = 0 THEN <<>>
          ELSE IF Priced(rows, i) THEN Append(g[i - 1], Rise(rows, i)) ELSE g[i - 1]
  BY <1>13, Zenon DEF ReturnsTo, n, Priced, Rise
<1>15. g = [i \in 0..n |-> g[i]]
  <2>1. g = [i \in 0..n |-> IF i = 0 THEN <<>>
                ELSE IF Priced(rows, i) THEN Append(g[i - 1], Rise(rows, i)) ELSE g[i - 1]]
    BY <1>13 DEF ReturnsTo, n, Priced, Rise
  <2> QED BY <1>14, <2>1, Zenon
<1>16. g[0] = f[0] /\ \A i \in 1..n : g[i - 1] = f[i - 1] => g[i] = f[i]
  <2>1. 0 \in 0..n
    BY <1>1
  <2> QED BY <1>7, <1>8, <1>9, <1>14, <2>1
<1>17. g = f
  <2>1. Follows(g, n, f)
    BY <1>15, <1>16 DEF Follows
  <2> HIDE DEF step
  <2> QED BY <1>1, <1>6, <2>1, RecursionUnique
<1> DEFINE P == {i \in 0..n : f[i] \in D /\ Len(f[i]) <= i}
<1>18. 0 \in P
  BY <1>1, <1>4, <1>7
<1>19. ASSUME NEW i \in 0..(n - 1), i \in P PROVE i + 1 \in P
  <2> DEFINE k == i + 1
  <2>1. k \in 1..n /\ k \in 0..n /\ k - 1 = i
    BY <1>1
  <2> HIDE DEF k
  <2>2. f[i] \in D /\ Len(f[i]) <= i /\ Len(f[i]) \in Nat
    BY <1>3, <1>19
  <2>3. f[k] = IF Priced(rows, k) THEN Append(f[i], Rise(rows, k)) ELSE f[i]
    BY <1>9, <2>1
  <2>4. f[k] \in D /\ (Len(f[k]) = Len(f[i]) + 1 \/ Len(f[k]) = Len(f[i]))
    BY <1>2, <1>3, <2>1, <2>2, <2>3
  <2>5. Len(f[k]) <= k
    BY <2>1, <2>2, <2>4
  <2>6. k \in P
    BY <2>1, <2>4, <2>5
  <2> QED BY <2>6 DEF k
<1>20. \A i \in 0..n : i \in P
  <2> HIDE DEF P
  <2> QED BY <1>1, <1>18, <1>19, InductionUpTo
<1>21. n \in P
  BY <1>1, <1>20
<1> QED
  BY <1>12, <1>17, <1>21 DEF D, n

LEMMA PointsScore ==
  ASSUME NEW n \in Nat
  PROVE  /\ DataPointScore(n) \in Int /\ DataPointScore(n) <= 100
         /\ n >= MinPoints => DataPointScore(n) >= 0
         /\ n <= MinPoints => DataPointScore(n) <= 0
<1> DEFINE d == IdealPoints - MinPoints
           a == 100 * (n - MinPoints)
           q == a \div d
<1>1. d \in Nat \ {0} /\ a \in Int /\ (n >= MinPoints => a >= 0) /\ (n <= MinPoints => a <= 0)
  BY OracleOK
<1> HIDE DEF d, a
<1>2. q \in Int /\ (a >= 0 => q >= 0) /\ (a <= 0 => q <= 0)
  BY <1>1
<1>3. DataPointScore(n) = Lesser(q, 100)
  BY DEF DataPointScore, a, d
<1> HIDE DEF q
<1> QED
  BY <1>1, <1>2, <1>3 DEF Lesser

(* A confidence is below zero by no more than the points that are missing. *)
LEMMA ConfidenceIs ==
  ASSUME NEW rows \in Seq(SnapshotRecord), Len(rows) >= 2, now \in Nat,
         NEW r, r = CalculateLogReturns(rows)
  PROVE  /\ Confidence(rows, r) \in Int
         /\ Confidence(rows, r) >= (30 * DataPointScore(Len(rows))) \div 100
<1> DEFINE n == Len(rows)
           c == [i \in 1..n |-> SourceConfidence(rows[i])]
           k == ConsistencyScore(Kurtosis(r))
           p == DataPointScore(n)
           recency == Greater(0, 100 - (100 * (now - rows[n].at)) \div DayLength)
           source == Total(c) \div n
<1>1. n \in Nat /\ n >= 2 /\ \A i \in 1..n : rows[i] \in SnapshotRecord
  OBVIOUS
<1>2. \A i \in 1..n : SourceConfidence(rows[i]) \in Nat
  <2> SUFFICES ASSUME NEW i \in 1..n PROVE SourceConfidence(rows[i]) \in Nat
    OBVIOUS
  <2>1. rows[i] \in SnapshotRecord
    BY <1>1
  <2>2. rows[i].confidence \in 0..100
    BY <2>1 DEF SnapshotRecord
  <2>3. ASSUME NEW x \in 0..100 PROVE (IF x = 0 THEN 100 ELSE x) \in Nat
    OBVIOUS
  <2> QED BY <2>2, <2>3 DEF SourceConfidence
<1>3. c \in Seq(Nat)
  <2> HIDE DEF n
  <2> QED BY <1>1, <1>2
<1>4. source \in Nat
  <2> HIDE DEF c, n
  <2>1. Total(c) \in Nat /\ n \in Nat \ {0}
    BY <1>1, <1>3, TotalNat
  <2> QED BY <2>1, DivBounds
<1>5. k \in Nat
  <2>1. r \in Seq(Int)
    BY <1>1, ReturnsAre
  <2> QED BY <2>1, KurtosisIs, ConsistencyIs
<1>6. recency \in Nat
  <2>1. rows[n].at \in Nat
    BY <1>1 DEF SnapshotRecord
  <2> DEFINE a == 100 * (now - rows[n].at)
  <2>2. a \in Int /\ DayLength \in Nat \ {0}
    BY <2>1, OracleOK
  <2> HIDE DEF a
  <2>3. a \div DayLength \in Int
    BY <2>2
  <2> QED BY <2>3 DEF Greater, a
<1>7. p \in Int
  <2> HIDE DEF n
  <2> QED BY <1>1, PointsScore
<1>8. Confidence(rows, r) = (30 * p + 30 * recency + 20 * source + 20 * k) \div 100
  <2>1. c = [i \in DOMAIN rows |-> SourceConfidence(rows[i])]
    OBVIOUS
  <2> HIDE DEF c
  <2> QED BY <2>1 DEF Confidence
<1> HIDE DEF p, recency, source, k, n
<1>9. /\ (30 * p + 30 * recency + 20 * source + 20 * k) \div 100 \in Int
      /\ (30 * p + 30 * recency + 20 * source + 20 * k) \div 100 >= (30 * p) \div 100
  BY <1>4, <1>5, <1>6, <1>7
<1> QED
  BY <1>8, <1>9 DEF p, n

OnChainOK(v) ==
    /\ v.volatility \in Nat \cup {NaN}
    /\ v.dataPoints \in Nat /\ v.confidence \in Int
    /\ 4 * v.confidence >= -Shortfall(v)

LEMMA ShortfallIs ==
  ASSUME NEW v, v.dataPoints \in Nat
  PROVE  /\ Shortfall(v) \in Nat
         /\ 4 * ((30 * DataPointScore(v.dataPoints)) \div 100) >= -Shortfall(v)
<1> DEFINE d == DataPointScore(v.dataPoints)
           q == (30 * d) \div 100
<1>1. d \in Int
  BY PointsScore
<1> HIDE DEF d
<1>2. q \in Int
  BY <1>1
<1> HIDE DEF q
<1>3. Shortfall(v) = Greater(0, -4 * q)
  BY DEF Shortfall, q, d
<1>4. Shortfall(v) \in Nat /\ 4 * q >= -Shortfall(v)
  BY <1>2, <1>3 DEF Greater
<1> QED
  BY <1>4 DEF q, d

LEMMA NoOnChainOK == OnChainOK(NoOnChain)
<1>1. NoOnChain.dataPoints = 0 /\ NoOnChain.confidence = 0 /\ NoOnChain.volatility = 0
  BY DEF NoOnChain
<1>2. Shortfall(NoOnChain) \in Nat
  BY <1>1, ShortfallIs
<1> QED
  BY <1>1, <1>2 DEF OnChainOK

LEMMA OnChainIs ==
  ASSUME NEW rows \in Seq(SnapshotRecord), now \in Nat
  PROVE  OnChainOK(OnChainVolatility(rows))
<1> DEFINE r == CalculateLogReturns(rows)
<1>1. CASE Len(rows) < 2 \/ r = <<>>
  BY <1>1, NoOnChainOK DEF OnChainVolatility
<1>2. CASE ~(Len(rows) < 2 \/ r = <<>>)
  <2>1. Len(rows) \in Nat /\ Len(rows) >= 2 /\ Len(rows) > 0
    BY <1>2
  <2>2. r \in Seq(Int)
    BY <2>1, ReturnsAre
  <2> HIDE DEF r
  <2>3. Len(r) # 0
    BY <1>2, <2>2
  <2>4. Volatility(r, OnChainPeriods) \in Nat \cup {NaN}
    BY <2>2, <2>3, VolatilityIs DEF OnChainPeriods
  <2>5. /\ Confidence(rows, r) \in Int
        /\ Confidence(rows, r) >= (30 * DataPointScore(Len(rows))) \div 100
    BY <2>1, ConfidenceIs DEF r
  <2> DEFINE v == OnChainVolatility(rows)
  <2>6. v = [volatility |-> Volatility(r, OnChainPeriods),
             confidence |-> Confidence(rows, r), dataPoints |-> Len(rows)]
    BY <1>2 DEF OnChainVolatility, r
  <2>7. /\ v.volatility = Volatility(r, OnChainPeriods)
        /\ v.confidence = Confidence(rows, r) /\ v.dataPoints = Len(rows)
    BY <2>6
  <2> HIDE DEF v
  <2>8. Shortfall(v) \in Nat /\ 4 * ((30 * DataPointScore(Len(rows))) \div 100) >= -Shortfall(v)
    BY <2>1, <2>7, ShortfallIs
  <2>9. (30 * DataPointScore(Len(rows))) \div 100 \in Int
    <3>1. DataPointScore(Len(rows)) \in Int
      BY <2>1, PointsScore
    <3> QED BY <3>1
  <2>10. OnChainOK(v)
    BY <2>1, <2>4, <2>5, <2>7, <2>8, <2>9 DEF OnChainOK
  <2> QED
    BY <2>10 DEF v
<1> QED
  BY <1>1, <1>2

LEMMA WeightIs ==
  ASSUME NEW v, OnChainOK(v)
  PROVE  /\ Shortfall(v) \in Nat /\ CalculateWeight(v) \in Int
         /\ -Shortfall(v) <= CalculateWeight(v) /\ CalculateWeight(v) <= 700
         /\ v = NoOnChain => CalculateWeight(v) = 0
<1> DEFINE d == DataPointScore(v.dataPoints)
           factor == Lesser(Greater(0, d), 100)
<1>1. d \in Int /\ d <= 100 /\ (v = NoOnChain => d <= 0)
  <2>1. 0 <= MinPoints /\ (v = NoOnChain => v.dataPoints = 0)
    BY OracleOK DEF NoOnChain
  <2> QED BY <2>1, PointsScore DEF OnChainOK
<1>2. CalculateWeight(v) = Lesser(4 * v.confidence + 3 * factor, 700)
  BY DEF CalculateWeight
<1> HIDE DEF d
<1>3. factor \in 0..100 /\ (v = NoOnChain => factor = 0)
  BY <1>1 DEF Lesser, Greater
<1> HIDE DEF factor
<1>4. /\ v.confidence \in Int /\ 4 * v.confidence >= -Shortfall(v) /\ Shortfall(v) \in Nat
      /\ v = NoOnChain => v.confidence = 0
  BY ShortfallIs DEF OnChainOK, NoOnChain
<1> DEFINE x == 4 * v.confidence + 3 * factor
<1>5. x \in Int /\ x >= -Shortfall(v) /\ (v = NoOnChain => x = 0)
  BY <1>3, <1>4
<1> HIDE DEF x
<1>6. CalculateWeight(v) = Lesser(x, 700)
  BY <1>2 DEF x
<1> QED
  BY <1>4, <1>5, <1>6 DEF Lesser

Mixed(a, b, w) == a * w + b * (1000 - w)
Bracketed(x, a, b) == x >= 1000 * Lesser(a, b) /\ x <= 1000 * Greater(a, b)

LEMMA BetweenBoth ==
  ASSUME NEW a \in Nat, NEW b \in Nat, NEW w \in 0..1000
  PROVE  Bracketed(Mixed(a, b, w), a, b)
<1> DEFINE u == 1000 - w
<1>1. u \in Nat /\ w \in Nat /\ w + u = 1000
  OBVIOUS
<1> HIDE DEF u
<1>2. a * w \in Nat /\ a * u \in Nat /\ b * w \in Nat /\ b * u \in Nat
  BY <1>1
<1>3. a * w + a * u = 1000 * a /\ b * w + b * u = 1000 * b
  <2>1. a * w + a * u = a * (w + u) /\ b * w + b * u = b * (w + u)
    BY <1>1
  <2> QED BY <1>1, <2>1
<1>4. a <= b => a * w <= b * w /\ a * u <= b * u
  BY <1>1, TimesMonotonic
<1>5. b <= a => b * w <= a * w /\ b * u <= a * u
  BY <1>1, TimesMonotonic
<1> DEFINE aw == a * w
           au == a * u
           bw == b * w
           bu == b * u
<1> HIDE DEF aw, au, bw, bu
<1>6. /\ aw \in Nat /\ au \in Nat /\ bw \in Nat /\ bu \in Nat
      /\ aw + au = 1000 * a /\ bw + bu = 1000 * b
      /\ a <= b => aw <= bw /\ au <= bu
      /\ b <= a => bw <= aw /\ bu <= au
  BY <1>2, <1>3, <1>4, <1>5 DEF aw, au, bw, bu
<1>7. aw + bu \in Nat /\ aw + bu >= 1000 * Lesser(a, b) /\ aw + bu <= 1000 * Greater(a, b)
  BY <1>6 DEF Lesser, Greater
<1> QED
  BY <1>7 DEF aw, bu, u, Mixed, Bracketed

Rows == Seq(SnapshotRecord)

TableTo(rows, batch, f) ==
    f = [i \in 0..Len(batch) |->
            IF i = 0 THEN rows
            ELSE InsertAt(f[i - 1], Earlier(f[i - 1], batch[i].at) + 1, batch[i])]

LEMMA InsertIs ==
  ASSUME NEW rows \in Rows, NEW i \in 1..(Len(rows) + 1), NEW row \in SnapshotRecord
  PROVE  InsertAt(rows, i, row) \in Rows
<1>1. Len(rows) \in Nat
  BY DEF Rows
<1>2. SubSeq(rows, 1, i - 1) \in Rows /\ SubSeq(rows, i, Len(rows)) \in Rows /\ <<row>> \in Rows
  <2> DEFINE S == SnapshotRecord
  <2>1. rows \in Seq(S) /\ row \in S
    BY DEF Rows
  <2> HIDE DEF S
  <2>2. \A j, k \in Int : 1 <= j /\ k <= Len(rows) => SubSeq(rows, j, k) \in Seq(S)
    BY <2>1
  <2> QED BY <1>1, <2>1, <2>2 DEF Rows, S
<1> QED
  BY <1>2 DEF InsertAt, Rows

LEMMA PlaceIs ==
  ASSUME NEW rows \in Rows, NEW at
  PROVE  Earlier(rows, at) + 1 \in 1..(Len(rows) + 1)
<1> DEFINE S == {i \in DOMAIN rows : rows[i].at <= at}
<1>1. Len(rows) \in Nat /\ DOMAIN rows = 1..Len(rows)
  BY DEF Rows
<1>2. IsFiniteSet(1..Len(rows)) /\ Cardinality(1..Len(rows)) = Len(rows)
  <2>1. Len(rows) >= 1 \/ Len(rows) = 0
    BY <1>1
  <2>2. CASE Len(rows) >= 1
    BY <1>1, <2>2, FS_Interval
  <2>3. CASE Len(rows) = 0
    <3>1. 1..Len(rows) = {}
      BY <2>3
    <3> QED BY <2>3, <3>1, FS_EmptySet
  <2> QED BY <2>1, <2>2, <2>3
<1>3. S \subseteq 1..Len(rows)
  BY <1>1
<1>4. Cardinality(S) \in Nat /\ Cardinality(S) <= Len(rows)
  <2> HIDE DEF S
  <2> QED BY <1>2, <1>3, FS_Subset, FS_CardinalityType
<1>5. Earlier(rows, at) = Cardinality(S)
  BY DEF Earlier
<1> HIDE DEF S
<1> QED
  BY <1>1, <1>4, <1>5

LEMMA StoredIs ==
  ASSUME NEW rows \in Rows, NEW batch \in Rows
  PROVE  Stored(rows, batch) \in Rows
<1> DEFINE n == Len(batch)
           Place(s, i) == InsertAt(s, Earlier(s, batch[i].at) + 1, batch[i])
           step == [p \in (1..n) \X Rows |-> Place(p[2], p[1])]
<1>1. n \in Nat /\ \A i \in 1..n : batch[i] \in SnapshotRecord
  BY DEF Rows
<1> HIDE DEF n
<1>2. \A s \in Rows, i \in 1..n : Place(s, i) \in Rows
  <2> SUFFICES ASSUME NEW s \in Rows, NEW i \in 1..n PROVE Place(s, i) \in Rows
    OBVIOUS
  <2>1. Earlier(s, batch[i].at) + 1 \in 1..(Len(s) + 1) /\ batch[i] \in SnapshotRecord
    BY <1>1, PlaceIs
  <2> QED BY <2>1, InsertIs
<1> HIDE DEF Place
<1>3. step \in Steps(n, Rows)
  BY <1>2 DEF Steps
<1>4. PICK f : Solves(f, n, Rows, rows, step)
  <2> HIDE DEF step
  <2> QED BY <1>1, <1>3, RecursionExists
<1>5. f \in [0..n -> Rows] /\ f[0] = rows /\ \A i \in 1..n : f[i] = step[<<i, f[i - 1]>>]
  <2> HIDE DEF step
  <2> QED BY <1>4 DEF Solves
<1>6. /\ n \in 0..n /\ 0 \in 0..n /\ \A i \in 0..n : i = 0 \/ i \in 1..n
      /\ \A i \in 1..n : i - 1 \in 0..n /\ i \in 0..n /\ i # 0
  BY <1>1
<1>7. \A i \in 1..n : f[i] = Place(f[i - 1], i)
  BY <1>5, <1>6
<1>8. TableTo(rows, batch, f)
  <2>1. \A i \in 0..n : f[i] = IF i = 0 THEN rows ELSE Place(f[i - 1], i)
    BY <1>5, <1>6, <1>7
  <2>2. f = [i \in 0..n |-> f[i]]
    BY <1>5
  <2> QED BY <2>1, <2>2, Zenon DEF TableTo, Place, n
<1> DEFINE g == CHOOSE h : TableTo(rows, batch, h)
<1>9. Stored(rows, batch) = g[n]
  BY DEF Stored, TableTo, n
<1>10. TableTo(rows, batch, g)
  BY <1>8
<1> HIDE DEF g
<1>11. g = [i \in 0..n |-> IF i = 0 THEN rows ELSE Place(g[i - 1], i)]
  BY <1>10 DEF TableTo, n, Place
<1>12. \A i \in 0..n : g[i] = IF i = 0 THEN rows ELSE Place(g[i - 1], i)
  BY <1>11, Zenon
<1>13. Follows(g, n, f)
  <2>1. g = [i \in 0..n |-> g[i]]
    BY <1>11, <1>12, Zenon
  <2>2. g[0] = f[0] /\ \A i \in 1..n : g[i - 1] = f[i - 1] => g[i] = f[i]
    BY <1>5, <1>6, <1>7, <1>12
  <2> QED BY <2>1, <2>2 DEF Follows
<1>14. g = f
  <2> HIDE DEF step
  <2> QED BY <1>1, <1>4, <1>13, RecursionUnique
<1> QED
  BY <1>5, <1>6, <1>9, <1>14

HistoryTo(from, to, f) ==
    f = [i \in 0..Len(snapshots) |->
            IF i = 0 THEN <<>>
            ELSE IF snapshots[i].at \in from..to THEN Append(f[i - 1], snapshots[i])
            ELSE f[i - 1]]

LEMMA HistoryIs ==
  ASSUME snapshots \in Rows, NEW from, NEW to
  PROVE  GetPriceSnapshots(from, to) \in Rows
<1> DEFINE n == Len(snapshots)
           WithRow(s, i) == IF snapshots[i].at \in from..to THEN Append(s, snapshots[i]) ELSE s
           step == [p \in (1..n) \X Rows |-> WithRow(p[2], p[1])]
<1>1. n \in Nat /\ (\A i \in 1..n : snapshots[i] \in SnapshotRecord) /\ <<>> \in Rows
  BY DEF Rows
<1> HIDE DEF n
<1>2. \A s \in Rows, i \in 1..n : WithRow(s, i) \in Rows
  <2> DEFINE S == SnapshotRecord
  <2>1. \A s \in Seq(S), x \in S : Append(s, x) \in Seq(S)
    <3> HIDE DEF S
    <3> QED OBVIOUS
  <2> HIDE DEF S
  <2> QED BY <1>1, <2>1 DEF Rows, S
<1> HIDE DEF WithRow
<1>3. step \in Steps(n, Rows)
  BY <1>2 DEF Steps
<1>4. PICK f : Solves(f, n, Rows, <<>>, step)
  <2> HIDE DEF step
  <2> QED BY <1>1, <1>3, RecursionExists
<1>5. f \in [0..n -> Rows] /\ f[0] = <<>> /\ \A i \in 1..n : f[i] = step[<<i, f[i - 1]>>]
  <2> HIDE DEF step
  <2> QED BY <1>4 DEF Solves
<1>6. /\ n \in 0..n /\ 0 \in 0..n /\ \A i \in 0..n : i = 0 \/ i \in 1..n
      /\ \A i \in 1..n : i - 1 \in 0..n /\ i \in 0..n /\ i # 0
  BY <1>1
<1>7. \A i \in 1..n : f[i] = WithRow(f[i - 1], i)
  BY <1>5, <1>6
<1>8. HistoryTo(from, to, f)
  <2>1. \A i \in 0..n : f[i] = IF i = 0 THEN <<>> ELSE WithRow(f[i - 1], i)
    BY <1>5, <1>6, <1>7
  <2>2. f = [i \in 0..n |-> f[i]]
    BY <1>5
  <2> QED BY <2>1, <2>2, Zenon DEF HistoryTo, WithRow, n
<1> DEFINE g == CHOOSE h : HistoryTo(from, to, h)
<1>9. GetPriceSnapshots(from, to) = g[n]
  BY DEF GetPriceSnapshots, HistoryTo, n
<1>10. HistoryTo(from, to, g)
  BY <1>8
<1> HIDE DEF g
<1>11. g = [i \in 0..n |-> IF i = 0 THEN <<>> ELSE WithRow(g[i - 1], i)]
  BY <1>10 DEF HistoryTo, n, WithRow
<1>12. \A i \in 0..n : g[i] = IF i = 0 THEN <<>> ELSE WithRow(g[i - 1], i)
  BY <1>11, Zenon
<1>13. Follows(g, n, f)
  <2>1. g = [i \in 0..n |-> g[i]]
    BY <1>11, <1>12, Zenon
  <2>2. g[0] = f[0] /\ \A i \in 1..n : g[i - 1] = f[i - 1] => g[i] = f[i]
    BY <1>5, <1>6, <1>7, <1>12
  <2> QED BY <2>1, <2>2 DEF Follows
<1>14. g = f
  <2> HIDE DEF step
  <2> QED BY <1>1, <1>4, <1>13, RecursionUnique
<1> QED
  BY <1>5, <1>6, <1>9, <1>14

OracleSpec == OracleInit /\ now = 0 /\ [][OracleNext]_oracleVars

EstimateOK(e) ==
    /\ e = [asked |-> e.asked, onChain |-> e.onChain, tradFiVol |-> e.tradFiVol]
    /\ e.onChain # None => OnChainOK(e.onChain)
    /\ e.tradFiVol # None => e.tradFiVol \in Nat \cup {NaN}

(* The table has rows that a source can have given, and what a request has *)
(* by now are volatilities, with a confidence as few points allow.         *)
OracleInv ==
    /\ now \in Nat
    /\ snapshots \in Rows
    /\ backfill # None => backfill \in Rows
    /\ estimate # None => EstimateOK(estimate)

LEMMA OracleInitInv == OracleInit /\ now = 0 => OracleInv
  BY DEF OracleInit, OracleInv, Rows

LEMMA SnapshotIs ==
  ASSUME NEW price \in Nat, NEW at \in Nat, NEW c \in 0..100
  PROVE  Snapshot(price, at, c) \in SnapshotRecord
BY DEF Snapshot, SnapshotRecord

LEMMA SampleStep ==
  ASSUME OracleInv, NEW price \in LogPrices, NEW at \in 0..MaxTime, NEW c \in Confidences,
         Sample(price, at, c)
  PROVE  OracleInv'
<1> DEFINE row == Snapshot(price, at, c)
<1>1. row \in SnapshotRecord
  <2>1. price \in Nat /\ at \in Nat /\ c \in 0..100
    BY OracleOK, MaxTimeOK
  <2> QED BY <2>1, SnapshotIs
<1>2. PICK i \in Placements(row) : snapshots' = InsertAt(snapshots, i, row)
  BY DEF Sample, StorePriceSnapshot
<1> HIDE DEF row
<1>3. i \in 1..(Len(snapshots) + 1)
  BY DEF Placements
<1>4. snapshots' \in Rows
  BY <1>1, <1>2, <1>3, InsertIs DEF OracleInv
<1>5. UNCHANGED <<now, backfill, estimate>>
  BY DEF Sample
<1> QED
  BY <1>4, <1>5 DEF OracleInv, EstimateOK, OnChainOK

LEMMA BackfillStep ==
  ASSUME OracleInv,
         \/ \E prices \in DailyPrices \ {<<>>} : BackfillFetches(prices)
         \/ BackfillStores \/ BackfillFails
  PROVE  OracleInv'
<1>1. ASSUME NEW prices \in DailyPrices, BackfillFetches(prices) PROVE OracleInv'
  <2>1. PICK n \in 0..MaxDaily : prices \in [1..n -> LogPrices \ {0}]
    BY DEF DailyPrices
  <2>2. \A i \in 1..n : Snapshot(prices[i], i - 1, 100) \in SnapshotRecord
    <3> SUFFICES ASSUME NEW i \in 1..n PROVE Snapshot(prices[i], i - 1, 100) \in SnapshotRecord
      OBVIOUS
    <3>1. prices[i] \in LogPrices \ {0}
      BY <2>1
    <3>2. prices[i] \in Nat
      BY <3>1, OracleOK
    <3>3. n \in Nat
      BY OracleOK
    <3>4. i - 1 \in Nat
      BY <3>3
    <3>5. 100 \in 0..100
      OBVIOUS
    <3> QED BY <3>2, <3>4, <3>5, SnapshotIs
  <2>3. backfill' = [i \in 1..n |-> Snapshot(prices[i], i - 1, 100)]
    BY <1>1, <2>1 DEF BackfillFetches
  <2>4. backfill' \in Rows
    <3> DEFINE row == [i \in 1..n |-> Snapshot(prices[i], i - 1, 100)]
               S == SnapshotRecord
    <3>1. row \in [1..n -> S] /\ n \in Nat
      <4> HIDE DEF S
      <4> QED BY <2>2 DEF S
    <3> HIDE DEF row, S
    <3>2. row \in Seq(S)
      BY <3>1
    <3> QED BY <2>3, <3>2 DEF row, S, Rows
  <2> QED
    BY <1>1, <2>4 DEF BackfillFetches, OracleInv, EstimateOK, OnChainOK
<1>2. CASE BackfillStores
  <2>1. backfill \in Rows /\ snapshots \in Rows
    BY <1>2 DEF BackfillStores, OracleInv
  <2>2. \A j, k \in Nat : 1 <= j /\ k <= Len(backfill) => SubSeq(backfill, j, k) \in Rows
    <3> DEFINE S == SnapshotRecord
    <3>1. backfill \in Seq(S)
      BY <2>1 DEF Rows
    <3> HIDE DEF S
    <3> QED BY <3>1 DEF Rows, S
  <2> DEFINE end == Lesser(BatchSize, Len(backfill))
  <2>3. SubSeq(backfill, 1, end) \in Rows /\ SubSeq(backfill, end + 1, Len(backfill)) \in Rows
    <3>1. Len(backfill) \in Nat
      BY <2>1, LenProperties DEF Rows
    <3>2. end \in Nat /\ end <= Len(backfill)
      BY <3>1, OracleOK DEF Lesser
    <3>3. 1 \in Nat /\ end + 1 \in Nat /\ 1 <= end + 1 /\ Len(backfill) <= Len(backfill)
      BY <3>1, <3>2
    <3> HIDE DEF end
    <3> QED BY <2>2, <3>1, <3>2, <3>3
  <2>4. snapshots' \in Rows
    BY <1>2, <2>1, <2>3, StoredIs DEF BackfillStores
  <2> QED
    BY <1>2, <2>3, <2>4 DEF BackfillStores, OracleInv, EstimateOK, OnChainOK
<1>3. CASE BackfillFails
  BY <1>3 DEF BackfillFails, OracleInv, EstimateOK, OnChainOK
<1> QED
  BY <1>1, <1>2, <1>3

LEMMA TradFiIs ==
  ASSUME NEW prices \in DailyPrices, Len(prices) >= 2
  PROVE  Volatility(LogReturns(prices), 252) \in Nat \cup {NaN}
<1>1. PICK n \in 0..MaxDaily : prices \in [1..n -> LogPrices \ {0}]
  BY DEF DailyPrices
<1>2. n \in Nat /\ \A i \in 1..n : prices[i] \in Nat
  <2>1. n \in Nat /\ LogPrices \subseteq Nat
    BY OracleOK
  <2> QED BY <1>1, <2>1
<1>3. Len(prices) = n
  <2>1. prices \in Seq(Nat) /\ DOMAIN prices = 1..n
    BY <1>1, <1>2
  <2> QED BY <1>2, <2>1
<1> DEFINE r == LogReturns(prices)
<1>4. r = [i \in 1..(n - 1) |-> prices[i + 1] - prices[i]]
  BY <1>3 DEF LogReturns
<1> HIDE DEF r
<1>5. r \in Seq(Int) /\ Len(r) = n - 1
  <2>1. \A i \in 1..(n - 1) : prices[i + 1] - prices[i] \in Int
    BY <1>2
  <2>2. n - 1 \in Nat
    BY <1>2, <1>3
  <2> QED BY <1>4, <2>1, <2>2
<1> QED
  BY <1>2, <1>3, <1>5, VolatilityIs DEF r

LEMMA EstimateStep ==
  ASSUME OracleInv, AskPricing \/ OnChainAnswers \/ AnswerTaken
                      \/ \E prices \in DailyPrices : TradFiAnswers(prices)
  PROVE  OracleInv'
<1>1. CASE AskPricing
  <2>1. estimate' = [asked |-> now, onChain |-> None, tradFiVol |-> None]
    BY <1>1 DEF AskPricing
  <2>2. EstimateOK(estimate')
    BY <2>1 DEF EstimateOK
  <2>3. UNCHANGED <<now, snapshots, backfill>>
    BY <1>1 DEF AskPricing
  <2> QED BY <2>2, <2>3 DEF OracleInv, EstimateOK, OnChainOK
<1>2. CASE OnChainAnswers
  <2> DEFINE rows == GetPriceSnapshots(estimate.asked - Lookback30, estimate.asked)
  <2>1. PICK v \in {NoOnChain, OnChainVolatility(rows)} : estimate' = [estimate EXCEPT !.onChain = v]
    BY <1>2 DEF OnChainAnswers
  <2>2. rows \in Rows
    BY HistoryIs DEF OracleInv
  <2>3. OnChainOK(v)
    <3>1. OnChainOK(OnChainVolatility(rows))
      BY <2>2, OnChainIs DEF OracleInv, Rows
    <3> QED BY <3>1, NoOnChainOK
  <2>4. EstimateOK(estimate) /\ UNCHANGED <<now, snapshots, backfill>>
    BY <1>2 DEF OnChainAnswers, OracleInv
  <2>5. EstimateOK(estimate')
    BY <2>1, <2>3, <2>4 DEF EstimateOK
  <2> QED BY <2>4, <2>5 DEF OracleInv, EstimateOK, OnChainOK
<1>3. CASE AnswerTaken
  BY <1>3 DEF AnswerTaken, OracleInv, EstimateOK, OnChainOK
<1>4. ASSUME NEW prices \in DailyPrices, TradFiAnswers(prices) PROVE OracleInv'
  <2>1. EstimateOK(estimate) /\ UNCHANGED <<now, snapshots, backfill>>
    BY <1>4 DEF TradFiAnswers, OracleInv
  <2>2. CASE Len(prices) < 2
    BY <1>4, <2>1, <2>2 DEF TradFiAnswers, OracleInv
  <2>3. CASE ~(Len(prices) < 2)
    <3> DEFINE v == Volatility(LogReturns(prices), 252)
    <3>1. Len(prices) >= 2
      <4>1. PICK n \in 0..MaxDaily : prices \in [1..n -> LogPrices \ {0}]
        BY DEF DailyPrices
      <4>2. prices \in Seq(LogPrices \ {0})
        BY <4>1
      <4> QED BY <2>3, <4>2
    <3>2. v \in Nat \cup {NaN}
      BY <3>1, TradFiIs
    <3>3. estimate' = [estimate EXCEPT !.tradFiVol = v]
      BY <1>4, <2>3 DEF TradFiAnswers
    <3> HIDE DEF v
    <3>4. EstimateOK(estimate')
      BY <2>1, <3>2, <3>3 DEF EstimateOK
    <3> QED BY <2>1, <3>4 DEF OracleInv, EstimateOK, OnChainOK
  <2> QED BY <2>2, <2>3
<1> QED
  BY <1>1, <1>2, <1>3, <1>4

LEMMA OracleNextInv == OracleInv /\ [OracleNext]_oracleVars => OracleInv'
<1> SUFFICES ASSUME OracleInv, [OracleNext]_oracleVars PROVE OracleInv'
  OBVIOUS
<1>1. ASSUME NEW price \in LogPrices, NEW at \in 0..MaxTime, NEW c \in Confidences,
             Sample(price, at, c)
      PROVE  OracleInv'
  BY <1>1, SampleStep
<1>2. CASE OracleTick
  BY <1>2 DEF OracleTick, Tick, OracleInv, EstimateOK, OnChainOK
<1>3. CASE UNCHANGED oracleVars
  BY <1>3 DEF oracleVars, OracleInv, EstimateOK, OnChainOK
<1> QED
  BY <1>1, <1>2, <1>3, BackfillStep, EstimateStep DEF OracleNext

(* Below zero the weight takes the volatility beyond the market's by as    *)
(* much of the distance.                                                   *)
Within(x, a, b, d) ==
    /\ x >= 1000 * b - d * Greater(a - b, b - a)
    /\ x <= 1000 * b + d * Greater(a - b, b - a)

LEMMA BeyondMarket ==
  ASSUME NEW a \in Nat, NEW b \in Nat, NEW d \in Nat, NEW w \in Int, -d <= w, w <= 0
  PROVE  Within(Mixed(a, b, w), a, b, d)
<1> DEFINE u == -w
           x == a - b
           m == Greater(a - b, b - a)
<1>1. u \in Nat /\ u <= d /\ x \in Int /\ m \in Nat /\ (x = m \/ x = -m)
  BY DEF Greater
<1>2. a * w + b * (1000 - w) = 1000 * b - u * x
  <2>1. a * w = -(u * a) /\ b * (1000 - w) = 1000 * b + u * b /\ u * x = u * a - u * b
    OBVIOUS
  <2>2. u * a \in Int /\ u * b \in Int
    BY <1>1
  <2> HIDE DEF u, x
  <2> QED BY <2>1, <2>2
<1> HIDE DEF u, x, m
<1>3. u * m <= d * m /\ u * m \in Nat /\ d * m \in Nat
  BY <1>1, TimesMonotonic
<1>4. u * x = u * m \/ u * x = -(u * m)
  BY <1>1
<1> QED
  BY <1>2, <1>3, <1>4 DEF m, Within, Mixed

LEMMA SoundEstimate == OracleInv => EstimateSound
<1> SUFFICES ASSUME OracleInv, Answered,
                    NaN \notin {estimate.onChain.volatility, estimate.tradFiVol}
             PROVE  EstimateSound
  BY DEF EstimateSound
<1> DEFINE v == estimate.onChain
           a == v.volatility
           b == estimate.tradFiVol
           w == CalculateWeight(v)
           reach == Shortfall(v) * Greater(a - b, b - a)
<1>1. OnChainOK(v) /\ a \in Nat /\ b \in Nat
  BY DEF Answered, OracleInv, EstimateOK, OnChainOK
<1>2. /\ Shortfall(v) \in Nat /\ w \in Int /\ -Shortfall(v) <= w /\ w <= 700
      /\ v = NoOnChain => w = 0
  BY <1>1, WeightIs
<1>3. FinalVolatility = a * w + b * (1000 - w)
  BY DEF FinalVolatility
<1>4. v = NoOnChain => RiskAdjustment = 15
  <2> SUFFICES ASSUME v = NoOnChain PROVE RiskAdjustment = 15
    OBVIOUS
  <2>1. a = 0
    BY DEF NoOnChain
  <2>2. Recommendation = "warning"
    BY <1>1, <2>1 DEF Recommendation, Greater, NaN
  <2> QED BY <2>2 DEF RiskAdjustment
<1> HIDE DEF v, a, b, w
<1>5. \/ FinalVolatility >= 1000 * Lesser(a, b) /\ FinalVolatility <= 1000 * Greater(a, b)
      \/ FinalVolatility >= 1000 * b - reach /\ FinalVolatility <= 1000 * b + reach
  <2>1. CASE w >= 0
    <3>1. w \in 0..1000
      BY <1>2, <2>1
    <3>2. FinalVolatility = Mixed(a, b, w)
      BY <1>3 DEF Mixed
    <3>3. Bracketed(Mixed(a, b, w), a, b)
      BY <1>1, <3>1, BetweenBoth
    <3> QED BY <3>2, <3>3 DEF Bracketed
  <2>2. CASE w <= 0
    <3> DEFINE d == Shortfall(v)
    <3>1. d \in Nat /\ -d <= w /\ w \in Int /\ w <= 0
      BY <1>2, <2>2
    <3> HIDE DEF d
    <3>2. Within(Mixed(a, b, w), a, b, d)
      BY <1>1, <3>1, BeyondMarket
    <3> QED BY <1>3, <3>2 DEF d, Within, Mixed
  <2> QED BY <1>2, <2>1, <2>2
<1>6. v = NoOnChain => FinalVolatility = 1000 * b
  <2> SUFFICES ASSUME v = NoOnChain PROVE FinalVolatility = 1000 * b
    OBVIOUS
  <2>1. w = 0
    BY <1>2
  <2> QED BY <1>1, <1>3, <2>1
<1> QED
  BY <1>4, <1>5, <1>6 DEF EstimateSound, v, a, b

(* The oracle (volatility-tracker.ts, hybrid-volatility.ts): a volatility  *)
(* lies between its two sources, or beyond the market's by no more than    *)
(* missing points take from the weight, whatever the table holds, with any *)
(* confidences, and whichever source fails.                                *)
THEOREM EstimatesAlwaysSound == OracleSpec => []EstimateSound
  BY OracleInitInv, OracleNextInv, SoundEstimate, PTL DEF OracleSpec
================================================================================
