------------------------------ MODULE MCServices ------------------------------
(* The components that share nothing, checked in one run: the first state  *)
(* says which of them runs, and the others stay as they are.               *)
EXTENDS RateLimits, MintRegistry, SecurityMonitor, RfqClient, WalletActivity, PriceSampler,
        ApiRoutes, PriceRoute, Candles, VolatilityOracle, EventLog, VaultTiming, OptionsMath

VARIABLE component

MCFeeds == [a \in Assets |-> IF a = "both" THEN {"pyth", "yahoo"} ELSE {a}]
(* A call a little out of the money, a put worth nothing below some        *)
(* volatility, and a call of which little but the intrinsic value counts.  *)
MCOptions == {"call", "put", "deep"}
MCTerms == [call |-> [type |-> "call", days |-> 7, strike |-> 110, distance |-> 10],
            put  |-> [type |-> "put", days |-> 0, strike |-> 80, distance |-> 22],
            deep |-> [type |-> "call", days |-> 120, strike |-> 50, distance |-> 69]]
MCValue == [call |-> [v \in 0..600 |-> v],
            put  |-> [v \in 0..600 |-> IF v < 40 THEN 0 ELSE AtMost(3 * (v - 40), 630)],
            deep |-> [v \in 0..600 |-> 50 + v \div 3]]
MCGuessScale == [call |-> 2, put |-> 2, deep |-> 7]
MCMarketPrices == {-1, 0, 1, 49, 48, 120, 499, 500, 700}

MCCacheTtl == [k \in CacheKeys |-> 1]

(* The last time of each component that watches the clock. *)
Horizon == [http |-> 6, ws |-> 6, tier |-> 6, registry |-> 2, monitor |-> 2, activity |-> 0,
            routes |-> 3, price |-> 2, client |-> 0, sampler |-> 0, candles |-> 0,
            oracle |-> 1, log |-> 2, logs |-> 1, timing |-> 6, options |-> 0]

Init ==
    /\ component \in DOMAIN Horizon
    /\ now = 0
    /\ LimitsInit /\ MonitorInit /\ ClientInit /\ ActivityInit /\ SamplerInit /\ RoutesInit
    /\ PriceInit /\ RegistryInit /\ CandlesInit /\ OracleInit /\ LogInit /\ TimingInit
    /\ OptionsInit
    /\ component # "registry" => blacklistedMints = {} /\ \A m \in Mints : Entry(m) = None
    /\ component # "candles" => trades = <<>>
    /\ component # "timing" => ~isDemo
    /\ asked = IF component = "log" THEN <<"rfq-router">> ELSE <<"rfq-router", "keeper">>

Steps(cs, Step) == component \in cs /\ Step /\ now' <= Horizon[component]

KeepLimits == UNCHANGED <<requests, rateLimitMap, records, admitted, served, banned>>
KeepRegistry == UNCHANGED <<whitelistedMints, blacklistedMints, validation, answer, ban>>
KeepMonitor == UNCHANGED <<events, sourceEventCounts, patternDetection>>
KeepClient == UNCHANGED clientVars
KeepActivity == UNCHANGED <<chain, cache, publicKey, activities, hadShown, fetch, skipped>>
KeepSampler == UNCHANGED samplerVars
KeepRoutes == UNCHANGED <<code, cookie, subscribers, mintRequests, request, grants, minted>>
KeepPrice == UNCHANGED <<priceCache, nvdaCache, tokenVars, call, answered>>
KeepCandles == UNCHANGED candleVars
KeepOracle == UNCHANGED <<snapshots, backfill, estimate>>
KeepLogs ==
    UNCHANGED <<asked, eventLog, recorded, shownEvents, lastEventTime, refresh, onTheWay,
                unanswered>>
KeepTiming == UNCHANGED <<isDemo, vault, timing>>
KeepOptions == UNCHANGED optionVars

Limits == KeepRegistry /\ KeepMonitor /\ KeepClient /\ KeepActivity /\ KeepSampler
          /\ KeepRoutes /\ KeepPrice /\ KeepCandles /\ KeepOracle
Library == KeepLimits /\ KeepClient /\ KeepActivity /\ KeepSampler /\ KeepRoutes /\ KeepPrice
           /\ KeepCandles
Timeless == UNCHANGED now /\ KeepLimits /\ KeepRegistry /\ KeepMonitor /\ KeepActivity
            /\ KeepRoutes /\ KeepPrice /\ KeepOracle
App == KeepLimits /\ KeepRegistry /\ KeepMonitor /\ KeepClient /\ KeepSampler /\ KeepCandles
       /\ KeepOracle

ServiceNext ==
    /\ UNCHANGED component
    /\ \/ Steps({"http"}, HttpNext) /\ Limits
       \/ Steps({"ws"}, WsNext) /\ Limits
       \/ Steps({"tier"}, TierNext) /\ Limits
       \/ Steps({"http", "ws", "tier"}, LimitsTick) /\ Limits
       \/ Steps({"registry"}, RegistryNext) /\ Library /\ KeepMonitor /\ KeepOracle
       \/ Steps({"monitor"}, MonitorNext) /\ Library /\ KeepRegistry /\ KeepOracle
       \/ Steps({"oracle"}, OracleNext) /\ Library /\ KeepRegistry /\ KeepMonitor
       \/ component = "client" /\ ClientNext /\ Timeless /\ KeepSampler /\ KeepCandles
       \/ component = "sampler" /\ SamplerNext /\ Timeless /\ KeepClient /\ KeepCandles
       \/ component = "candles" /\ CandlesNext /\ Timeless /\ KeepClient /\ KeepSampler
       \/ Steps({"activity"}, ActivityNext) /\ App /\ KeepRoutes /\ KeepPrice
       \/ Steps({"routes"}, RoutesNext) /\ App /\ KeepActivity /\ KeepPrice
       \/ Steps({"price"}, PriceNext) /\ App /\ KeepActivity /\ KeepRoutes

(* The pages that only look; where the logs page asks both services, there *)
(* is one event less.                                                      *)
ViewNext ==
    /\ UNCHANGED component
    /\ App /\ KeepActivity /\ KeepRoutes /\ KeepPrice
    /\ \/ Steps({"log", "logs"}, LogNext) /\ KeepTiming
       \/ Steps({"timing"}, TimingNext) /\ KeepLogs
    /\ component = "logs" => recorded' < MaxRecorded

LibraryNext ==
    /\ UNCHANGED <<component, now>>
    /\ component = "options" /\ OptionsNext
    /\ App /\ KeepActivity /\ KeepRoutes /\ KeepPrice /\ KeepLogs /\ KeepTiming

Next ==
    \/ ServiceNext /\ KeepLogs /\ KeepTiming /\ KeepOptions
    \/ ViewNext /\ KeepOptions
    \/ LibraryNext

vars == <<component, limitVars, registryVars, monitorVars, clientVars, activityVars,
          samplerVars, routeVars, priceVars, candleVars, oracleVars, logVars, timingVars,
          optionVars>>

Spec == Init /\ [][Next]_vars /\ ClientFairness
=============================================================================
