------------------------------ MODULE OptionsMath ------------------------------
(***************************************************************************)
(* The price of an option from a volatility, and a volatility back from a  *)
(* price: app/lib/options-math.ts, and the search of the SDK               *)
(* (packages/sdk/src/utils/pricing.ts).  Volatilities are hundredths, so   *)
(* that between two neighbours there is none.  What Black and Scholes make *)
(* of an option before it expires is a table of prices, one for each       *)
(* volatility; all that counts is that more volatility is never worth      *)
(* less.                                                                   *)
(***************************************************************************)
EXTENDS Integers, Sequences, FiniteSetsExt, Null

CONSTANTS
    Options,                     \* what is priced, each with its terms and prices:
    Terms,                       \* [type, days, strike (in % of the spot), distance]
    Value,                       \* the price at each volatility of 0..TopVol
    TopVol,                      \* no option is worth more above it
    GuessScale,                  \* of an option's first guess, per unit of its price
    LowVol, HighVol,             \* of the bisection: 0.01% and 500%
    Tolerance,                   \* of a price
    Iterations, FewIterations,   \* 100 of the bisection and of the SDK, 50 of Newton's method
    SampleSizes, StdDevs,        \* of the prices a volatility is estimated from
    MarketPrices

Vols == 0..TopVol

(* The lowest and highest volatility an option is priced at.               *)
MinIV == 20
MaxIV == 300

(* How wide the bracket still is after so many halvings, at most.          *)
Width[n \in 0..Iterations] ==
    IF n = 0 THEN HighVol - LowVol ELSE Width[n - 1] - (Width[n - 1] \div 2)

ASSUME OptionsOK ==
    /\ TopVol \in Nat /\ LowVol \in Nat /\ HighVol \in Nat
    /\ LowVol <= MinIV /\ MaxIV < HighVol /\ HighVol <= TopVol
    /\ Tolerance \in Nat \ {0} /\ MarketPrices \subseteq Int
    /\ SampleSizes \subseteq Nat /\ StdDevs \subseteq Nat
    /\ Terms \in [Options -> [type : {"call", "put"}, days : Nat, strike : Nat, distance : Nat]]
    /\ Value \in [Options -> [Vols -> Nat]]
    /\ \A o \in Options : \A v, w \in Vols : v <= w => Value[o][v] <= Value[o][w]
    /\ GuessScale \in [Options -> Nat]

(* Enough iterations to narrow the bracket to nothing: 5 / 2^50.           *)
ASSUME IterationsOK ==
    /\ FewIterations \in Nat \ {0} /\ Iterations \in Nat /\ FewIterations <= Iterations
    /\ Width[FewIterations - 1] <= 1

VARIABLES
    option,     \* the option looked at, its price and the volatility that made it, or None
    search,     \* a search for the volatility under way, or None
    implied     \* what the last search ended with, or None

optionVars == <<option, search, implied>>

OptionsInit == option = None /\ search = None /\ implied = None

AtLeast(a, b) == IF a > b THEN a ELSE b
AtMost(a, b) == IF a < b THEN a ELSE b
Clamp(low, high, v) == AtLeast(low, AtMost(high, v))

-----------------------------------------------------------------------------
(* The deviation of a sample, made annual; without two returns there is    *)
(* none and 35% stand for it.                                              *)
HistoricalVolatility(size, stdDev) ==
    IF size < 3 THEN 35 ELSE Clamp(5, 300, stdDev)

(* Of the last 10, 20 and 60 returns and of all, the recent weigh more.    *)
SampleOf(window, size) == AtMost(size, window + 1)
Samples(size) == {SampleOf(w, size) : w \in {10, 20, 60, size}}

WeightedVolatility(size, stdDev) ==
    LET HV(window) == HistoricalVolatility(SampleOf(window, size), stdDev[SampleOf(window, size)])
    IN  (4 * HV(10) + 3 * HV(20) + 2 * HV(60) + HV(size)) \div 10

TermFactor(days) ==
    IF days < 1 THEN 150 ELSE IF days < 7 THEN 125 ELSE IF days < 30 THEN 110
    ELSE IF days > 90 THEN 95 ELSE 100

SkewSlope(terms) ==
    IF terms.type = "put" THEN IF terms.strike < 100 THEN 350 ELSE 80
    ELSE IF terms.strike > 100 THEN 200 ELSE 50

(* A floor under the base, more for what ends soon and for what is far     *)
(* from the money; distance is that of the logarithms.                     *)
AdjustIVForSmile(baseIV, terms) ==
    LET floor == AtLeast(baseIV, 30)
        term  == (floor * TermFactor(terms.days)) \div 100
        skew  == (term * (10000 + terms.distance * SkewSlope(terms))) \div 10000
    IN  Clamp(MinIV, MaxIV, skew)

(* priceOption, from prices of the past.                                   *)
PriceOption(o, size, stdDev) ==
    /\ search = None
    /\ LET iv == AdjustIVForSmile(WeightedVolatility(size, stdDev), Terms[o])
       IN  option' = [of |-> o, price |-> Value[o][iv], pricedAt |-> iv]
    /\ implied' = None
    /\ UNCHANGED search

(* A price seen on the market, whatever made it.                           *)
SeePrice(o, price) ==
    /\ search = None
    /\ option' = [of |-> o, price |-> price, pricedAt |-> None]
    /\ implied' = None
    /\ UNCHANGED search

-----------------------------------------------------------------------------
PriceAt(v) == Value[option.of][AtMost(v, TopVol)]
Error(v) == PriceAt(v) - option.price
Close(v) == Error(v) < Tolerance /\ -Error(v) < Tolerance
Intrinsic == Value[option.of][0]

(* The change of the price with the volatility, 0 where it is too small.   *)
VegaAt(v) == IF v < TopVol THEN PriceAt(v + 1) - PriceAt(v) ELSE 0

Search(method, sigma, most) ==
    [method |-> method, low |-> LowVol, high |-> HighVol, sigma |-> sigma, i |-> 0, most |-> most]

Tried(goesOn, sigma) == [goesOn EXCEPT !.sigma = sigma, !.i = @ + 1]

Ends(method, iv, converged) ==
    /\ implied' = [method |-> method, iv |-> iv, converged |-> converged]
    /\ search' = None

(* A price of nothing, or below what exercising gives, has no volatility.  *)
Bisect(most) ==
    IF option.price <= 0 \/ option.price < Intrinsic - Tolerance
    THEN Ends("bisection", 0, FALSE)
    ELSE search' = Search("bisection", 25, most) /\ UNCHANGED implied

ImpliedVolBisection ==
    /\ option # None /\ search = None
    /\ Bisect(Iterations)
    /\ UNCHANGED option

BracketKept(mid) ==                              \* mutant: the halves exchanged
    IF Error(mid) > 0 THEN [search EXCEPT !.low = mid] ELSE [search EXCEPT !.high = mid]

(* The half where the price is, or where it was too low or too high.       *)
Bracket(mid) ==
    IF Error(mid) > 0 THEN [search EXCEPT !.high = mid] ELSE [search EXCEPT !.low = mid]

BisectionStep ==
    /\ search # None /\ search.method = "bisection"
    /\ LET mid == (search.low + search.high) \div 2
       IN  IF search.i = search.most THEN Ends("bisection", search.sigma, FALSE)
           ELSE IF Close(mid) THEN Ends("bisection", mid, TRUE)
           ELSE search' = Tried(Bracket(mid), mid) /\ UNCHANGED implied
    /\ UNCHANGED option

(* The approximation of Brenner and Subrahmanyam, proportional to the      *)
(* price of the option.                                                    *)
FirstGuess == AtMost(GuessScale[option.of] * option.price, TopVol)

ImpliedVolNewtonRaphson ==
    /\ option # None /\ search = None
    /\ search' = Search("newton", Clamp(1, 200, FirstGuess), FewIterations)
    /\ UNCHANGED <<option, implied>>

NewtonUpdate(sigma, least) ==
    Tried(search, Clamp(least, HighVol, sigma - (Error(sigma) \div VegaAt(sigma))))

(* Where the price hardly changes, bisection takes over.                   *)
NewtonStep ==
    /\ search # None /\ search.method = "newton"
    /\ IF search.i = search.most THEN Ends("newton", search.sigma, FALSE)
       ELSE IF Close(search.sigma) THEN Ends("newton", search.sigma, TRUE)
       ELSE IF VegaAt(search.sigma) = 0 THEN Bisect(search.most)
       ELSE search' = NewtonUpdate(search.sigma, 0) /\ UNCHANGED implied
    /\ UNCHANGED option

(* The SDK's has no bounds for its first guess, and throws.                *)
CalculateImpliedVolatility ==
    /\ option # None /\ search = None
    /\ search' = Search("sdk", FirstGuess, Iterations)
    /\ UNCHANGED <<option, implied>>

SdkRefuses(sigma) == sigma <= 0

SdkStep ==
    /\ search # None /\ search.method = "sdk"
    /\ IF search.i = search.most \/ SdkRefuses(search.sigma) THEN Ends("sdk", None, FALSE)
       ELSE IF Close(search.sigma) THEN Ends("sdk", search.sigma, TRUE)
       ELSE IF VegaAt(search.sigma) = 0 THEN Ends("sdk", None, FALSE)
       ELSE search' = NewtonUpdate(search.sigma, 1) /\ UNCHANGED implied
    /\ UNCHANGED option

OptionsNext ==
    \/ \E o \in Options, size \in SampleSizes : \E stdDev \in [Samples(size) -> StdDevs] :
           PriceOption(o, size, stdDev)
    \/ \E o \in Options, price \in MarketPrices : SeePrice(o, price)
    \/ ImpliedVolBisection \/ BisectionStep
    \/ ImpliedVolNewtonRaphson \/ NewtonStep
    \/ CalculateImpliedVolatility \/ SdkStep

OptionsSpec == OptionsInit /\ [][OptionsNext]_optionVars

-----------------------------------------------------------------------------
(* A volatility that a search reports gives the price asked for; bisection *)
(* finds one whenever there is one in its bracket; and so every option     *)
(* that priceOption prices, for whatever past, expiry and strike, has its  *)
(* volatility found.                                                       *)
ImpliedVolFound ==
    implied # None =>
        /\ implied.converged => implied.iv \in Vols /\ Close(implied.iv)
        /\ implied.method = "bisection" /\ ~implied.converged /\ option.price > 0 =>
             /\ \A v \in LowVol..(HighVol - 1) : ~Close(v)
             /\ option.pricedAt = None
=============================================================================
