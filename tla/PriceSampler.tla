----------------------------- MODULE PriceSampler -----------------------------
(***************************************************************************)
(* PriceSamplerService (packages/oracle/src/price-sampler.ts): an interval *)
(* for each source of an asset's price, and the functions that stop them.  *)
(***************************************************************************)
EXTENDS Integers, Null

CONSTANTS Assets, Feeds,   \* Feeds[a]: the sources configured for an asset
          Intervals        \* bound: timers ever made

Keys == Assets \X {"pyth", "yahoo"}
Timer == [key : Keys, runs : BOOLEAN]

ASSUME FeedsOK ==
    /\ Feeds \in [Assets -> SUBSET {"pyth", "yahoo"}]
    /\ None \notin Intervals /\ None \notin Timer

VARIABLES
    interval,        \* None, or a timer: [key, runs]
    starting,        \* startSampling before its await returns: its Pyth timer
    stopFunctions,   \* None or the timer that a key's function clears
    reading,         \* timers whose read of a price is under way
    stored,          \* the timers that have stored a price
    replaced         \* history: timers whose function was overwritten

samplerVars == <<interval, starting, stopFunctions, reading, stored, replaced>>

SamplerInit ==
    /\ interval = [i \in Intervals |-> None]
    /\ starting = [a \in Assets |-> {}]
    /\ stopFunctions = [k \in Keys |-> None]
    /\ reading = {} /\ stored = {} /\ replaced = {}

Runs(i) == interval[i] # None /\ interval[i].runs

SetInterval(i, k) == interval[i] = None /\ interval' = [interval EXCEPT ![i] = [key |-> k, runs |-> TRUE]]

SetStop(k, i) ==
    /\ stopFunctions' = [stopFunctions EXCEPT ![k] = i]
    /\ replaced' = replaced \cup ({stopFunctions[k]} \ {None})

(* startSampling, of an asset without a Pyth feed, or after the feed's. *)
StartYahoo(a, i) == SetInterval(i, <<a, "yahoo">>) /\ SetStop(<<a, "yahoo">>, i)

(* Up to the await: the timer runs and nothing can stop it yet. *)
StartPyth(a, i) ==
    /\ "pyth" \in Feeds[a]
    /\ SetInterval(i, <<a, "pyth">>)
    /\ starting' = [starting EXCEPT ![a] = @ \cup {i}]
    /\ UNCHANGED <<stopFunctions, reading, stored, replaced>>

StartWithoutPyth(a, i) ==
    /\ Feeds[a] = {"yahoo"}
    /\ StartYahoo(a, i)
    /\ UNCHANGED <<starting, reading, stored>>

(* After the await, in a task of its own; then the other source is begun. *)
PythStarted(a, i, j) ==
    /\ i \in starting[a]
    /\ starting' = [starting EXCEPT ![a] = @ \ {i}]
    /\ LET pyth == <<a, "pyth">>   yahoo == <<a, "yahoo">>
           both == "yahoo" \in Feeds[a]
       IN  /\ IF both THEN SetInterval(j, yahoo) ELSE UNCHANGED interval
           /\ stopFunctions' = [k \in Keys |-> IF k = pyth THEN i
                                  ELSE IF k = yahoo /\ both THEN j ELSE stopFunctions[k]]
           /\ replaced' = replaced \cup
                  ({stopFunctions[k] : k \in IF both THEN {pyth, yahoo} ELSE {pyth}} \ {None})
    /\ UNCHANGED <<reading, stored>>

Stop(keys) ==
    LET stopped == {stopFunctions[k] : k \in keys}
    IN  /\ interval' = [i \in Intervals |->
               IF i \in stopped THEN [interval[i] EXCEPT !.runs = FALSE] ELSE interval[i]]
        /\ stopFunctions' = [k \in Keys |-> IF k \in keys THEN None ELSE stopFunctions[k]]
        /\ UNCHANGED <<starting, reading, stored, replaced>>

StopForgets(a) ==       \* mutant: the functions are dropped before they are called
    /\ stopFunctions' = [k \in Keys |-> IF k[1] = a THEN None ELSE stopFunctions[k]]
    /\ UNCHANGED <<interval, starting, reading, stored, replaced>>

StopSampling(a) == Stop({a} \X {"pyth", "yahoo"})

StopAll == Stop(Keys)

(* A timer fires; the price, when there is one, is stored after the read,  *)
(* whether the timer runs by then or not.                                  *)
Fires(i) ==
    /\ Runs(i) /\ i \notin reading
    /\ reading' = reading \cup {i}
    /\ UNCHANGED <<interval, starting, stopFunctions, stored, replaced>>

Sampled(i, price) ==
    /\ i \in reading
    /\ reading' = reading \ {i}
    /\ stored' = IF price THEN stored \cup {i} ELSE stored
    /\ UNCHANGED <<interval, starting, stopFunctions, replaced>>

SamplerNext ==
    \/ \E a \in Assets :
         \/ StopSampling(a)
         \/ \E i \in Intervals :
              \/ StartPyth(a, i) \/ StartWithoutPyth(a, i)
              \/ \E j \in Intervals : PythStarted(a, i, j)
    \/ StopAll
    \/ \E i \in Intervals : Fires(i) \/ \E price \in BOOLEAN : Sampled(i, price)

-----------------------------------------------------------------------------
(* Every timer that runs can be stopped, is being started, or is one whose *)
(* asset was started again before it was stopped: stopping an asset while  *)
(* it is started, or while a price is read, loses none.                    *)
TimersCanStop ==
    \A i \in Intervals : Runs(i) =>
        \/ stopFunctions[interval[i].key] = i
        \/ \E a \in Assets : i \in starting[a]
        \/ i \in replaced
=============================================================================
