------------------------------- MODULE PriceRoute -------------------------------
(***************************************************************************)
(* GET /api/price and its caches: one per mint and interval, the OAuth     *)
(* token of the data service, and the file with NVDA's volatility that     *)
(* /api/nvda-volatility shares.  Requests overlap at every await.  A       *)
(* price or a volatility is the time it was read at.                       *)
(***************************************************************************)
EXTENDS Clock

CONSTANTS
    Calls,                   \* bound: requests under way at a time
    CacheKeys,               \* a mint and an interval
    CacheTtl,                \* CACHE_TTL_BY_INTERVAL
    NvdaTtl,                 \* CACHE_DURATION_MS
    TokenLife, TokenBuffer   \* expires_in and the 60 s before it

ASSUME PriceOK ==
    /\ CacheTtl \in [CacheKeys -> Nat]
    /\ {NvdaTtl, TokenLife, TokenBuffer} \subseteq Nat
    /\ None \notin CacheKeys \cup {"token", "answer", "fetch"}

VARIABLES
    priceCache,     \* None or [timestamp, price]
    nvdaCache,      \* None or [fetchedAt, volatility]
    accessToken,    \* None or "token"
    tokenExpiry,
    call,           \* None or a request
    answered        \* history: the last answer that holds a price, or None

tokenVars == <<accessToken, tokenExpiry>>
priceVars == <<now, priceCache, nvdaCache, tokenVars, call, answered>>

PriceInit ==
    /\ priceCache = [k \in CacheKeys |-> None]
    /\ nvdaCache = None
    /\ accessToken = None /\ tokenExpiry = 0
    /\ call = [c \in Calls |-> None]
    /\ answered = None

(* A request: its key (None for the volatility route), when it began and   *)
(* what was cached then, the step and what it awaits, and the price read.  *)
NewCall(k, cached, step) ==
    [key |-> k, began |-> now, cached |-> cached, step |-> step, awaits |-> None, price |-> None]

Awaiting(c, step, awaits) == call[c] # None /\ call[c].step = step /\ call[c].awaits = awaits

Reply(c) == call' = [call EXCEPT ![c] = None]

(* An answer to a request that began at a time, marked stale or not. *)
Answer(k, began, price, stale) ==
    answered' = [key |-> k, began |-> began, price |-> price, stale |-> stale]

Queries == {"trades", "volume", "supply"}

AfterQuery(step) ==
    CASE step = "trades" -> "volume" [] step = "volume" -> "supply" [] step = "supply" -> "nvda"

-----------------------------------------------------------------------------
Fresh(k) == priceCache[k] # None /\ now - priceCache[k].timestamp < CacheTtl[k]

(* GET /api/price: a fresh entry is the answer, ... *)
GetCached(k) ==
    /\ Fresh(k)
    /\ Answer(k, now, priceCache[k].price, FALSE)
    /\ UNCHANGED <<now, priceCache, nvdaCache, tokenVars, call>>

(* ... or else the data service is asked. *)
Get(c, k) ==
    /\ call[c] = None
    /\ ~Fresh(k)
    /\ call' = [call EXCEPT ![c] = NewCall(k, priceCache[k], "trades")]
    /\ UNCHANGED <<now, priceCache, nvdaCache, tokenVars, answered>>

(* GET or POST /api/nvda-volatility *)
GetVolatility(c, forceRefresh) ==
    /\ call[c] = None
    /\ call' = [call EXCEPT ![c] =
           [NewCall(None, None, "nvda") EXCEPT !.awaits = IF forceRefresh THEN "fetch" ELSE None]]
    /\ UNCHANGED <<now, priceCache, nvdaCache, tokenVars, answered>>

-----------------------------------------------------------------------------
(* fetchBitquery and getAccessToken, before each of the three queries *)

TokenUsable == accessToken # None /\ now < tokenExpiry - TokenBuffer

Query(c) ==
    /\ call[c] # None /\ call[c].step \in Queries /\ call[c].awaits = None
    /\ call' = [call EXCEPT ![c].awaits = IF TokenUsable THEN "answer" ELSE "token"]
    /\ UNCHANGED <<now, priceCache, nvdaCache, tokenVars, answered>>

(* The token is kept for all, its lifetime counted from now, however long  *)
(* its answer took; and the query is sent with it.                         *)
TokenArrives(c) ==
    /\ call[c] # None /\ call[c].awaits = "token"
    /\ accessToken' = "token" /\ tokenExpiry' = now + TokenLife
    /\ call' = [call EXCEPT ![c].awaits = "answer"]
    /\ UNCHANGED <<now, priceCache, nvdaCache, answered>>

QueryAnswered(c) ==
    LET r == call[c]
    IN  /\ r # None /\ r.step \in Queries /\ r.awaits = "answer"
        /\ call' = [call EXCEPT ![c] =
               [r EXCEPT !.awaits = None, !.step = AfterQuery(r.step),
                         !.price = IF r.step = "trades" THEN now ELSE r.price]]
        /\ UNCHANGED <<now, priceCache, nvdaCache, tokenVars, answered>>

(* The trades cannot be had, or the token for them: the answer is what was *)
(* cached when the request began, marked as stale, or an error.            *)
TradesFail(c) ==
    LET r == call[c]
    IN  /\ r # None /\ r.step = "trades" /\ r.awaits \in {"token", "answer"}
        /\ Reply(c)
        /\ IF r.cached = None THEN UNCHANGED answered
           ELSE Answer(r.key, r.began, r.cached.price, TRUE)
        /\ UNCHANGED <<now, priceCache, nvdaCache, tokenVars>>

(* The volume and the supply it can do without. *)
OtherQueryFails(c) ==
    LET r == call[c]
    IN  /\ r # None /\ r.step \in {"volume", "supply"} /\ r.awaits \in {"token", "answer"}
        /\ call' = [call EXCEPT ![c] = [r EXCEPT !.awaits = None, !.step = AfterQuery(@)]]
        /\ UNCHANGED <<now, priceCache, nvdaCache, tokenVars, answered>>

(* There are no trades: an error, and the cache is not asked. *)
NoTrades(c) ==
    /\ Awaiting(c, "trades", "answer")
    /\ Reply(c)
    /\ UNCHANGED <<now, priceCache, nvdaCache, tokenVars, answered>>

-----------------------------------------------------------------------------
NvdaFresh == nvdaCache # None /\ now - nvdaCache.fetchedAt < NvdaTtl

CachedUnderNow(c) == now            \* mutant: the cache is stamped when it is written

(* The time the answer is cached under. *)
CachedUnder(c) == call[c].began

Finish(c) ==
    LET r == call[c]
    IN  /\ Reply(c)
        /\ IF r.key = None THEN UNCHANGED <<priceCache, answered>>
           ELSE /\ Answer(r.key, r.began, r.price, FALSE)
                /\ priceCache' = [priceCache EXCEPT ![r.key] =
                       [timestamp |-> CachedUnder(c), price |-> r.price]]

(* getNVDAVolatility: from the file when it is valid, or else by a fetch.  *)
NvdaCached(c) ==
    /\ Awaiting(c, "nvda", None)
    /\ IF NvdaFresh
       THEN Finish(c)
       ELSE call' = [call EXCEPT ![c].awaits = "fetch"] /\ UNCHANGED <<priceCache, answered>>
    /\ UNCHANGED <<now, nvdaCache, tokenVars>>

(* It fails, or the file cannot be written: then an old one, or a default, *)
(* or what was fetched will do.                                            *)
NvdaFetched(c, written) ==
    /\ Awaiting(c, "nvda", "fetch")
    /\ nvdaCache' = IF written THEN [fetchedAt |-> now] ELSE nvdaCache
    /\ Finish(c)
    /\ UNCHANGED <<now, tokenVars>>

(* A new instance of the server has the file and nothing else. *)
RouteRestart ==
    /\ priceCache' = [k \in CacheKeys |-> None]
    /\ accessToken' = None /\ tokenExpiry' = 0
    /\ call' = [c \in Calls |-> None]
    /\ UNCHANGED <<now, nvdaCache, answered>>

PriceTick == Tick /\ UNCHANGED <<priceCache, nvdaCache, tokenVars, call, answered>>

PriceNext ==
    \/ \E k \in CacheKeys : GetCached(k) \/ \E c \in Calls : Get(c, k)
    \/ \E c \in Calls :
         \/ Query(c) \/ TokenArrives(c) \/ QueryAnswered(c)
         \/ TradesFail(c) \/ OtherQueryFails(c) \/ NoTrades(c)
         \/ NvdaCached(c)
         \/ \E b \in BOOLEAN : GetVolatility(c, b) \/ NvdaFetched(c, b)
    \/ RouteRestart
    \/ PriceTick

-----------------------------------------------------------------------------
(* An answer that is not marked as stale holds a price read since the      *)
(* request began, or less than the entry's lifetime before: though the     *)
(* fetch that cached it awaited four services after it read the price, and *)
(* slower fetches write over faster ones.  Where the trades cannot be had, *)
(* the answer may be of any age, and says so.                              *)
OnlyMarkedStale ==
    answered # None /\ ~answered.stale =>
        \/ answered.price >= answered.began
        \/ answered.began - answered.price < CacheTtl[answered.key]
=============================================================================
