------------------------------ MODULE RateLimits ------------------------------
(***************************************************************************)
(* The three rate limiters of infra/: the sliding window in front of the   *)
(* router's HTTP routes (security-middleware.js), the window per maker at  *)
(* its WebSocket (index.js), and the tiers of infra/security, whose fixed  *)
(* windows also block and are cleaned up by a timer (rate-limiter.ts).     *)
(***************************************************************************)
EXTENDS Clock, FiniteSets

CONSTANTS
    Clients,             \* addresses, API keys, makers
    Tiers,               \* names of the TieredRateLimiter's limiters
    Window, MaxRequests,
    ViolationThreshold,
    BlockDurations,      \* BLOCK_DURATION_MS, and those block() is called with
    CountBound,          \* bound: requests counted in one window
    MaxServed            \* bound: requests let through

WindowRecord == [count : Nat, windowStart : Nat]
RateLimitRecord == [count : Nat, windowStart : Nat, blockedUntil : Nat, violations : Nat]

ASSUME LimitsOK ==
    /\ None \notin WindowRecord \cup RateLimitRecord
    /\ Window \in Nat \ {0} /\ MaxRequests \in Nat
    /\ ViolationThreshold \in Nat /\ CountBound \in Nat /\ MaxServed \in Nat
    /\ BlockDurations \subseteq Nat /\ \A d \in BlockDurations : d >= Window
    /\ {"http", "ws"} \cap Tiers = {}

VARIABLES
    requests,      \* SimpleRateLimiter: times of the requests it remembers
    rateLimitMap,  \* checkRateLimit: None or [count, windowStart]
    records,       \* RateLimiter: None or a RateLimitRecord; 0 is "not blocked"
    admitted,      \* history: the requests each limiter let through
    served,        \* history: how many they were
    banned         \* history: until when a key was last blocked

limitVars == <<now, requests, rateLimitMap, records, admitted, served, banned>>

TierKeys == Tiers \X Clients
Limited == ({"http", "ws"} \X Clients) \cup TierKeys

LimitsInit ==
    /\ requests = [c \in Clients |-> {}]
    /\ rateLimitMap = [c \in Clients |-> None]
    /\ records = [k \in TierKeys |-> None]
    /\ admitted = [k \in Limited |-> {}]
    /\ served = 0
    /\ banned = [k \in TierKeys |-> 0]

Request == [at |-> now, serial |-> served]

Let(k) ==
    /\ served < MaxServed
    /\ admitted' = [admitted EXCEPT ![k] = @ \cup {Request}]
    /\ served' = served + 1

Refuse == UNCHANGED <<admitted, served>>

-----------------------------------------------------------------------------
(* SimpleRateLimiter.check, rateLimitMiddleware *)

Recent(times) == {t \in times : now - t.at < Window}

CheckHttp(c) ==
    LET recentRequests == Recent(requests[c])
    IN  /\ IF Cardinality(recentRequests) >= MaxRequests
           THEN Refuse /\ UNCHANGED requests
           ELSE /\ requests' = [requests EXCEPT ![c] = recentRequests \cup {Request}]
                /\ Let(<<"http", c>>)
        /\ UNCHANGED <<now, rateLimitMap, records, banned>>

CleanupHttp ==
    /\ requests' = [c \in Clients |-> Recent(requests[c])]
    /\ UNCHANGED <<now, rateLimitMap, records, admitted, served, banned>>

-----------------------------------------------------------------------------
(* checkRateLimit: refused requests count too. *)

CheckWs(c) ==
    LET old   == rateLimitMap[c]
        fresh == old = None \/ now - old.windowStart > Window
        count == IF fresh THEN 1 ELSE old.count + 1
    IN  /\ count <= CountBound
        /\ rateLimitMap' = [rateLimitMap EXCEPT ![c] =
               [count |-> count, windowStart |-> IF fresh THEN now ELSE old.windowStart]]
        /\ IF count <= MaxRequests THEN Let(<<"ws", c>>) ELSE Refuse
        /\ UNCHANGED <<now, requests, records, banned>>

-----------------------------------------------------------------------------
(* RateLimiter *)

Blocked(k) == records[k] # None /\ now < records[k].blockedUntil

(* A key whose block is over is unblocked; its violations stay. *)
Counted(k) ==
    LET old == records[k]
    IN  IF old = None \/ now - old.windowStart >= Window
        THEN [count |-> 1, windowStart |-> now, blockedUntil |-> 0,
              violations |-> IF old = None THEN 0 ELSE old.violations]
        ELSE [old EXCEPT !.count = @ + 1, !.blockedUntil = 0]

CheckTier(k) ==
    LET record == Counted(k)
        over   == record.count > MaxRequests
        strike == over /\ record.violations + 1 >= ViolationThreshold
    IN  /\ ~Blocked(k) /\ record.count <= CountBound
        /\ \E d \in BlockDurations :
             /\ records' = [records EXCEPT ![k] =
                    IF strike THEN [record EXCEPT !.violations = @ + 1, !.blockedUntil = now + d]
                    ELSE IF over THEN [record EXCEPT !.violations = @ + 1]
                    ELSE record]
             /\ banned' = IF strike THEN [banned EXCEPT ![k] = now + d] ELSE banned
        /\ IF over THEN Refuse ELSE Let(k)
        /\ UNCHANGED <<now, requests, rateLimitMap>>

(* blockAll, unblockAll: every tier's record of the client. *)
BlockAll(c, d) ==
    /\ records' = [k \in TierKeys |->
           IF k[2] # c THEN records[k]
           ELSE IF records[k] = None
                THEN [count |-> 0, windowStart |-> now, blockedUntil |-> now + d, violations |-> 0]
                ELSE [records[k] EXCEPT !.blockedUntil = now + d]]
    /\ banned' = [k \in TierKeys |-> IF k[2] = c THEN now + d ELSE banned[k]]
    /\ UNCHANGED <<now, requests, rateLimitMap, admitted, served>>

UnblockAll(c) ==
    /\ records' = [k \in TierKeys |->
           IF k[2] # c \/ records[k] = None THEN records[k]
           ELSE [records[k] EXCEPT !.blockedUntil = 0, !.violations = 0]]
    /\ banned' = [k \in TierKeys |-> IF k[2] = c THEN 0 ELSE banned[k]]
    /\ UNCHANGED <<now, requests, rateLimitMap, admitted, served>>

(* An operator's reset forgives the requests so far. *)
Reset(k) ==
    /\ records' = [records EXCEPT ![k] = None]
    /\ admitted' = [admitted EXCEPT ![k] = {}]
    /\ banned' = [banned EXCEPT ![k] = 0]
    /\ UNCHANGED <<now, requests, rateLimitMap, served>>

OutdatedWindow(k) ==                        \* mutant: whether it is blocked is not asked
    records[k] # None /\ now - records[k].windowStart >= Window * 2

(* Blocks that are over, and windows that are long over and not blocked. *)
Outdated(k) ==
    /\ records[k] # None
    /\ IF records[k].blockedUntil = 0
       THEN now - records[k].windowStart >= Window * 2
       ELSE now >= records[k].blockedUntil

(* Each tier's own timer. *)
CleanupTier(t) ==
    /\ records' = [k \in TierKeys |-> IF k[1] = t /\ Outdated(k) THEN None ELSE records[k]]
    /\ UNCHANGED <<now, requests, rateLimitMap, admitted, served, banned>>

-----------------------------------------------------------------------------
LimitsTick == Tick /\ UNCHANGED <<requests, rateLimitMap, records, admitted, served, banned>>

HttpNext == CleanupHttp \/ \E c \in Clients : CheckHttp(c)

WsNext == \E c \in Clients : CheckWs(c)

TierNext ==
    \/ \E k \in TierKeys : CheckTier(k) \/ Reset(k)
    \/ \E c \in Clients : UnblockAll(c) \/ \E d \in BlockDurations : BlockAll(c, d)
    \/ \E t \in Tiers : CleanupTier(t)

LimitsNext == HttpNext \/ WsNext \/ TierNext \/ LimitsTick

LimitsSpec == now = 0 /\ LimitsInit /\ [][LimitsNext]_limitVars

-----------------------------------------------------------------------------
(* The sliding window admits MaxRequests in any window; the fixed windows, *)
(* which forget at their ends, twice that; and a key that was blocked, by  *)
(* an operator or for its violations, gets nothing through until the time  *)
(* it was told: also when records are cleaned up, blocked, unblocked and   *)
(* made anew in between.                                                   *)
Allowance == [k \in Limited |-> IF k[1] = "http" THEN MaxRequests ELSE 2 * MaxRequests]

Bans == [k \in Limited |-> IF k \in TierKeys THEN banned[k] ELSE 0]

Admission == INSTANCE AdmissionLimit
                 WITH Keys <- Limited, Limit <- Allowance, banned <- Bans

LimitsKept == Admission!Spec
=============================================================================
