--------------------------- MODULE RateLimitsProofs ---------------------------
(***************************************************************************)
(* The limiters implement AdmissionLimit, for any windows, limits, block   *)
(* durations and clients.                                                  *)
(***************************************************************************)
EXTENDS RateLimits, FiniteSetTheorems, TLAPS

RequestSet == [at : Nat, serial : Nat]

(* Of the requests S admitted so far, those in the window that began at    *)
(* start, those of the Window before it, and those not yet out of a        *)
(* Window that ends at t.                                                  *)
Since(S, start) == {a \in S : a.at >= start}
Before(S, start) == {a \in S : a.at < start /\ start - a.at < Window}
Late(S, t) == {a \in S : t - a.at < Window}

(* What a fixed window that lasts for span and has counted to count knows. *)
Kept(S, start, count, span) ==
    /\ \A a \in S : a.at - start <= span
    /\ Cardinality(Since(S, start)) <= count
    /\ Cardinality(Since(S, start)) <= MaxRequests
    /\ Cardinality(Before(S, start)) <= MaxRequests

LTypeOK ==
    /\ now \in Nat /\ served \in Nat
    /\ requests \in [Clients -> SUBSET RequestSet]
    /\ \A c \in Clients : IsFiniteSet(requests[c])
    /\ rateLimitMap \in [Clients -> {None} \cup WindowRecord]
    /\ records \in [TierKeys -> {None} \cup RateLimitRecord]
    /\ admitted \in [Limited -> SUBSET RequestSet]
    /\ banned \in [TierKeys -> Nat]

(* Requests are admitted one after another. *)
Past(k) ==
    /\ IsFiniteSet(admitted[k])
    /\ \A a \in admitted[k] : a.at <= now /\ a.serial < served

(* The sliding window remembers whom it admitted lately. *)
HttpInv(c) == \A a \in admitted[<<"http", c>>] : now - a.at < Window => a \in requests[c]

WsInv(c) ==
    /\ rateLimitMap[c] = None => admitted[<<"ws", c>>] = {}
    /\ rateLimitMap[c] # None =>
          /\ rateLimitMap[c].windowStart <= now
          /\ Kept(admitted[<<"ws", c>>], rateLimitMap[c].windowStart, rateLimitMap[c].count, Window)

(* A tier without a record has admitted nothing lately; a block outlasts   *)
(* the requests admitted before it, and is the ban.                        *)
TierInv(k) ==
    /\ records[k] = None =>
          /\ \A a \in admitted[k] : now - a.at >= Window
          /\ banned[k] <= now
    /\ records[k] # None =>
          /\ records[k].windowStart <= now
          /\ Kept(admitted[k], records[k].windowStart, records[k].count, Window - 1)
          /\ records[k].blockedUntil # 0 =>
                \A a \in admitted[k] : records[k].blockedUntil - a.at >= Window
          /\ banned[k] <= now \/ banned[k] = records[k].blockedUntil

LInv ==
    /\ LTypeOK
    /\ \A k \in Limited : Past(k)
    /\ \A c \in Clients : HttpInv(c) /\ WsInv(c)
    /\ \A k \in TierKeys : TierInv(k)

-----------------------------------------------------------------------------
(* One window *)

LEMMA PartsFinite ==
    ASSUME NEW S, IsFiniteSet(S), NEW start
    PROVE  /\ IsFiniteSet(Since(S, start)) /\ Cardinality(Since(S, start)) \in Nat
           /\ IsFiniteSet(Before(S, start)) /\ Cardinality(Before(S, start)) \in Nat
<1>1. Since(S, start) \in SUBSET S /\ Before(S, start) \in SUBSET S
  BY DEF Since, Before
<1>2. IsFiniteSet(Since(S, start)) /\ IsFiniteSet(Before(S, start))
  BY <1>1, FS_Subset
<1> QED BY <1>2, FS_CardinalityType

(* A limiter that has admitted nothing lately begins with an empty window. *)
LEMMA KeptEmpty ==
    ASSUME NEW S \in SUBSET RequestSet, IsFiniteSet(S), NEW t \in Nat, NEW span \in Int,
           span >= Window - 1,
           \A a \in S : t - a.at >= Window
    PROVE  Kept(S, t, 0, span)
<1>1. Since(S, t) = {} /\ Before(S, t) = {}
  BY LimitsOK DEF Since, Before, RequestSet
<1>2. \A a \in S : a.at - t <= span
  BY LimitsOK DEF RequestSet
<1> QED BY <1>1, <1>2, FS_EmptySet, LimitsOK DEF Kept

(* When a window is over, what it admitted lies before the new one. *)
LEMMA WindowRolls ==
    ASSUME NEW S \in SUBSET RequestSet, IsFiniteSet(S),
           NEW start \in Nat, NEW count \in Nat, NEW span \in Int, NEW t \in Nat,
           span >= Window - 1, Kept(S, start, count, span), t - start > span
    PROVE  Kept(S, t, 0, span)
<1>1. \A a \in S : a.at \in Nat /\ a.at < t /\ a.at - t <= span
  BY LimitsOK DEF Kept, RequestSet
<1>2. Since(S, t) = {}
  BY <1>1 DEF Since
<1>3. Before(S, t) \in SUBSET Since(S, start)
  BY <1>1, LimitsOK DEF Since, Before
<1>4. Cardinality(Before(S, t)) <= Cardinality(Since(S, start))
  BY <1>3, PartsFinite, FS_Subset
<1>5. Cardinality(Before(S, t)) <= MaxRequests
  BY <1>4, PartsFinite, LimitsOK DEF Kept
<1> QED BY <1>1, <1>2, <1>5, FS_EmptySet, LimitsOK DEF Kept

LEMMA WindowCounts ==
    ASSUME NEW S, IsFiniteSet(S), NEW start, NEW count \in Nat, NEW span,
           Kept(S, start, count, span)
    PROVE  Kept(S, start, count + 1, span)
BY PartsFinite DEF Kept

(* Below its limit, a window admits one more, and there are fewer than     *)
(* twice the limit in any Window.                                          *)
LEMMA WindowAdmits ==
    ASSUME NEW S \in SUBSET RequestSet, IsFiniteSet(S),
           NEW start \in Nat, NEW count \in Nat, NEW span \in Int, NEW t \in Nat,
           NEW a \in RequestSet, a.at = t, start <= t, t - start <= span,
           Kept(S, start, count, span), count + 1 <= MaxRequests
    PROVE  /\ Kept(S \cup {a}, start, count + 1, span)
           /\ Cardinality(Late(S, t)) < 2 * MaxRequests
<1>1. /\ Cardinality(Since(S, start)) <= count /\ Cardinality(Since(S, start)) \in Nat
      /\ Cardinality(Before(S, start)) <= MaxRequests /\ Cardinality(Before(S, start)) \in Nat
      /\ IsFiniteSet(Since(S, start)) /\ IsFiniteSet(Before(S, start))
  BY PartsFinite DEF Kept
<1>2. Since(S \cup {a}, start) = Since(S, start) \cup {a}
  BY DEF Since, RequestSet
<1>3. /\ Cardinality(Since(S \cup {a}, start)) <= Cardinality(Since(S, start)) + 1
      /\ Cardinality(Since(S \cup {a}, start)) \in Nat
  <2> DEFINE H == Since(S, start)
  <2>1. IsFiniteSet(H) /\ Cardinality(H) \in Nat
    BY <1>1
  <2> HIDE DEF H
  <2>2. Cardinality(H \cup {a}) = IF a \in H THEN Cardinality(H) ELSE Cardinality(H) + 1
    BY <2>1, FS_AddElement
  <2>3. Cardinality(H \cup {a}) <= Cardinality(H) + 1 /\ Cardinality(H \cup {a}) \in Nat
    BY <2>1, <2>2
  <2> QED BY <2>3, <1>2 DEF H
<1>4. Before(S \cup {a}, start) = Before(S, start)
  BY DEF Before, RequestSet
<1>5. Kept(S \cup {a}, start, count + 1, span)
  <2>1. \A b \in S \cup {a} : b.at - start <= span
    BY DEF Kept
  <2>2. /\ Cardinality(Since(S \cup {a}, start)) <= count + 1
        /\ Cardinality(Since(S \cup {a}, start)) <= MaxRequests
    BY <1>1, <1>3, LimitsOK
  <2>3. Cardinality(Before(S \cup {a}, start)) <= MaxRequests
    BY <1>1, <1>4
  <2> QED BY <2>1, <2>2, <2>3 DEF Kept
<1>6. Late(S, t) \in SUBSET (Since(S, start) \cup Before(S, start))
  BY LimitsOK DEF Late, Since, Before, RequestSet
<1>7. Since(S, start) \cap Before(S, start) = {}
  BY DEF Since, Before, RequestSet
<1>8. /\ IsFiniteSet(Since(S, start) \cup Before(S, start))
      /\ Cardinality(Since(S, start) \cup Before(S, start)) <= count + MaxRequests
      /\ Cardinality(Since(S, start) \cup Before(S, start)) \in Nat
  <2> DEFINE H == Since(S, start)
             B == Before(S, start)
  <2>1. IsFiniteSet(H) /\ IsFiniteSet(B) /\ H \cap B = {}
    BY <1>1, <1>7
  <2>2. Cardinality(H) \in Nat /\ Cardinality(B) \in Nat
        /\ Cardinality(H) <= count /\ Cardinality(B) <= MaxRequests
    BY <1>1
  <2> HIDE DEF H, B
  <2>3. IsFiniteSet(H \cup B) /\ Cardinality(H \cup B) = Cardinality(H) + Cardinality(B) - Cardinality(H \cap B)
    BY <2>1, FS_Union
  <2>4. Cardinality(H \cap B) = 0
    BY <2>1, FS_EmptySet
  <2>5. Cardinality(H \cup B) <= count + MaxRequests /\ Cardinality(H \cup B) \in Nat
    BY <2>2, <2>3, <2>4, LimitsOK
  <2> QED BY <2>3, <2>5 DEF H, B
<1>9. Cardinality(Late(S, t)) <= count + MaxRequests /\ Cardinality(Late(S, t)) \in Nat
  BY <1>6, <1>8, FS_Subset, FS_CardinalityType, LimitsOK
<1> QED BY <1>5, <1>9, LimitsOK

-----------------------------------------------------------------------------
(* Keys and requests *)

LEMMA LimitedKeys ==
    /\ \A c \in Clients : /\ <<"http", c>> \in Limited \ TierKeys
                          /\ <<"ws", c>> \in Limited \ TierKeys
                          /\ \A d \in Clients : <<"http", c>> # <<"ws", d>>
    /\ TierKeys \subseteq Limited
BY LimitsOK DEF Limited, TierKeys

(* A request let through is new, and belongs to the past from then on. *)
LEMMA LetThrough ==
    ASSUME LInv, NEW k \in Limited, Let(k), UNCHANGED now
    PROVE  /\ Request \in RequestSet /\ Request.at = now /\ Request \notin admitted[k]
           /\ admitted'[k] = admitted[k] \cup {Request}
           /\ \A j \in Limited \ {k} : admitted'[j] = admitted[j]
           /\ admitted' \in [Limited -> SUBSET RequestSet]
           /\ served' \in Nat
           /\ \A j \in Limited : Past(j)'
<1>1. /\ now \in Nat /\ served \in Nat /\ admitted \in [Limited -> SUBSET RequestSet]
      /\ \A j \in Limited : Past(j)
  BY DEF LInv, LTypeOK
<1>2. Request \in RequestSet /\ Request.at = now /\ Request.serial = served
  BY <1>1 DEF Request, RequestSet
<1>3. Request \notin admitted[k]
  BY <1>1, <1>2 DEF Past
<1>4. /\ admitted'[k] = admitted[k] \cup {Request}
      /\ \A j \in Limited \ {k} : admitted'[j] = admitted[j]
      /\ admitted' \in [Limited -> SUBSET RequestSet]
      /\ served' = served + 1
  BY <1>1, <1>2 DEF Let
<1>5. ASSUME NEW j \in Limited PROVE Past(j)'
  <2>1. \A a \in admitted'[j] : a.at <= now' /\ a.serial < served'
    <3>1. \A a \in admitted[j] : a.serial \in Nat /\ a.at <= now /\ a.serial < served
      BY <1>1 DEF Past, RequestSet
    <3> QED BY <3>1, <1>1, <1>2, <1>4
  <2>2. IsFiniteSet(admitted'[j])
    <3>1. IsFiniteSet(admitted[j])
      BY <1>1 DEF Past
    <3> QED BY <3>1, <1>4, FS_AddElement
  <2> QED BY <2>1, <2>2 DEF Past
<1> QED BY <1>1, <1>2, <1>3, <1>4, <1>5

-----------------------------------------------------------------------------
(* What a step does, seen by AdmissionLimit *)

Promised == [Admission!Next]_(Admission!admissionVars)

LEMMA LetPromised ==
    ASSUME LInv, NEW k \in Limited, Let(k), UNCHANGED <<now, banned>>,
           now >= Bans[k],
           Cardinality(Late(admitted[k], now)) < Allowance[k]
    PROVE  Promised
<1>1. /\ Request.at = now /\ Request \in admitted'[k] \ admitted[k]
      /\ admitted' = [admitted EXCEPT ![k] = @ \cup {Request}]
  BY LetThrough DEF Let
<1>2. Bans' = Bans
  BY DEF Bans
<1>3. Admission!Admit(k)
  <2>1. Admission!Cardinality(Admission!Within(k)) < Allowance[k]
    BY DEF Admission!Within, Late, Admission!Cardinality, Cardinality
  <2>2. \E a \in admitted'[k] \ admitted[k] :
          a.at = now /\ admitted' = [admitted EXCEPT ![k] = @ \cup {a}]
    BY <1>1
  <2> QED BY <2>1, <2>2, <1>2 DEF Admission!Admit
<1> QED BY <1>3 DEF Promised, Admission!Next

LEMMA BanPromised ==
    ASSUME LTypeOK', UNCHANGED <<now, admitted>>
    PROVE  Promised
<1>1. Bans' \in [Limited -> Int]
  BY DEF LTypeOK, Bans
<1>2. Admission!Ban
  BY <1>1 DEF Admission!Ban
<1> QED BY <1>2 DEF Promised, Admission!Next

LEMMA NothingPromised ==
    ASSUME UNCHANGED <<now, admitted, banned>>
    PROVE  Promised
BY DEF Promised, Admission!admissionVars, Bans

-----------------------------------------------------------------------------
(* The sliding window *)

LEMMA CheckHttpStep ==
    ASSUME LInv, NEW c \in Clients, CheckHttp(c)
    PROVE  LInv' /\ Promised
<1> DEFINE k == <<"http", c>>
           recent == Recent(requests[c])
<1>1. /\ k \in Limited \ TierKeys /\ UNCHANGED <<now, rateLimitMap, records, banned>>
      /\ now \in Nat
      /\ recent \subseteq RequestSet /\ IsFiniteSet(recent)
  BY LimitedKeys, FS_Subset DEF CheckHttp, LInv, LTypeOK, Recent
<1>2. CASE Refuse /\ UNCHANGED requests
  <2>1. LInv'
    BY <1>1, <1>2 DEF Refuse, LInv, LTypeOK, Past, HttpInv, WsInv, TierInv, Kept, Since, Before
  <2> QED BY <2>1, <1>1, <1>2, NothingPromised DEF Refuse
<1>3. CASE /\ Cardinality(recent) < MaxRequests
           /\ requests' = [requests EXCEPT ![c] = recent \cup {Request}]
           /\ Let(k)
  <2>1. /\ Request \in RequestSet /\ Request.at = now
        /\ admitted'[k] = admitted[k] \cup {Request}
        /\ \A j \in Limited \ {k} : admitted'[j] = admitted[j]
        /\ admitted' \in [Limited -> SUBSET RequestSet] /\ served' \in Nat
        /\ \A j \in Limited : Past(j)'
    BY <1>1, <1>3, LetThrough
  <2>2. LTypeOK'
    <3>1. IsFiniteSet(recent \cup {Request})
      BY <1>1, FS_AddElement
    <3> HIDE DEF recent
    <3> QED BY <3>1, <2>1, <1>1, <1>3 DEF LInv, LTypeOK
  <2>3. ASSUME NEW d \in Clients PROVE HttpInv(d)' /\ WsInv(d)'
    <3>1. WsInv(d)'
      <4>1. admitted'[<<"ws", d>>] = admitted[<<"ws", d>>]
        BY <2>1, LimitedKeys
      <4> QED BY <4>1, <1>1 DEF LInv, WsInv, Kept, Since, Before
    <3>2. CASE d # c
      <4>1. admitted'[<<"http", d>>] = admitted[<<"http", d>>] /\ requests'[d] = requests[d]
        BY <3>2, <2>1, <1>3, LimitedKeys DEF LInv, LTypeOK
      <4> QED BY <4>1, <3>1, <1>1 DEF LInv, HttpInv
    <3>3. CASE d = c
      <4>1. requests'[c] = recent \cup {Request}
        BY <1>3 DEF LInv, LTypeOK
      <4>2. \A a \in admitted[k] : now - a.at < Window => a \in recent
        BY DEF LInv, HttpInv, Recent
      <4> QED BY <4>1, <4>2, <3>1, <3>3, <2>1, <1>1 DEF HttpInv
    <3> QED BY <3>2, <3>3, <3>1
  <2>4. ASSUME NEW j \in TierKeys PROVE TierInv(j)'
    <3>1. admitted'[j] = admitted[j]
      BY <2>1, <1>1, LimitedKeys
    <3> QED BY <3>1, <1>1 DEF LInv, TierInv, Kept, Since, Before
  <2>5. Promised
    <3>1. Late(admitted[k], now) \in SUBSET recent
      BY DEF LInv, HttpInv, Recent, Late
    <3>2. Cardinality(Late(admitted[k], now)) <= Cardinality(recent)
      BY <3>1, <1>1, FS_Subset
    <3>3. Late(admitted[k], now) \in SUBSET recent
          /\ IsFiniteSet(Late(admitted[k], now))
      BY <3>1, <1>1, FS_Subset
    <3>4. Cardinality(Late(admitted[k], now)) < MaxRequests
      BY <3>2, <3>3, <1>1, <1>3, FS_CardinalityType, LimitsOK
    <3>5. Allowance[k] = MaxRequests /\ Bans[k] = 0
      BY <1>1 DEF Allowance, Bans
    <3> QED BY <3>4, <3>5, <1>1, <1>3, LetPromised
  <2> QED BY <2>1, <2>2, <2>3, <2>4, <2>5 DEF LInv
<1>4. Cardinality(recent) \in Nat
  BY <1>1, FS_CardinalityType
<1> QED BY <1>2, <1>3, <1>4, LimitsOK DEF CheckHttp

LEMMA CleanupHttpStep ==
    ASSUME LInv, CleanupHttp
    PROVE  LInv' /\ Promised
<1>1. \A c \in Clients : requests'[c] = Recent(requests[c])
  BY DEF CleanupHttp
<1>2. \A c \in Clients : Recent(requests[c]) \in SUBSET requests[c]
  BY DEF Recent
<1>3. LTypeOK'
  <2>1. requests' \in [Clients -> SUBSET RequestSet]
    BY <1>2 DEF CleanupHttp, LInv, LTypeOK
  <2>2. \A c \in Clients : IsFiniteSet(requests'[c])
    BY <1>1, <1>2, FS_Subset DEF LInv, LTypeOK
  <2> QED BY <2>1, <2>2 DEF CleanupHttp, LInv, LTypeOK
<1>4. \A c \in Clients : HttpInv(c)'
  BY <1>1 DEF CleanupHttp, LInv, HttpInv, Recent
<1>5. /\ \A k \in Limited : Past(k)'
      /\ \A c \in Clients : WsInv(c)'
      /\ \A k \in TierKeys : TierInv(k)'
  BY DEF CleanupHttp, LInv, Past, WsInv, TierInv, Kept, Since, Before
<1> QED BY <1>3, <1>4, <1>5, NothingPromised DEF CleanupHttp, LInv

-----------------------------------------------------------------------------
(* The window per maker *)

LEMMA CheckWsStep ==
    ASSUME LInv, NEW c \in Clients, CheckWs(c)
    PROVE  LInv' /\ Promised
<1> DEFINE k       == <<"ws", c>>
           old     == rateLimitMap[c]
           fresh   == old = None \/ now - old.windowStart > Window
           start   == IF fresh THEN now ELSE old.windowStart
           counted == IF fresh THEN 0 ELSE old.count
           record  == [count |-> counted + 1, windowStart |-> start]
<1>1. /\ k \in Limited \ TierKeys /\ UNCHANGED <<now, requests, records, banned>>
      /\ now \in Nat /\ admitted[k] \in SUBSET RequestSet /\ IsFiniteSet(admitted[k])
      /\ old \in {None} \cup WindowRecord
      /\ \A a \in admitted[k] : a.at <= now
  BY LimitedKeys DEF CheckWs, LInv, LTypeOK, Past
<1>2. /\ start \in Nat /\ counted \in Nat /\ start <= now /\ now - start <= Window
      /\ record \in WindowRecord /\ record # None
  BY <1>1, LimitsOK DEF WindowRecord, LInv, WsInv
<1>3. Kept(admitted[k], start, counted, Window)
  <2>1. CASE old = None
    <3>1. admitted[k] = {}
      BY <2>1 DEF LInv, WsInv
    <3>2. Kept(admitted[k], now, 0, Window)
      BY <3>1, <1>1, KeptEmpty, LimitsOK
    <3> QED BY <3>2, <2>1
  <2>2. CASE old # None /\ fresh
    <3>1. Kept(admitted[k], old.windowStart, old.count, Window)
      BY <2>2 DEF LInv, WsInv
    <3>2. /\ old.windowStart \in Nat /\ old.count \in Nat
          /\ now - old.windowStart > Window /\ Window \in Int /\ Window >= Window - 1
      BY <2>2, <1>1, LimitsOK DEF WindowRecord
    <3>3. Kept(admitted[k], now, 0, Window)
      BY <3>1, <3>2, <1>1, WindowRolls
    <3> QED BY <3>3, <2>2
  <2>3. CASE ~fresh
    BY <2>3 DEF LInv, WsInv
  <2> QED BY <2>1, <2>2, <2>3
<1>4. rateLimitMap' = [rateLimitMap EXCEPT ![c] = record]
  BY DEF CheckWs
<1>5. /\ counted + 1 <= MaxRequests => Let(k)
      /\ ~(counted + 1 <= MaxRequests) => Refuse
  BY DEF CheckWs
<1> HIDE DEF start, counted, record
<1>6. rateLimitMap'[c] = record /\ record.windowStart = start /\ record.count = counted + 1
  BY <1>4 DEF record, LInv, LTypeOK
<1>7. CASE Refuse
  <2>1. LTypeOK' /\ \A j \in Limited : Past(j)'
    BY <1>1, <1>2, <1>4, <1>7 DEF Refuse, LInv, LTypeOK, Past
  <2>2. ASSUME NEW d \in Clients PROVE HttpInv(d)' /\ WsInv(d)'
    <3>1. HttpInv(d)'
      BY <1>1, <1>7 DEF Refuse, LInv, HttpInv
    <3>2. CASE d # c
      BY <3>1, <3>2, <1>1, <1>4, <1>7 DEF Refuse, LInv, LTypeOK, WsInv, Kept, Since, Before
    <3>3. CASE d = c
      <4>1. Kept(admitted[k], start, counted + 1, Window)
        BY <1>1, <1>2, <1>3, WindowCounts
      <4>2. Kept(admitted'[k], start, counted + 1, Window)
        BY <4>1, <1>7 DEF Refuse
      <4> QED BY <4>2, <3>1, <3>3, <1>1, <1>2, <1>6 DEF WsInv, Kept, Since, Before
    <3> QED BY <3>2, <3>3
  <2>3. \A j \in TierKeys : TierInv(j)'
    BY <1>1, <1>7 DEF Refuse, LInv, TierInv, Kept, Since, Before
  <2> QED BY <2>1, <2>2, <2>3, <1>1, <1>7, NothingPromised DEF LInv, Refuse
<1>8. CASE Let(k) /\ counted + 1 <= MaxRequests
  <2>1. /\ Request \in RequestSet /\ Request.at = now
        /\ admitted'[k] = admitted[k] \cup {Request}
        /\ \A j \in Limited \ {k} : admitted'[j] = admitted[j]
        /\ admitted' \in [Limited -> SUBSET RequestSet] /\ served' \in Nat
        /\ \A j \in Limited : Past(j)'
    BY <1>1, <1>8, LetThrough
  <2>2. /\ Kept(admitted[k] \cup {Request}, start, counted + 1, Window)
        /\ Cardinality(Late(admitted[k], now)) < 2 * MaxRequests
    <3>1. Window \in Int
      BY LimitsOK
    <3> HIDE DEF k
    <3> QED BY <2>1, <3>1, <1>1, <1>2, <1>3, <1>8, WindowAdmits
  <2>3. LTypeOK'
    BY <2>1, <1>1, <1>2, <1>4 DEF LInv, LTypeOK
  <2>4. ASSUME NEW d \in Clients PROVE HttpInv(d)' /\ WsInv(d)'
    <3>1. HttpInv(d)'
      <4>1. admitted'[<<"http", d>>] = admitted[<<"http", d>>]
        BY <2>1, LimitedKeys
      <4> QED BY <4>1, <1>1 DEF LInv, HttpInv
    <3>2. CASE d # c
      <4>1. admitted'[<<"ws", d>>] = admitted[<<"ws", d>>] /\ rateLimitMap'[d] = rateLimitMap[d]
        BY <3>2, <2>1, <1>4, LimitedKeys DEF LInv, LTypeOK
      <4> QED BY <4>1, <3>1, <1>1 DEF LInv, WsInv, Kept, Since, Before
    <3>3. CASE d = c
      <4>1. Kept(admitted'[k], start, counted + 1, Window)
        BY <2>1, <2>2
      <4> QED BY <4>1, <3>1, <3>3, <1>1, <1>2, <1>6 DEF WsInv, Kept, Since, Before
    <3> QED BY <3>2, <3>3
  <2>5. ASSUME NEW j \in TierKeys PROVE TierInv(j)'
    <3>1. admitted'[j] = admitted[j]
      BY <2>1, <1>1, LimitedKeys
    <3> QED BY <3>1, <1>1 DEF LInv, TierInv, Kept, Since, Before
  <2>6. Promised
    <3>1. Allowance[k] = 2 * MaxRequests /\ Bans[k] = 0
      BY <1>1 DEF Allowance, Bans
    <3> QED BY <3>1, <2>2, <1>1, <1>8, LetPromised
  <2> QED BY <2>1, <2>3, <2>4, <2>5, <2>6 DEF LInv
<1> QED BY <1>5, <1>7, <1>8

-----------------------------------------------------------------------------
(* The tiers *)

(* Other keys' invariants depend on what a step of a tier leaves alone. *)
LEMMA TierFrame ==
    ASSUME LInv, UNCHANGED <<now, requests, rateLimitMap>>,
           \A c \in Clients : /\ admitted'[<<"http", c>>] = admitted[<<"http", c>>]
                              /\ admitted'[<<"ws", c>>] = admitted[<<"ws", c>>]
    PROVE  \A c \in Clients : HttpInv(c)' /\ WsInv(c)'
BY DEF LInv, HttpInv, WsInv, Kept, Since, Before

LEMMA TierUntouched ==
    ASSUME LInv, NEW k \in TierKeys, UNCHANGED now,
           admitted'[k] = admitted[k], records'[k] = records[k], banned'[k] = banned[k]
    PROVE  TierInv(k)'
BY DEF LInv, TierInv, Kept, Since, Before

(* Not blocked, a tier counts the request in the window there is or a new  *)
(* one, and its ban is over.                                               *)
LEMMA TierCounts ==
    ASSUME LInv, NEW k \in TierKeys, ~Blocked(k)
    PROVE  LET r == Counted(k)
           IN  /\ r \in RateLimitRecord /\ r.count - 1 \in Nat /\ r.blockedUntil = 0
               /\ r.windowStart <= now /\ now - r.windowStart <= Window - 1
               /\ Kept(admitted[k], r.windowStart, r.count - 1, Window - 1)
               /\ banned[k] <= now
<1> DEFINE old == records[k]
           r   == Counted(k)
<1>1. /\ now \in Nat /\ old \in {None} \cup RateLimitRecord /\ banned[k] \in Nat
      /\ k \in Limited /\ TierInv(k)
      /\ admitted[k] \in SUBSET RequestSet /\ IsFiniteSet(admitted[k])
      /\ \A a \in admitted[k] : a.at <= now
  BY LimitedKeys DEF LInv, LTypeOK, Past
<1>2. banned[k] <= now
  BY <1>1 DEF Blocked, TierInv, RateLimitRecord
<1>3. CASE old = None
  <2>1. r = [count |-> 1, windowStart |-> now, blockedUntil |-> 0, violations |-> 0]
    BY <1>3 DEF Counted
  <2>2. \A a \in admitted[k] : now - a.at >= Window
    BY <1>1, <1>3 DEF TierInv
  <2>3. Window - 1 \in Int
    BY LimitsOK
  <2>4. Kept(admitted[k], now, 0, Window - 1)
    BY <2>2, <2>3, <1>1, KeptEmpty
  <2> QED BY <2>1, <2>4, <1>1, <1>2, LimitsOK DEF RateLimitRecord
<1>4. CASE old # None /\ now - old.windowStart >= Window
  <2>1. r = [count |-> 1, windowStart |-> now, blockedUntil |-> 0, violations |-> old.violations]
    BY <1>4 DEF Counted
  <2>2. /\ old.windowStart \in Nat /\ old.count \in Nat /\ old.violations \in Nat
        /\ now - old.windowStart > Window - 1 /\ Window - 1 \in Int
    BY <1>1, <1>4, LimitsOK DEF RateLimitRecord
  <2>3. Kept(admitted[k], old.windowStart, old.count, Window - 1)
    BY <1>1, <1>4 DEF TierInv
  <2>4. Kept(admitted[k], now, 0, Window - 1)
    BY <2>2, <2>3, <1>1, WindowRolls
  <2> QED BY <2>1, <2>2, <2>4, <1>1, <1>2, LimitsOK DEF RateLimitRecord
<1>5. CASE old # None /\ ~(now - old.windowStart >= Window)
  <2>1. r = [old EXCEPT !.count = @ + 1, !.blockedUntil = 0]
    BY <1>5 DEF Counted
  <2>2. /\ r \in RateLimitRecord /\ r.count = old.count + 1 /\ old.count \in Nat
        /\ r.blockedUntil = 0 /\ r.windowStart = old.windowStart
    <3>1. old \in RateLimitRecord
      BY <1>1, <1>5
    <3> HIDE DEF old, r
    <3>2. r = [count |-> old.count + 1, windowStart |-> old.windowStart, blockedUntil |-> 0,
               violations |-> old.violations]
      BY <2>1, <3>1 DEF RateLimitRecord
    <3> QED BY <3>1, <3>2 DEF RateLimitRecord
  <2>3. r.count - 1 = old.count
    BY <2>2
  <2>4. old.windowStart <= now /\ Kept(admitted[k], old.windowStart, old.count, Window - 1)
    BY <1>1, <1>5 DEF TierInv
  <2>5. now - old.windowStart <= Window - 1
    BY <1>1, <1>5, LimitsOK DEF RateLimitRecord
  <2> QED BY <2>2, <2>3, <2>4, <2>5, <1>2
<1> QED BY <1>3, <1>4, <1>5

LEMMA CheckTierStep ==
    ASSUME LInv, NEW k \in TierKeys, CheckTier(k)
    PROVE  LInv' /\ Promised
<1> DEFINE r       == Counted(k)
           counted == r.count - 1
           over    == r.count > MaxRequests
           strike  == over /\ r.violations + 1 >= ViolationThreshold
<1>1. /\ k \in Limited /\ UNCHANGED <<now, requests, rateLimitMap>>
      /\ now \in Nat /\ admitted[k] \in SUBSET RequestSet /\ IsFiniteSet(admitted[k])
      /\ \A a \in admitted[k] : a.at \in Nat /\ a.at <= now
  BY LimitedKeys DEF CheckTier, LInv, LTypeOK, Past, RequestSet
<1>2. /\ r \in RateLimitRecord /\ counted \in Nat /\ r.blockedUntil = 0
      /\ r.windowStart <= now /\ now - r.windowStart <= Window - 1
      /\ Kept(admitted[k], r.windowStart, counted, Window - 1)
      /\ banned[k] <= now
  BY TierCounts DEF CheckTier
<1>3. r.count = counted + 1 /\ r.windowStart \in Nat /\ r.count \in Nat
  BY <1>2 DEF RateLimitRecord
<1>4. CASE over /\ Refuse
  <2>1. PICK d \in BlockDurations :
          /\ records' = [records EXCEPT ![k] =
                IF strike THEN [r EXCEPT !.violations = @ + 1, !.blockedUntil = now + d]
                ELSE [r EXCEPT !.violations = @ + 1]]
          /\ banned' = IF strike THEN [banned EXCEPT ![k] = now + d] ELSE banned
    BY <1>4 DEF CheckTier
  <2> DEFINE new == IF strike THEN [r EXCEPT !.violations = @ + 1, !.blockedUntil = now + d]
                    ELSE [r EXCEPT !.violations = @ + 1]
  <2>2. d \in Nat /\ d >= Window
    BY LimitsOK
  <2>3. /\ new \in RateLimitRecord /\ new.windowStart = r.windowStart /\ new.count = counted + 1
        /\ strike => new.blockedUntil = now + d
        /\ ~strike => new.blockedUntil = 0
    <3> HIDE DEF r, counted, over
    <3>1. r.violations \in Nat /\ now + d \in Nat
      BY <2>2, <1>1, <1>2 DEF RateLimitRecord
    <3>2. new = [count |-> r.count, windowStart |-> r.windowStart,
                 blockedUntil |-> IF strike THEN now + d ELSE 0, violations |-> r.violations + 1]
      <4>1. CASE strike
        BY <4>1, <1>2 DEF RateLimitRecord
      <4>2. CASE ~strike
        BY <4>2, <1>2 DEF RateLimitRecord
      <4> QED BY <4>1, <4>2
    <3> QED BY <3>1, <3>2, <1>2, <1>3 DEF RateLimitRecord
  <2>4. new # None
    BY <2>3, LimitsOK
  <2>5. records' = [records EXCEPT ![k] = new]
    BY <2>1
  <2> HIDE DEF new, r
  <2>6. LTypeOK'
    BY <2>1, <2>2, <2>3, <2>5, <1>1, <1>4 DEF Refuse, LInv, LTypeOK
  <2>7. \A j \in Limited : Past(j)'
    BY <1>1, <1>4 DEF Refuse, LInv, Past
  <2>8. \A c \in Clients : HttpInv(c)' /\ WsInv(c)'
    BY <1>1, <1>4, TierFrame DEF Refuse
  <2>9. ASSUME NEW j \in TierKeys PROVE TierInv(j)'
    <3>1. CASE j # k
      BY <3>1, <2>1, <2>5, <1>1, <1>4, TierUntouched DEF Refuse, LInv, LTypeOK
    <3>2. CASE j = k
      <4>1. /\ records'[k] = new /\ admitted'[k] = admitted[k]
            /\ banned'[k] = IF strike THEN now + d ELSE banned[k]
        BY <2>1, <2>5, <1>4 DEF Refuse, LInv, LTypeOK
      <4>2. Kept(admitted[k], new.windowStart, new.count, Window - 1)
        BY <2>3, <1>1, <1>2, WindowCounts
      <4>3. Kept(admitted'[k], records'[k].windowStart, records'[k].count, Window - 1)
        BY <4>1, <4>2
      <4>4. /\ new.blockedUntil # 0 => \A a \in admitted[k] : new.blockedUntil - a.at >= Window
            /\ banned'[k] <= now \/ banned'[k] = new.blockedUntil
        BY <4>1, <2>2, <2>3, <1>1, <1>2, LimitsOK
      <4> QED BY <4>1, <4>3, <4>4, <3>2, <2>3, <2>4, <1>1, <1>2
              DEF TierInv, Kept, Since, Before
    <3> QED BY <3>1, <3>2
  <2> QED BY <2>6, <2>7, <2>8, <2>9, <1>1, <1>4, BanPromised DEF LInv, Refuse
<1>5. CASE ~over /\ Let(k)
  <2>1. /\ records' = [records EXCEPT ![k] = r] /\ UNCHANGED banned
    BY <1>5 DEF CheckTier
  <2>2. /\ Request \in RequestSet /\ Request.at = now
        /\ admitted'[k] = admitted[k] \cup {Request}
        /\ \A j \in Limited \ {k} : admitted'[j] = admitted[j]
        /\ admitted' \in [Limited -> SUBSET RequestSet] /\ served' \in Nat
        /\ \A j \in Limited : Past(j)'
    BY <1>1, <1>5, LetThrough
  <2>3. /\ counted + 1 <= MaxRequests /\ Window - 1 \in Int /\ r # None
    BY <1>2, <1>3, <1>5, LimitsOK
  <2> HIDE DEF r, counted
  <2>4. /\ Kept(admitted[k] \cup {Request}, r.windowStart, counted + 1, Window - 1)
        /\ Cardinality(Late(admitted[k], now)) < 2 * MaxRequests
    BY <2>2, <2>3, <1>1, <1>2, <1>3, WindowAdmits
  <2>5. LTypeOK'
    BY <2>1, <2>2, <1>1, <1>2 DEF LInv, LTypeOK
  <2>6. \A c \in Clients : HttpInv(c)' /\ WsInv(c)'
    BY <2>2, <1>1, LimitedKeys, TierFrame
  <2>7. ASSUME NEW j \in TierKeys PROVE TierInv(j)'
    <3>1. CASE j # k
      BY <3>1, <2>1, <2>2, <1>1, LimitedKeys, TierUntouched DEF LInv, LTypeOK
    <3>2. CASE j = k
      <4>1. records'[k] = r /\ banned'[k] = banned[k]
        BY <2>1 DEF LInv, LTypeOK
      <4>2. Kept(admitted'[k], records'[k].windowStart, records'[k].count, Window - 1)
        BY <4>1, <2>2, <2>4, <1>3
      <4> QED BY <4>1, <4>2, <3>2, <2>3, <1>1, <1>2 DEF TierInv, Kept, Since, Before
    <3> QED BY <3>1, <3>2
  <2>8. Promised
    <3>1. Allowance[k] = 2 * MaxRequests /\ Bans[k] = banned[k]
      BY <1>1, LimitedKeys, LimitsOK DEF Allowance, Bans, TierKeys
    <3> QED BY <3>1, <2>1, <2>4, <1>1, <1>2, <1>5, LetPromised
  <2> QED BY <2>2, <2>5, <2>6, <2>7, <2>8 DEF LInv
<1> QED BY <1>4, <1>5 DEF CheckTier

(* A new record, or one that is there, is blocked: its window is kept. *)
LEMMA BlockAllStep ==
    ASSUME LInv, NEW c \in Clients, NEW d \in BlockDurations, BlockAll(c, d)
    PROVE  LInv' /\ Promised
<1> DEFINE fresh  == [count |-> 0, windowStart |-> now, blockedUntil |-> now + d, violations |-> 0]
           new(k) == IF records[k] = None THEN fresh
                     ELSE [records[k] EXCEPT !.blockedUntil = now + d]
<1>1. /\ UNCHANGED <<now, requests, rateLimitMap, admitted, served>> /\ now \in Nat
      /\ d \in Nat /\ d >= Window /\ Window - 1 \in Int
  BY LimitsOK DEF BlockAll, LInv, LTypeOK
<1>2. /\ records' = [k \in TierKeys |-> IF k[2] # c THEN records[k] ELSE new(k)]
      /\ banned' = [k \in TierKeys |-> IF k[2] = c THEN now + d ELSE banned[k]]
  BY DEF BlockAll
<1>3. ASSUME NEW k \in TierKeys, records[k] # None
      PROVE  new(k) = [count |-> records[k].count, windowStart |-> records[k].windowStart,
                       blockedUntil |-> now + d, violations |-> records[k].violations]
  <2>1. records[k] \in RateLimitRecord
    BY <1>3 DEF LInv, LTypeOK
  <2> QED BY <2>1, <1>3 DEF RateLimitRecord
<1>4. ASSUME NEW k \in TierKeys
      PROVE  new(k) \in RateLimitRecord /\ new(k) # None /\ new(k).blockedUntil = now + d
  <2>1. CASE records[k] = None
    BY <2>1, <1>1, LimitsOK DEF RateLimitRecord
  <2>2. CASE records[k] # None
    <3>1. records[k] \in RateLimitRecord
      BY <2>2 DEF LInv, LTypeOK
    <3> HIDE DEF new
    <3> QED BY <3>1, <2>2, <1>1, <1>3, LimitsOK DEF RateLimitRecord
  <2> QED BY <2>1, <2>2
<1>5. ASSUME NEW k \in TierKeys
      PROVE  /\ new(k).windowStart <= now
             /\ Kept(admitted[k], new(k).windowStart, new(k).count, Window - 1)
  <2>1. /\ TierInv(k) /\ k \in Limited /\ IsFiniteSet(admitted[k])
        /\ admitted[k] \in SUBSET RequestSet
    BY LimitedKeys DEF LInv, LTypeOK, Past
  <2>2. CASE records[k] = None
    <3>1. Kept(admitted[k], now, 0, Window - 1)
      BY <2>1, <2>2, <1>1, KeptEmpty DEF TierInv
    <3> QED BY <3>1, <2>2, <1>1
  <2>3. CASE records[k] # None
    <3>1. new(k).windowStart = records[k].windowStart /\ new(k).count = records[k].count
      BY <2>3, <1>3
    <3> QED BY <3>1, <2>1, <2>3 DEF TierInv
  <2> QED BY <2>2, <2>3
<1> HIDE DEF new
<1>6. LTypeOK'
  <2>1. records' \in [TierKeys -> {None} \cup RateLimitRecord]
    BY <1>2, <1>4 DEF LInv, LTypeOK
  <2>2. banned' \in [TierKeys -> Nat]
    BY <1>1, <1>2 DEF LInv, LTypeOK
  <2> QED BY <2>1, <2>2, <1>1 DEF LInv, LTypeOK
<1>7. \A k \in Limited : Past(k)'
  BY <1>1 DEF LInv, Past
<1>8. ASSUME NEW k \in TierKeys PROVE TierInv(k)'
  <2>1. CASE k[2] # c
    BY <2>1, <1>1, <1>2, TierUntouched
  <2>2. CASE k[2] = c
    <3>1. records'[k] = new(k) /\ banned'[k] = now + d
      BY <2>2, <1>2
    <3>2. Kept(admitted'[k], records'[k].windowStart, records'[k].count, Window - 1)
      BY <3>1, <1>1, <1>5
    <3>3. \A a \in admitted'[k] : a.at \in Nat /\ now + d - a.at >= Window
      <4>1. k \in Limited /\ Past(k) /\ admitted[k] \in SUBSET RequestSet
        BY LimitedKeys DEF LInv, LTypeOK
      <4>2. \A a \in admitted[k] : a.at \in Nat /\ a.at <= now
        BY <4>1 DEF Past, RequestSet
      <4>3. admitted'[k] = admitted[k]
        BY <1>1
      <4> QED BY <4>2, <4>3, <1>1, LimitsOK
    <3>4. /\ records'[k] # None /\ records'[k].windowStart <= now
          /\ records'[k].blockedUntil = now + d
      BY <3>1, <1>4, <1>5
    <3>5. now' = now
      BY <1>1
    <3>6. \A a \in admitted'[k] : records'[k].blockedUntil - a.at >= Window
      BY <3>3, <3>4, <1>1
    <3>7. banned'[k] = records'[k].blockedUntil
      BY <3>1, <3>4
    <3>8. banned[k]' = records[k].blockedUntil'
      BY <3>7
    <3> QED BY <3>2, <3>4, <3>5, <3>6, <3>8 DEF TierInv, Kept, Since, Before
  <2> QED BY <2>1, <2>2
<1>9. \A c1 \in Clients : HttpInv(c1)' /\ WsInv(c1)'
  BY <1>1, TierFrame
<1> QED BY <1>1, <1>6, <1>7, <1>8, <1>9, BanPromised DEF LInv

LEMMA UnblockAllStep ==
    ASSUME LInv, NEW c \in Clients, UnblockAll(c)
    PROVE  LInv' /\ Promised
<1> DEFINE new(k) == [records[k] EXCEPT !.blockedUntil = 0, !.violations = 0]
<1>1. /\ UNCHANGED <<now, requests, rateLimitMap, admitted, served>> /\ now \in Nat
      /\ records' = [k \in TierKeys |->
            IF k[2] # c \/ records[k] = None THEN records[k] ELSE new(k)]
      /\ banned' = [k \in TierKeys |-> IF k[2] = c THEN 0 ELSE banned[k]]
  BY DEF UnblockAll, LInv, LTypeOK
<1>2. ASSUME NEW k \in TierKeys, records[k] # None
      PROVE  /\ new(k) \in RateLimitRecord /\ new(k) # None
             /\ new(k).count = records[k].count /\ new(k).windowStart = records[k].windowStart
             /\ new(k).blockedUntil = 0
  <2>1. records[k] \in RateLimitRecord
    BY <1>2 DEF LInv, LTypeOK
  <2>2. new(k) \in RateLimitRecord
    BY <2>1 DEF RateLimitRecord
  <2>3. /\ new(k).count = records[k].count /\ new(k).windowStart = records[k].windowStart
        /\ new(k).blockedUntil = 0
    BY <2>1 DEF RateLimitRecord
  <2> QED BY <2>2, <2>3, LimitsOK
<1> HIDE DEF new
<1>3. LTypeOK'
  <2>1. records' \in [TierKeys -> {None} \cup RateLimitRecord]
    BY <1>1, <1>2 DEF LInv, LTypeOK
  <2>2. banned' \in [TierKeys -> Nat]
    BY <1>1 DEF LInv, LTypeOK
  <2> QED BY <2>1, <2>2, <1>1 DEF LInv, LTypeOK
<1>4. \A k \in Limited : Past(k)'
  BY <1>1 DEF LInv, Past
<1>5. ASSUME NEW k \in TierKeys PROVE TierInv(k)'
  <2>1. CASE k[2] # c
    BY <2>1, <1>1, TierUntouched
  <2>2. CASE k[2] = c /\ records[k] = None
    BY <2>2, <1>1 DEF LInv, TierInv
  <2>3. CASE k[2] = c /\ records[k] # None
    <3>1. records'[k] = new(k) /\ banned'[k] = 0
      BY <2>3, <1>1
    <3>2. /\ records'[k].windowStart = records[k].windowStart
          /\ records'[k].count = records[k].count /\ records'[k].blockedUntil = 0
      BY <3>1, <2>3, <1>2
    <3>3. records[k].windowStart <= now
          /\ Kept(admitted[k], records[k].windowStart, records[k].count, Window - 1)
      BY <2>3 DEF LInv, TierInv
    <3> QED BY <3>1, <3>2, <3>3, <2>3, <1>1, <1>2 DEF TierInv, Kept, Since, Before
  <2> QED BY <2>1, <2>2, <2>3
<1>6. \A c1 \in Clients : HttpInv(c1)' /\ WsInv(c1)'
  BY <1>1, TierFrame
<1> QED BY <1>1, <1>3, <1>4, <1>5, <1>6, BanPromised DEF LInv

LEMMA ResetStep ==
    ASSUME LInv, NEW k \in TierKeys, Reset(k)
    PROVE  LInv' /\ Promised
<1>1. /\ UNCHANGED <<now, requests, rateLimitMap, served>> /\ now \in Nat /\ k \in Limited
      /\ records' = [records EXCEPT ![k] = None]
      /\ admitted' = [admitted EXCEPT ![k] = {}]
      /\ banned' = [banned EXCEPT ![k] = 0]
  BY LimitedKeys DEF Reset, LInv, LTypeOK
<1>2. LTypeOK'
  BY <1>1 DEF LInv, LTypeOK
<1>3. /\ admitted'[k] = {} /\ records'[k] = None /\ banned'[k] = 0
      /\ \A j \in Limited \ {k} : admitted'[j] = admitted[j]
      /\ \A j \in TierKeys \ {k} : records'[j] = records[j] /\ banned'[j] = banned[j]
  BY <1>1 DEF LInv, LTypeOK
<1>4. \A j \in Limited : Past(j)'
  BY <1>1, <1>3, FS_EmptySet DEF LInv, Past
<1>5. ASSUME NEW j \in TierKeys PROVE TierInv(j)'
  <2>1. CASE j # k
    BY <2>1, <1>1, <1>3, LimitedKeys, TierUntouched
  <2>2. CASE j = k
    BY <2>2, <1>1, <1>3 DEF TierInv
  <2> QED BY <2>1, <2>2
<1>6. \A c \in Clients : HttpInv(c)' /\ WsInv(c)'
  BY <1>1, <1>3, LimitedKeys, TierFrame
<1>7. Bans' = [Bans EXCEPT ![k] = 0]
  BY <1>1, LimitedKeys DEF Bans, LInv, LTypeOK
<1>8. Admission!Forgive(k)
  BY <1>1, <1>7 DEF Admission!Forgive
<1> QED BY <1>1, <1>2, <1>4, <1>5, <1>6, <1>8 DEF LInv, Promised, Admission!Next

(* What is forgotten has admitted nothing lately, and is not banned. *)
LEMMA CleanupTierStep ==
    ASSUME LInv, NEW t \in Tiers, CleanupTier(t)
    PROVE  LInv' /\ Promised
<1>1. /\ UNCHANGED <<now, requests, rateLimitMap, admitted, served, banned>> /\ now \in Nat
      /\ records' = [k \in TierKeys |-> IF k[1] = t /\ Outdated(k) THEN None ELSE records[k]]
  BY DEF CleanupTier, LInv, LTypeOK
<1>2. LTypeOK'
  BY <1>1 DEF LInv, LTypeOK
<1>3. \A k \in Limited : Past(k)'
  BY <1>1 DEF LInv, Past
<1>4. ASSUME NEW k \in TierKeys PROVE TierInv(k)'
  <2>1. CASE k[1] = t /\ Outdated(k)
    <3>1. /\ records'[k] = None /\ records[k] # None /\ records[k] \in RateLimitRecord
          /\ TierInv(k) /\ banned[k] \in Nat /\ k \in Limited
      BY <2>1, <1>1, LimitedKeys DEF Outdated, LInv, LTypeOK
    <3>2. \A a \in admitted[k] : a.at \in Nat
      BY <3>1 DEF LInv, LTypeOK, RequestSet
    <3>3. \A a \in admitted[k] : now - a.at >= Window
      BY <3>1, <3>2, <2>1, <1>1, LimitsOK DEF TierInv, Kept, Outdated, RateLimitRecord
    <3>4. banned[k] <= now
      BY <3>1, <2>1, <1>1 DEF TierInv, Outdated, RateLimitRecord
    <3> QED BY <3>1, <3>3, <3>4, <1>1 DEF TierInv
  <2>2. CASE ~(k[1] = t /\ Outdated(k))
    BY <2>2, <1>1, TierUntouched
  <2> QED BY <2>1, <2>2
<1>5. \A c \in Clients : HttpInv(c)' /\ WsInv(c)'
  BY <1>1, TierFrame
<1> QED BY <1>1, <1>2, <1>3, <1>4, <1>5, NothingPromised DEF LInv

-----------------------------------------------------------------------------
LEMMA LimitsTickStep ==
    ASSUME LInv, LimitsTick
    PROVE  LInv' /\ Promised
<1>1. /\ now \in Nat /\ now' = now + 1
      /\ UNCHANGED <<requests, rateLimitMap, records, admitted, served, banned>>
  BY DEF LimitsTick, Tick, LInv, LTypeOK
<1>2. LTypeOK'
  BY <1>1 DEF LInv, LTypeOK
<1>3. ASSUME NEW k \in Limited PROVE Past(k)'
  BY <1>1 DEF LInv, LTypeOK, Past, RequestSet
<1>4. ASSUME NEW c \in Clients PROVE HttpInv(c)' /\ WsInv(c)'
  <2>1. HttpInv(c)'
    <3>1. \A a \in admitted[<<"http", c>>] : a.at \in Nat
      <4>1. <<"http", c>> \in Limited
        BY DEF Limited
      <4>2. admitted[<<"http", c>>] \in SUBSET RequestSet
        BY <4>1 DEF LInv, LTypeOK
      <4> QED BY <4>2 DEF RequestSet
    <3> QED BY <3>1, <1>1, LimitsOK DEF LInv, HttpInv
  <2>2. rateLimitMap[c] # None => rateLimitMap[c].windowStart \in Nat
    BY DEF LInv, LTypeOK, WindowRecord
  <2>3. WsInv(c)'
    <3>1. WsInv(c)
      BY DEF LInv
    <3>2. rateLimitMap[c] # None => rateLimitMap[c].windowStart <= now'
      BY <3>1, <2>2, <1>1 DEF WsInv
    <3>3. admitted' = admitted /\ rateLimitMap' = rateLimitMap
      BY <1>1
    <3> HIDE <1>1
    <3> QED BY <3>1, <3>2, <3>3 DEF WsInv, Kept, Since, Before
  <2> QED BY <2>1, <2>3
<1>5. ASSUME NEW k \in TierKeys PROVE TierInv(k)'
  <2>1. /\ records[k] # None => records[k].windowStart \in Nat
        /\ banned[k] \in Nat /\ \A a \in admitted[k] : a.at \in Nat
    BY LimitedKeys DEF LInv, LTypeOK, RateLimitRecord, RequestSet
  <2>2. TierInv(k)
    BY DEF LInv
  <2>3. CASE records[k] = None
    BY <2>1, <2>2, <2>3, <1>1, LimitsOK DEF TierInv
  <2>4. CASE records[k] # None
    BY <2>1, <2>2, <2>4, <1>1 DEF TierInv, Kept, Since, Before
  <2> QED BY <2>3, <2>4
<1>6. Bans' = Bans
  BY <1>1 DEF Bans
<1>7. Admission!Pass
  BY <1>1, <1>6 DEF Admission!Pass
<1> QED BY <1>2, <1>3, <1>4, <1>5, <1>7 DEF LInv, Promised, Admission!Next

-----------------------------------------------------------------------------
LEMMA LimitsInitInv == now = 0 /\ LimitsInit => LInv
<1> SUFFICES ASSUME now = 0, LimitsInit PROVE LInv
  OBVIOUS
<1>1. \A k \in Limited : admitted[k] = {}
  BY DEF LimitsInit
<1>2. LTypeOK
  BY FS_EmptySet DEF LimitsInit, LTypeOK
<1>3. \A k \in Limited : Past(k)
  BY <1>1, FS_EmptySet DEF Past
<1>4. \A c \in Clients : HttpInv(c) /\ WsInv(c)
  BY <1>1, LimitedKeys DEF LimitsInit, HttpInv, WsInv
<1>5. \A k \in TierKeys : TierInv(k)
  BY <1>1, LimitedKeys DEF LimitsInit, TierInv
<1> QED BY <1>2, <1>3, <1>4, <1>5 DEF LInv

LEMMA LimitsStep == LInv /\ [LimitsNext]_limitVars => LInv' /\ Promised
<1> SUFFICES ASSUME LInv, [LimitsNext]_limitVars PROVE LInv' /\ Promised
  OBVIOUS
<1>1. CASE HttpNext
  BY <1>1, CheckHttpStep, CleanupHttpStep DEF HttpNext
<1>2. CASE WsNext
  BY <1>2, CheckWsStep DEF WsNext
<1>3. CASE TierNext
  BY <1>3, CheckTierStep, ResetStep, UnblockAllStep, BlockAllStep, CleanupTierStep DEF TierNext
<1>4. CASE LimitsTick
  BY <1>4, LimitsTickStep
<1>5. CASE UNCHANGED limitVars
  <2>1. LInv'
    BY <1>5 DEF limitVars, LInv, LTypeOK, Past, HttpInv, WsInv, TierInv, Kept, Since, Before
  <2> QED BY <2>1, <1>5, NothingPromised DEF limitVars
<1> QED BY <1>1, <1>2, <1>3, <1>4, <1>5 DEF LimitsNext

(* security-middleware.js, index.js, rate-limiter.ts: whatever the window, *)
(* the limit and the durations of blocks, and however requests, blocks,    *)
(* resets and cleanups come, the three limiters keep the promise of        *)
(* AdmissionLimit.                                                         *)
THEOREM LimitersKeepPromise == LimitsSpec => LimitsKept
<1>1. now = 0 /\ LimitsInit => Admission!Init
  BY DEF LimitsInit, Admission!Init, Bans
<1> QED BY <1>1, LimitsInitInv, LimitsStep, PTL DEF LimitsSpec, LimitsKept, Admission!Spec, Promised
=============================================================================
