------------------------------- MODULE RfqProofs -------------------------------
(***************************************************************************)
(* The router keeps its maps straight, tells one winner, and implements    *)
(* RfqAuction, for any makers, sockets, requests, prices and timeouts.     *)
(* The premium of a request is paid once, by the maker it was awarded to,  *)
(* through any losses of sockets and restarts of the makers.               *)
(***************************************************************************)
EXTENDS MarketMakers, Numbers, FiniteSetTheorems

(* A message went to a socket that its maker holds, and a winner or a      *)
(* loser was told only of a request that is filled.                        *)
MessagesSent ==
    \A msg \in received :
        /\ msg.to \in Connections /\ holder[msg.to] # None
        /\ msg.rfq \in Rfqs
        /\ msg.kind \in {"fill", "rfq_lost"} => filled[msg.rfq] # None

(* A request that was given up is late or has no valid quote, and both     *)
(* last: quotes only expire, and no new ones are taken.                    *)
Decided(r) ==
    /\ filled[r] # None <=> status[r] = "filled"
    /\ status[r] = "expired" => now > terms[r].expiresAt
    /\ status[r] = "no_valid_quotes" => now > terms[r].expiresAt \/ ValidQuotes(r) = {}

RInv ==
    /\ RouterTypeOK
    /\ NoStaleRegistration
    /\ MessagesSent
    /\ OneWinnerTold
    /\ \A r \in Rfqs : Decided(r)

-----------------------------------------------------------------------------
(* The best quote *)

LEMMA RanksTotal ==
    ASSUME NEW r, NEW m, NEW n,
           quotes[r][m].premium \in Int, quotes[r][n].premium \in Int,
           quotes[r][m].place \in Nat, quotes[r][n].place \in Nat
    PROVE  RanksBefore(r, m, n) \/ RanksBefore(r, n, m)
BY DEF RanksBefore

LEMMA RanksTransitive ==
    ASSUME NEW r, NEW l, NEW m, NEW n,
           quotes[r][l].premium \in Int, quotes[r][m].premium \in Int, quotes[r][n].premium \in Int,
           quotes[r][l].place \in Nat, quotes[r][m].place \in Nat, quotes[r][n].place \in Nat,
           RanksBefore(r, l, m), RanksBefore(r, m, n)
    PROVE  RanksBefore(r, l, n)
BY DEF RanksBefore

(* A quote that fewest others are better than is the best: finitely many   *)
(* quotes have one.                                                        *)
LEMMA BestIsValid ==
    ASSUME RInv, NEW r \in Rfqs, ValidQuotes(r) # {}
    PROVE  /\ BestQuote(r) \in ValidQuotes(r)
           /\ \A n \in ValidQuotes(r) : RanksBefore(r, BestQuote(r), n)
<1> DEFINE S         == ValidQuotes(r)
           Better(m) == {n \in S : ~RanksBefore(r, m, n)}
           Counts    == {Cardinality(Better(m)) : m \in S}
<1>1. /\ IsFiniteSet(S) /\ \A m \in S : m \in DOMAIN quotes[r]
      /\ \A m \in S : quotes[r][m].premium \in Int /\ quotes[r][m].place \in Nat
  <2>1. DOMAIN quotes[r] \subseteq Makers /\ quotes[r] \in [DOMAIN quotes[r] -> QuoteRecords]
    BY DEF RInv, RouterTypeOK
  <2>2. S \in SUBSET DOMAIN quotes[r] /\ S \in SUBSET Makers
    BY <2>1 DEF ValidQuotes
  <2>3. IsFiniteSet(S)
    BY <2>2, RouterConstantsOK, FS_Subset
  <2>4. \A m \in S : quotes[r][m] \in QuoteRecords
    BY <2>1, <2>2
  <2> QED BY <2>2, <2>3, <2>4 DEF QuoteRecords
<1> HIDE DEF S
<1>2. ASSUME NEW m \in S
      PROVE  IsFiniteSet(Better(m)) /\ Cardinality(Better(m)) \in Nat
  <2>1. Better(m) \in SUBSET S
    OBVIOUS
  <2> HIDE DEF Better
  <2> QED BY <2>1, <1>1, FS_Subset, FS_CardinalityType
<1>3. PICK m \in S : \A n \in S : Cardinality(Better(m)) <= Cardinality(Better(n))
  <2> HIDE DEF Better
  <2>1. Counts \in SUBSET Nat /\ Counts # {}
    BY <1>2 DEF S
  <2>2. PICK x \in Counts : \A y \in Counts : x <= y
    BY <2>1, SomeSmallest
  <2> QED BY <2>2
<1>4. ASSUME NEW n \in S, ~RanksBefore(r, m, n) PROVE FALSE
  <2>1. RanksBefore(r, n, m) /\ RanksBefore(r, n, n)
    BY <1>1, <1>4, RanksTotal
  <2>2. Better(n) \in SUBSET Better(m) /\ n \in Better(m) /\ n \notin Better(n)
    BY <1>1, <1>4, <2>1, RanksTransitive
  <2> HIDE DEF Better
  <2>3. Cardinality(Better(n)) <= Cardinality(Better(m))
        /\ Cardinality(Better(n)) # Cardinality(Better(m))
    BY <1>2, <2>2, FS_Subset
  <2> QED BY <2>3, <1>2, <1>3
<1>5. \E b \in ValidQuotes(r) : \A n \in ValidQuotes(r) : RanksBefore(r, b, n)
  BY <1>4 DEF S
<1> QED BY <1>5 DEF BestQuote

-----------------------------------------------------------------------------
(* The invariant under each handler *)

LEMMA InitRInv == Init => RInv
<1> SUFFICES ASSUME Init PROVE RInv
  OBVIOUS
<1>1. RouterTypeOK
  BY RouterConstantsOK DEF Init, RouterTypeOK
<1>2. NoStaleRegistration /\ MessagesSent /\ OneWinnerTold
  BY DEF Init, NoStaleRegistration, Registered, MessagesSent, OneWinnerTold
<1>3. \A r \in Rfqs : Decided(r)
  BY DEF Init, Decided
<1> QED BY <1>1, <1>2, <1>3 DEF RInv

(* What a step that decides nothing and sends nothing leaves as it was. *)
LEMMA DecidedUntouched ==
    ASSUME RInv, UNCHANGED <<now, status, terms, quotes, filled>>
    PROVE  \A r \in Rfqs : Decided(r)'
BY DEF RInv, Decided, ValidQuotes

LEMMA ConnectStep ==
    ASSUME RInv, NEW c \in Connections, NEW m \in Makers, Connect(c, m)
    PROVE  RInv'
<1>1. RouterTypeOK'
  BY RouterConstantsOK DEF Connect, rfqVars, RInv, RouterTypeOK
<1>2. NoStaleRegistration'
  BY RouterConstantsOK DEF Connect, RInv, RouterTypeOK, NoStaleRegistration, Registered
<1>3. MessagesSent' /\ OneWinnerTold'
  <2>1. \A d \in Connections : holder[d] # None => holder'[d] = holder[d]
    BY DEF Connect, RInv, RouterTypeOK
  <2>2. received' = received /\ filled' = filled
    BY DEF Connect, rfqVars
  <2> QED BY <2>1, <2>2 DEF RInv, MessagesSent, OneWinnerTold
<1>4. \A r \in Rfqs : Decided(r)'
  BY DecidedUntouched DEF Connect, rfqVars
<1> QED BY <1>1, <1>2, <1>3, <1>4 DEF RInv

LEMMA LoseStep ==
    ASSUME RInv, NEW c \in Connections, Lose(c)
    PROVE  RInv'
<1>1. RouterTypeOK'
  BY DEF Lose, rfqVars, RInv, RouterTypeOK
<1>2. NoStaleRegistration' /\ MessagesSent' /\ OneWinnerTold'
  BY DEF Lose, rfqVars, RInv, NoStaleRegistration, Registered, MessagesSent, OneWinnerTold
<1>3. \A r \in Rfqs : Decided(r)'
  BY DecidedUntouched DEF Lose, rfqVars
<1> QED BY <1>1, <1>2, <1>3 DEF RInv

(* Whatever socket is closed, its maker has none registered any more. *)
LEMMA CloseStep ==
    ASSUME RInv, NEW c \in Connections, Close(c)
    PROVE  RInv'
<1>1. RouterTypeOK'
  BY DEF Close, rfqVars, RInv, RouterTypeOK
<1>2. NoStaleRegistration'
  BY RouterConstantsOK DEF Close, RInv, RouterTypeOK, NoStaleRegistration, Registered
<1>3. MessagesSent' /\ OneWinnerTold'
  BY DEF Close, rfqVars, RInv, MessagesSent, OneWinnerTold
<1>4. \A r \in Rfqs : Decided(r)'
  BY DecidedUntouched DEF Close, rfqVars
<1> QED BY <1>1, <1>2, <1>3, <1>4 DEF RInv

LEMMA CreateRfqStep ==
    ASSUME RInv, NEW r \in Rfqs, NEW f \in Floors, NEW n \in Quorums, NEW t \in QuoteTimeouts,
           CreateRfq(r, f, n, t)
    PROVE  RInv'
<1> DEFINE new == [premiumFloor |-> f, minQuotes |-> n, createdAt |-> now, expiresAt |-> now + t]
<1>1. /\ UNCHANGED <<now, holder, attached, reachable, makers, quotes, filled>>
      /\ status[r] = "none"
      /\ status' = [status EXCEPT ![r] = "open"] /\ listed' = listed \cup {r}
      /\ terms' = [terms EXCEPT ![r] = new]
  BY DEF CreateRfq, socketVars
<1>2. new \in RfqTerms /\ new # None
  BY RouterConstantsOK DEF RInv, RouterTypeOK, RfqTerms
<1> HIDE DEF new
<1>3. RouterTypeOK'
  BY <1>1, <1>2 DEF RInv, RouterTypeOK
<1>4. NoStaleRegistration'
  BY <1>1 DEF RInv, NoStaleRegistration, Registered
<1>5. MessagesSent' /\ OneWinnerTold'
  <2>1. ASSUME NEW msg \in received', msg \notin received
        PROVE  /\ msg.to \in Connections /\ holder[msg.to] # None
               /\ msg.kind = "rfq" /\ msg.rfq = r
    <3>1. PICK m \in Registered : msg = Message(m, "rfq", r)
      BY <2>1 DEF CreateRfq, Delivered
    <3> QED BY <3>1, RouterConstantsOK
            DEF Message, Registered, RInv, RouterTypeOK, NoStaleRegistration
  <2> QED BY <1>1, <2>1 DEF RInv, MessagesSent, OneWinnerTold
<1>6. ASSUME NEW q \in Rfqs PROVE Decided(q)'
  <2>1. CASE q = r
    BY <2>1, <1>1 DEF RInv, RouterTypeOK, Decided
  <2>2. CASE q # r
    BY <2>2, <1>1 DEF RInv, RouterTypeOK, Decided, ValidQuotes
  <2> QED BY <2>1, <2>2
<1> QED BY <1>3, <1>4, <1>5, <1>6 DEF RInv

(* The quotes of r after a quote of m. *)
LEMMA QuoteStep ==
    ASSUME RInv, NEW c \in Connections, NEW r \in Rfqs, NEW p \in Prices, NEW l \in Lifetimes,
           Quote(c, r, p, l)
    PROVE  RInv'
<1> DEFINE m == holder[c]
           q == [premium |-> p, validUntil |-> now + l, makerWallet |-> makers[m],
                 place |-> IF m \in DOMAIN quotes[r]
                           THEN quotes[r][m].place
                           ELSE Cardinality(DOMAIN quotes[r]) + 1]
<1>1. /\ UNCHANGED <<now, holder, attached, reachable, makers, listed, status, terms, filled,
                     received>>
      /\ c \in attached /\ status[r] = "open" /\ m \in Makers
      /\ quotes' = [quotes EXCEPT ![r] = Put(quotes[r], m, q)]
  BY DEF Quote, OpenToQuotes, socketVars, RInv, RouterTypeOK
<1>2. q \in QuoteRecords
  <2>1. /\ quotes[r] \in [DOMAIN quotes[r] -> QuoteRecords] /\ DOMAIN quotes[r] \in SUBSET Makers
        /\ makers[m] \in Connections \cup {None} /\ now \in Nat
    BY <1>1 DEF RInv, RouterTypeOK
  <2>2. Cardinality(DOMAIN quotes[r]) \in Nat
    BY <2>1, RouterConstantsOK, FS_Subset, FS_CardinalityType
  <2>3. q.place \in Nat
    BY <2>1, <2>2 DEF QuoteRecords
  <2> QED BY <2>1, <2>3, RouterConstantsOK DEF QuoteRecords
<1> HIDE DEF q
<1>3. /\ DOMAIN quotes'[r] \subseteq Makers
      /\ quotes'[r] \in [DOMAIN quotes'[r] -> QuoteRecords]
      /\ \A s \in Rfqs \ {r} : quotes'[s] = quotes[s]
  BY <1>1, <1>2 DEF RInv, RouterTypeOK, Put
<1>4. RouterTypeOK'
  BY <1>1, <1>3 DEF RInv, RouterTypeOK
<1>5. NoStaleRegistration' /\ MessagesSent' /\ OneWinnerTold'
  BY <1>1 DEF RInv, NoStaleRegistration, Registered, MessagesSent, OneWinnerTold
<1>6. ASSUME NEW s \in Rfqs PROVE Decided(s)'
  BY <1>1, <1>3 DEF RInv, Decided, ValidQuotes
<1> QED BY <1>4, <1>5, <1>6 DEF RInv

(* What a step that only gives requests up must have found. *)
LEMMA GivenUp ==
    ASSUME RInv, NEW r \in Rfqs, NEW end \in {"expired", "no_valid_quotes"},
           status' = [status EXCEPT ![r] = end],
           UNCHANGED <<now, socketVars, listed, terms, quotes, filled, received>>,
           status[r] # "none", filled[r] = None,
           end = "expired" => now > terms[r].expiresAt,
           end = "no_valid_quotes" => ValidQuotes(r) = {}
    PROVE  RInv'
<1>1. RouterTypeOK'
  BY DEF RInv, RouterTypeOK, socketVars
<1>2. NoStaleRegistration' /\ MessagesSent' /\ OneWinnerTold'
  BY DEF socketVars, RInv, NoStaleRegistration, Registered, MessagesSent, OneWinnerTold
<1>3. ASSUME NEW s \in Rfqs PROVE Decided(s)'
  <2>1. ValidQuotes(s)' = ValidQuotes(s)
    BY DEF ValidQuotes
  <2> QED BY <2>1 DEF RInv, RouterTypeOK, Decided
<1> QED BY <1>1, <1>2, <1>3 DEF RInv

LEMMA LateQuoteStep ==
    ASSUME RInv, NEW c \in Connections, NEW r \in Rfqs, LateQuote(c, r)
    PROVE  RInv'
<1>1. filled[r] = None
  BY DEF LateQuote, OpenToQuotes, RInv, Decided
<1> QED BY <1>1, GivenUp DEF LateQuote, OpenToQuotes

LEMMA FillExpiredStep ==
    ASSUME RInv, NEW r \in Rfqs, FillExpired(r)
    PROVE  RInv'
<1>1. status[r] # "none"
  BY DEF FillExpired, CanBeFilled, RInv, RouterTypeOK
<1> QED BY <1>1, GivenUp DEF FillExpired, CanBeFilled

LEMMA FillNoneValidStep ==
    ASSUME RInv, NEW r \in Rfqs, FillNoneValid(r)
    PROVE  RInv'
<1>1. status[r] # "none"
  BY DEF FillNoneValid, EnoughQuotes, CanBeFilled, RInv, RouterTypeOK
<1> QED BY <1>1, GivenUp DEF FillNoneValid, EnoughQuotes, CanBeFilled

(* The winner is told that it is, and nobody else is. *)
LEMMA FillBestStep ==
    ASSUME RInv, NEW r \in Rfqs, FillBest(r)
    PROVE  RInv'
<1> DEFINE winner == BestQuote(r)
           fill == [maker |-> winner, premium |-> quotes[r][winner].premium]
<1>1. /\ UNCHANGED <<now, holder, attached, reachable, makers, listed, terms, quotes>>
      /\ filled[r] = None /\ status[r] # "none"
      /\ filled' = [filled EXCEPT ![r] = fill]
      /\ status' = [status EXCEPT ![r] = "filled"]
  BY DEF FillBest, EnoughQuotes, CanBeFilled, socketVars, RInv, RouterTypeOK
<1>2. winner \in ValidQuotes(r)
  BY BestIsValid DEF FillBest
<1>3. winner \in Makers /\ quotes[r][winner].premium \in Int
  BY <1>2 DEF ValidQuotes, RInv, RouterTypeOK, QuoteRecords
<1>4. fill \in Fills /\ fill # None /\ fill.maker = winner
  BY <1>3, RouterConstantsOK DEF Fills
<1>5. ASSUME NEW msg \in received', msg \notin received
      PROVE  /\ msg.to \in Connections /\ holder[msg.to] # None
             /\ msg.rfq = r
             /\ msg.kind = "fill" => holder[msg.to] = winner
             /\ msg.kind = "rfq_lost" => holder[msg.to] # winner
  <2>1. \/ winner \in Registered /\ msg = Message(winner, "fill", r)
        \/ \E m \in (ValidQuotes(r) \ {winner}) \cap Registered : msg = Message(m, "rfq_lost", r)
    BY <1>5 DEF FillBest, Delivered
  <2>2. \A m \in Registered : /\ makers[m] \in Connections /\ holder[makers[m]] = m
                              /\ m # None
    BY RouterConstantsOK DEF Registered, RInv, RouterTypeOK, NoStaleRegistration
  <2> QED BY <2>1, <2>2 DEF Message
<1> HIDE DEF winner, fill
<1>6. RouterTypeOK'
  BY <1>1, <1>4 DEF RInv, RouterTypeOK
<1>7. NoStaleRegistration'
  BY <1>1 DEF RInv, NoStaleRegistration, Registered
<1>8. filled'[r] = fill /\ \A s \in Rfqs \ {r} : filled'[s] = filled[s]
  BY <1>1 DEF RInv, RouterTypeOK
<1>9. MessagesSent'
  BY <1>1, <1>4, <1>5, <1>8 DEF RInv, MessagesSent
<1>10. OneWinnerTold'
  <2>1. ASSUME NEW msg \in received, msg.kind \in {"fill", "rfq_lost"} PROVE msg.rfq \in Rfqs \ {r}
    BY <2>1, <1>1 DEF RInv, MessagesSent
  <2> QED BY <2>1, <1>1, <1>4, <1>5, <1>8 DEF RInv, OneWinnerTold
<1>11. ASSUME NEW s \in Rfqs PROVE Decided(s)'
  <2>1. CASE s = r
    BY <2>1, <1>1, <1>4, <1>8 DEF RInv, RouterTypeOK, Decided
  <2>2. CASE s # r
    BY <2>2, <1>1, <1>8 DEF RInv, RouterTypeOK, Decided, ValidQuotes
  <2> QED BY <2>1, <2>2
<1> QED BY <1>6, <1>7, <1>9, <1>10, <1>11 DEF RInv

LEMMA WaitStep ==
    ASSUME RInv, UNCHANGED <<now, socketVars, rfqVars, received>>
    PROVE  RInv'
<1>1. RouterTypeOK' /\ NoStaleRegistration' /\ MessagesSent' /\ OneWinnerTold'
  BY DEF socketVars, rfqVars, RInv, RouterTypeOK, NoStaleRegistration, Registered,
         MessagesSent, OneWinnerTold
<1>2. \A r \in Rfqs : Decided(r)'
  BY DecidedUntouched DEF rfqVars
<1> QED BY <1>1, <1>2 DEF RInv

LEMMA CleanupStep ==
    ASSUME RInv, Cleanup
    PROVE  RInv'
<1>1. RouterTypeOK' /\ NoStaleRegistration' /\ MessagesSent' /\ OneWinnerTold'
  BY DEF Cleanup, socketVars, RInv, RouterTypeOK, NoStaleRegistration, Registered,
         MessagesSent, OneWinnerTold
<1>2. \A r \in Rfqs : Decided(r)'
  BY DecidedUntouched DEF Cleanup
<1> QED BY <1>1, <1>2 DEF RInv

LEMMA RouterTickStep ==
    ASSUME RInv, Tick
    PROVE  RInv'
<1>1. /\ now \in Nat /\ now' = now + 1
      /\ UNCHANGED <<holder, attached, reachable, makers, listed, status, terms, quotes,
                     filled, received>>
  BY DEF Tick, socketVars, rfqVars, RInv, RouterTypeOK
<1>2. RouterTypeOK'
  BY <1>1 DEF RInv, RouterTypeOK
<1>3. NoStaleRegistration' /\ MessagesSent' /\ OneWinnerTold'
  BY <1>1 DEF RInv, NoStaleRegistration, Registered, MessagesSent, OneWinnerTold
<1>4. ASSUME NEW r \in Rfqs PROVE Decided(r)'
  <2>1. status[r] # "none" => terms[r] \in RfqTerms
    BY DEF RInv, RouterTypeOK
  <2>2. \A m \in DOMAIN quotes[r] : quotes[r][m].validUntil \in Nat
    BY DEF RInv, RouterTypeOK, QuoteRecords
  <2>3. ValidQuotes(r)' \subseteq ValidQuotes(r)
    BY <1>1, <2>2 DEF ValidQuotes
  <2>4. now > terms[r].expiresAt /\ status[r] # "none" => now' > terms[r].expiresAt
    BY <1>1, <2>1 DEF RfqTerms
  <2> QED BY <1>1, <2>3, <2>4 DEF RInv, Decided
<1> QED BY <1>2, <1>3, <1>4 DEF RInv

LEMMA NextRInv == RInv /\ [Next]_vars => RInv'
<1> SUFFICES ASSUME RInv, [Next]_vars PROVE RInv'
  OBVIOUS
<1>1. ASSUME NEW c \in Connections,
             (\E m \in Makers : Connect(c, m)) \/ Lose(c) \/ Close(c)
      PROVE  RInv'
  BY <1>1, ConnectStep, LoseStep, CloseStep
<1>2. ASSUME NEW r \in Rfqs,
             \/ \E f \in Floors, n \in Quorums, t \in QuoteTimeouts : CreateRfq(r, f, n, t)
             \/ \E c \in Connections : \/ \E p \in Prices, l \in Lifetimes : Quote(c, r, p, l)
                                      \/ LateQuote(c, r)
             \/ FillExpired(r) \/ FillNoneValid(r) \/ FillBest(r)
      PROVE  RInv'
  BY <1>2, CreateRfqStep, QuoteStep, LateQuoteStep, FillExpiredStep, FillNoneValidStep,
     FillBestStep
<1>3. ASSUME NEW w \in Waiters,
             \/ \E r \in Rfqs, n \in Quorums \ {0}, t \in WaitTimeouts : StartWait(w, r, n, t)
             \/ Poll(w)
      PROVE  RInv'
  BY <1>3, WaitStep DEF StartWait, Poll
<1>4. CASE UNCHANGED vars
  BY <1>4, WaitStep DEF vars
<1> QED BY <1>1, <1>2, <1>3, <1>4, CleanupStep, RouterTickStep DEF Next

-----------------------------------------------------------------------------
(* index.js: the maps hold what the handlers expect in them. *)
THEOREM RouterTypes == Spec => []RouterTypeOK
<1> QED BY InitRInv, NextRInv, PTL DEF Spec, RInv

(* index.js, the connection and close handlers and the broadcasts: however *)
(* makers lose their sockets and reconnect, none is registered with a      *)
(* socket whose close was handled, or with another maker's.                *)
THEOREM RegistrationsFresh == Spec => []NoStaleRegistration
<1> QED BY InitRInv, NextRInv, PTL DEF Spec, RInv

(* index.js, POST /rfq/:id/fill: one maker at most is ever told to pay for *)
(* a request, the one of its fill, however often it is filled.             *)
THEOREM OnlyWinnerTold == Spec => []OneWinnerTold
<1> QED BY InitRInv, NextRInv, PTL DEF Spec, RInv

-----------------------------------------------------------------------------
(* The auction *)

Unfilled(r) == status[r] \in {"expired", "no_valid_quotes"}

LEMMA DeadStep ==
    ASSUME RInv, [Next]_vars, NEW r \in Rfqs, Unfilled(r)
    PROVE  filled'[r] = None /\ Unfilled(r)'
<1>1. filled[r] = None /\ Decided(r)
  BY DEF RInv, Decided, Unfilled
<1>2. CASE UNCHANGED <<status, filled>>
  BY <1>1, <1>2 DEF Unfilled
<1>3. ASSUME NEW s \in Rfqs, NEW f \in Floors, NEW n \in Quorums, NEW t \in QuoteTimeouts,
             CreateRfq(s, f, n, t)
      PROVE  filled'[r] = None /\ Unfilled(r)'
  BY <1>1, <1>3 DEF CreateRfq, RInv, RouterTypeOK, Unfilled
<1>4. ASSUME NEW c \in Connections, NEW s \in Rfqs, LateQuote(c, s)
      PROVE  filled'[r] = None /\ Unfilled(r)'
  BY <1>1, <1>4 DEF LateQuote, RInv, RouterTypeOK, Unfilled
<1>5. ASSUME NEW s \in Rfqs, FillExpired(s) \/ FillNoneValid(s)
      PROVE  filled'[r] = None /\ Unfilled(r)'
  BY <1>1, <1>5 DEF FillExpired, FillNoneValid, RInv, RouterTypeOK, Unfilled
<1>6. ASSUME NEW s \in Rfqs, FillBest(s)
      PROVE  filled'[r] = None /\ Unfilled(r)'
  <2>1. s # r
    <3>1. terms[r] \in RfqTerms /\ now \in Nat
      BY DEF RInv, RouterTypeOK, Unfilled
    <3> QED BY <3>1, <1>1, <1>6 DEF FillBest, EnoughQuotes, Decided, Unfilled, RfqTerms
  <2> QED BY <2>1, <1>1, <1>6 DEF FillBest, RInv, RouterTypeOK, Unfilled
<1>7. CASE \/ \E c \in Connections : (\E m \in Makers : Connect(c, m)) \/ Lose(c) \/ Close(c)
           \/ \E s \in Rfqs, c \in Connections, p \in Prices, l \in Lifetimes : Quote(c, s, p, l)
           \/ \E w \in Waiters : \/ \E s \in Rfqs, n \in Quorums \ {0}, t \in WaitTimeouts :
                                       StartWait(w, s, n, t)
                                 \/ Poll(w)
           \/ Cleanup \/ Tick \/ UNCHANGED vars
  BY <1>2, <1>7 DEF Connect, Lose, Close, Quote, StartWait, Poll, Cleanup, Tick, rfqVars, vars
<1> QED BY <1>3, <1>4, <1>5, <1>6, <1>7 DEF Next

(* index.js, POST /rfq/:id/fill: a request that was given up, because it   *)
(* was late or because no quote was valid, is never filled afterwards.     *)
THEOREM DeadRequestsStayUnfilled == Spec => DeadStaysUnfilled
<1>1. RInv /\ [Next]_vars =>
        [\A r \in Rfqs : status[r] \in {"expired", "no_valid_quotes"} =>
             filled'[r] = None /\ status'[r] \in {"expired", "no_valid_quotes"}]_vars
  BY DeadStep DEF Unfilled
<1> QED BY <1>1, InitRInv, NextRInv, PTL DEF Spec, DeadStaysUnfilled

LEMMA AuctionState ==
    ASSUME RInv, NEW r \in Rfqs
    PROVE  /\ AuctionTerms[r] # None <=> status[r] # "none"
           /\ status[r] # "none" =>
                /\ terms[r] \in RfqTerms
                /\ AuctionTerms[r].deadline = terms[r].expiresAt
                /\ AuctionTerms[r].floor = terms[r].premiumFloor
                /\ AuctionTerms[r].quorum = terms[r].minQuotes
           /\ Auction!Offering(r) = DOMAIN quotes[r]
           /\ \A m \in DOMAIN quotes[r] :
                /\ AuctionOffers[r][m].premium = quotes[r][m].premium
                /\ AuctionOffers[r][m].validUntil = quotes[r][m].validUntil
           /\ status[r] # "none" => Auction!Standing(r) = ValidQuotes(r)
<1>1. /\ terms[r] \in {None} \cup RfqTerms /\ (status[r] = "none" <=> terms[r] = None)
      /\ DOMAIN quotes[r] \subseteq Makers /\ quotes[r] \in [DOMAIN quotes[r] -> QuoteRecords]
  BY DEF RInv, RouterTypeOK
<1>2. terms[r] # None =>
        [deadline |-> terms[r].expiresAt, floor |-> terms[r].premiumFloor,
         quorum |-> terms[r].minQuotes] \in Announcements
  BY <1>1 DEF RfqTerms, Announcements
<1>3. AuctionTerms[r] # None <=> status[r] # "none"
  BY <1>1, <1>2, RouterConstantsOK DEF AuctionTerms
<1>4. status[r] # "none" =>
        /\ terms[r] \in RfqTerms
        /\ AuctionTerms[r].deadline = terms[r].expiresAt
        /\ AuctionTerms[r].floor = terms[r].premiumFloor
        /\ AuctionTerms[r].quorum = terms[r].minQuotes
  BY <1>1 DEF AuctionTerms
<1>5. ASSUME NEW m \in DOMAIN quotes[r]
      PROVE  /\ m \in Makers /\ AuctionOffers[r][m] # None
             /\ AuctionOffers[r][m].premium = quotes[r][m].premium
             /\ AuctionOffers[r][m].validUntil = quotes[r][m].validUntil
  <2>1. m \in Makers /\ quotes[r][m] \in QuoteRecords
    BY <1>1
  <2>2. AuctionOffers[r][m] = [premium |-> quotes[r][m].premium,
                               validUntil |-> quotes[r][m].validUntil]
    BY <2>1 DEF AuctionOffers
  <2>3. AuctionOffers[r][m] \in Offers
    BY <2>1, <2>2 DEF QuoteRecords, Offers
  <2> QED BY <2>1, <2>2, <2>3, RouterConstantsOK
<1>6. \A m \in Makers \ DOMAIN quotes[r] : AuctionOffers[r][m] = None
  BY DEF AuctionOffers
<1>7. Auction!Offering(r) = DOMAIN quotes[r]
  BY <1>1, <1>5, <1>6 DEF Auction!Offering
<1>8. status[r] # "none" => Auction!Standing(r) = ValidQuotes(r)
  BY <1>4, <1>5, <1>7 DEF Auction!Standing, ValidQuotes
<1> QED BY <1>3, <1>4, <1>5, <1>7, <1>8

AuctionStep == [Auction!Next]_<<now, AuctionTerms, AuctionOffers, filled, Dead>>

LEMMA NoAuctionStep ==
    ASSUME UNCHANGED <<now, status, terms, quotes, filled>>
    PROVE  AuctionStep
BY DEF AuctionStep, AuctionTerms, AuctionOffers, Dead

LEMMA Announced ==
    ASSUME RInv, RInv', NEW r \in Rfqs, NEW f \in Floors, NEW n \in Quorums, NEW t \in QuoteTimeouts,
           CreateRfq(r, f, n, t)
    PROVE  Auction!Announce(r)
<1>1. /\ UNCHANGED <<now, quotes, filled>> /\ status[r] = "none"
      /\ status' = [status EXCEPT ![r] = "open"]
      /\ \A s \in Rfqs \ {r} : terms'[s] = terms[s]
  BY DEF CreateRfq, RInv, RouterTypeOK
<1>2. AuctionTerms[r] = None
  BY <1>1, AuctionState
<1>3. AuctionTerms'[r] # None
  <2>1. status'[r] # "none"
    BY <1>1 DEF RInv, RouterTypeOK
  <2>2. terms'[r] \in RfqTerms
    BY <2>1 DEF RInv, RouterTypeOK
  <2>3. AuctionTerms'[r] \in Announcements
    BY <2>2, RouterConstantsOK DEF AuctionTerms, RfqTerms, Announcements
  <2> QED BY <2>3, RouterConstantsOK
<1>4. AuctionTerms' = [AuctionTerms EXCEPT ![r] = AuctionTerms'[r]]
  BY <1>1 DEF AuctionTerms
<1>5. UNCHANGED <<AuctionOffers, Dead>>
  BY <1>1 DEF AuctionOffers, Dead, RInv, RouterTypeOK
<1> QED BY <1>1, <1>2, <1>3, <1>4, <1>5 DEF Auction!Announce

OfferIn(qs, m) ==
    IF m \notin DOMAIN qs THEN None
    ELSE [premium |-> qs[m].premium, validUntil |-> qs[m].validUntil]

LEMMA Offered ==
    ASSUME RInv, RInv', NEW c \in Connections, NEW r \in Rfqs, NEW p \in Prices, NEW l \in Lifetimes,
           Quote(c, r, p, l)
    PROVE  Auction!Offer(r, holder[c])
<1> DEFINE m == holder[c]
<1>1. /\ UNCHANGED <<now, status, terms, filled>>
      /\ status[r] = "open" /\ now <= terms[r].expiresAt /\ m \in Makers
  BY DEF Quote, OpenToQuotes, socketVars, RInv, RouterTypeOK
<1>2. PICK q : quotes' = [quotes EXCEPT ![r] = Put(quotes[r], m, q)]
  BY DEF Quote
<1>3. Auction!Undecided(r) /\ now <= AuctionTerms[r].deadline
  <2>1. filled[r] = None
    BY <1>1 DEF RInv, Decided
  <2> QED BY <2>1, <1>1, AuctionState DEF Auction!Undecided, Dead
<1>4. AuctionOffers'[r][m] # None
  <2>1. m \in DOMAIN quotes'[r] /\ quotes'[r][m] \in QuoteRecords
    <3>1. quotes'[r] = Put(quotes[r], m, q)
      BY <1>2 DEF RInv, RouterTypeOK
    <3>2. m \in DOMAIN quotes'[r]
      BY <3>1 DEF Put
    <3> QED BY <3>2 DEF RInv, RouterTypeOK
  <2>2. AuctionOffers'[r][m] = [premium |-> quotes'[r][m].premium,
                                validUntil |-> quotes'[r][m].validUntil]
    BY <1>1, <2>1 DEF AuctionOffers
  <2>3. AuctionOffers'[r][m] \in Offers
    BY <2>1, <2>2 DEF QuoteRecords, Offers
  <2> QED BY <2>3, RouterConstantsOK
<1>5. AuctionOffers' = [AuctionOffers EXCEPT ![r][m] = AuctionOffers'[r][m]]
  <2>1. /\ \A s \in Rfqs \ {r} : quotes'[s] = quotes[s]
        /\ \A n \in Makers \ {m} : /\ n \in DOMAIN quotes'[r] <=> n \in DOMAIN quotes[r]
                                   /\ n \in DOMAIN quotes[r] => quotes'[r][n] = quotes[r][n]
    BY <1>2 DEF Put, RInv, RouterTypeOK
  <2>2. \A s \in Rfqs \ {r} : AuctionOffers'[s] = AuctionOffers[s]
    BY <2>1 DEF AuctionOffers
  <2>3. AuctionOffers'[r] = [AuctionOffers[r] EXCEPT ![m] = AuctionOffers'[r][m]]
    <3>1. AuctionOffers[r] \in [Makers -> {AuctionOffers[r][n] : n \in Makers}]
          /\ DOMAIN AuctionOffers'[r] = Makers
      BY DEF AuctionOffers
    <3>2. ASSUME NEW n \in Makers \ {m} PROVE AuctionOffers'[r][n] = AuctionOffers[r][n]
      <4>1. AuctionOffers[r][n] = OfferIn(quotes[r], n)
        BY DEF AuctionOffers, OfferIn
      <4>2. AuctionOffers'[r][n] = OfferIn(quotes'[r], n)
        BY DEF AuctionOffers, OfferIn
      <4>3. OfferIn(quotes'[r], n) = OfferIn(quotes[r], n)
        BY <2>1 DEF OfferIn
      <4> QED BY <4>1, <4>2, <4>3
    <3> QED BY <3>1, <3>2 DEF AuctionOffers
  <2>4. AuctionOffers' = [AuctionOffers EXCEPT ![r] = AuctionOffers'[r]]
    BY <2>2 DEF AuctionOffers
  <2> QED BY <2>3, <2>4
<1>6. UNCHANGED <<AuctionTerms, Dead>>
  BY <1>1 DEF AuctionTerms, Dead
<1> QED BY <1>1, <1>3, <1>4, <1>5, <1>6 DEF Auction!Offer

(* Giving up a request that was given up already is no step. *)
LEMMA GivesUp ==
    ASSUME RInv, NEW r \in Rfqs, NEW end \in {"expired", "no_valid_quotes"},
           status' = [status EXCEPT ![r] = end],
           UNCHANGED <<now, terms, quotes, filled>>,
           status[r] # "none", filled[r] = None,
           now > terms[r].expiresAt \/ ValidQuotes(r) = {}
    PROVE  AuctionStep
<1>1. UNCHANGED <<AuctionTerms, AuctionOffers>>
  BY DEF AuctionTerms, AuctionOffers
<1>2. Dead' = Dead \cup {r}
  BY DEF Dead, RInv, RouterTypeOK
<1>3. CASE r \in Dead
  BY <1>1, <1>2, <1>3 DEF AuctionStep
<1>4. CASE r \notin Dead
  <2>1. Auction!Undecided(r)
    BY <1>4, AuctionState DEF Auction!Undecided
  <2>2. now > AuctionTerms[r].deadline \/ Auction!Standing(r) = {}
    BY AuctionState
  <2>3. Auction!GiveUp(r)
    BY <1>1, <1>2, <2>1, <2>2 DEF Auction!GiveUp
  <2> QED BY <2>3 DEF AuctionStep, Auction!Next
<1> QED BY <1>3, <1>4

LEMMA GivingUp ==
    ASSUME RInv, NEW r \in Rfqs,
           (\E c \in Connections : LateQuote(c, r)) \/ FillExpired(r) \/ FillNoneValid(r)
    PROVE  AuctionStep
<1>1. r \in listed => status[r] # "none"
  BY DEF RInv, RouterTypeOK
<1>2. status[r] = "open" => filled[r] = None
  BY DEF RInv, Decided
<1> QED BY <1>1, <1>2, GivesUp
        DEF LateQuote, FillExpired, FillNoneValid, EnoughQuotes, OpenToQuotes, CanBeFilled

LEMMA Awarded ==
    ASSUME RInv, NEW r \in Rfqs, FillBest(r)
    PROVE  Auction!Award(r, BestQuote(r)) /\ BestQuote(r) \in Makers
<1> DEFINE m == BestQuote(r)
<1>1. /\ UNCHANGED <<now, terms, quotes>>
      /\ status' = [status EXCEPT ![r] = "filled"] /\ status[r] # "none" /\ filled[r] = None
      /\ now <= terms[r].expiresAt /\ Cardinality(DOMAIN quotes[r]) >= terms[r].minQuotes
      /\ ValidQuotes(r) # {}
      /\ filled' = [filled EXCEPT ![r] = [maker |-> m, premium |-> quotes[r][m].premium]]
  BY DEF FillBest, EnoughQuotes, CanBeFilled, RInv, RouterTypeOK
<1>2. /\ m \in ValidQuotes(r) /\ m \in DOMAIN quotes[r] /\ m \in Makers
      /\ \A n \in ValidQuotes(r) : n \in DOMAIN quotes[r] /\ RanksBefore(r, m, n)
  BY <1>1, BestIsValid DEF ValidQuotes, RInv, RouterTypeOK
<1> HIDE DEF m
<1>3. r \notin Dead
  <2>1. terms[r] \in RfqTerms /\ now \in Nat /\ Decided(r)
    BY <1>1, AuctionState DEF RInv, RouterTypeOK
  <2> QED BY <2>1, <1>1 DEF Decided, Dead, RfqTerms
<1>4. Auction!Undecided(r)
  BY <1>1, <1>3, AuctionState DEF Auction!Undecided
<1>5. \A n \in Auction!Standing(r) : AuctionOffers[r][n].premium <= AuctionOffers[r][m].premium
  <2>1. \A n \in DOMAIN quotes[r] : quotes[r][n].premium \in Int
    BY DEF RInv, RouterTypeOK, QuoteRecords
  <2>2. \A n \in ValidQuotes(r) : quotes[r][n].premium <= quotes[r][m].premium
    BY <2>1, <1>2 DEF RanksBefore
  <2> QED BY <2>2, <1>1, <1>2, AuctionState
<1>6. UNCHANGED <<AuctionTerms, AuctionOffers, Dead>>
  BY <1>1, <1>3 DEF AuctionTerms, AuctionOffers, Dead, RInv, RouterTypeOK
<1>7. /\ now <= AuctionTerms[r].deadline
      /\ Cardinality(Auction!Offering(r)) >= AuctionTerms[r].quorum
      /\ m \in Auction!Standing(r)
      /\ AuctionOffers[r][m].premium = quotes[r][m].premium
  BY <1>1, <1>2, AuctionState
<1>8. Auction!Award(r, m)
  BY <1>1, <1>4, <1>5, <1>6, <1>7 DEF Auction!Award, Auction!Cardinality, Cardinality
<1> QED BY <1>2, <1>8 DEF m

LEMMA StepsSimulated == RInv /\ RInv' /\ [Next]_vars => AuctionStep
<1> SUFFICES ASSUME RInv, RInv', [Next]_vars PROVE AuctionStep
  OBVIOUS
<1>1. ASSUME NEW r \in Rfqs, NEW f \in Floors, NEW n \in Quorums, NEW t \in QuoteTimeouts,
             CreateRfq(r, f, n, t)
      PROVE  AuctionStep
  BY <1>1, Announced DEF AuctionStep, Auction!Next
<1>2. ASSUME NEW c \in Connections, NEW r \in Rfqs, NEW p \in Prices, NEW l \in Lifetimes,
             Quote(c, r, p, l)
      PROVE  AuctionStep
  <2>1. holder[c] \in Makers
    BY <1>2 DEF Quote, RInv, RouterTypeOK
  <2> QED BY <2>1, <1>2, Offered DEF AuctionStep, Auction!Next
<1>3. ASSUME NEW r \in Rfqs,
             (\E c \in Connections : LateQuote(c, r)) \/ FillExpired(r) \/ FillNoneValid(r)
      PROVE  AuctionStep
  BY <1>3, GivingUp
<1>4. ASSUME NEW r \in Rfqs, FillBest(r) PROVE AuctionStep
  BY <1>4, Awarded DEF AuctionStep, Auction!Next
<1>5. CASE Tick
  <2>1. now' > now /\ UNCHANGED <<AuctionTerms, AuctionOffers, filled, Dead>>
    BY <1>5 DEF Tick, rfqVars, AuctionTerms, AuctionOffers, Dead, RInv, RouterTypeOK
  <2>2. Auction!Pass
    BY <2>1 DEF Auction!Pass
  <2> QED BY <2>2 DEF AuctionStep, Auction!Next
<1>6. CASE \/ \E c \in Connections : (\E m \in Makers : Connect(c, m)) \/ Lose(c) \/ Close(c)
           \/ \E w \in Waiters : \/ \E r \in Rfqs, n \in Quorums \ {0}, t \in WaitTimeouts :
                                       StartWait(w, r, n, t)
                                 \/ Poll(w)
           \/ Cleanup \/ UNCHANGED vars
  BY <1>6, NoAuctionStep DEF Connect, Lose, Close, StartWait, Poll, Cleanup, rfqVars, vars
<1> QED BY <1>1, <1>2, <1>3, <1>4, <1>5, <1>6 DEF Next

LEMMA InitSimulated == Init => Auction!Init
BY DEF Init, Auction!Init, AuctionTerms, AuctionOffers, Dead

(* index.js: whatever sockets, timers and repeated calls do, each request  *)
(* is an auction with a deadline, a floor and a quorum, awarded at most    *)
(* once and to the best offer that stands, or given up for good.           *)
THEOREM RouterIsAuction == Spec => ImplementsAuction
<1> QED BY InitRInv, NextRInv, InitSimulated, StepsSimulated, PTL
        DEF Spec, ImplementsAuction, Auction!Spec, Auction!auctionVars, AuctionStep

-----------------------------------------------------------------------------

(* A request's fill is one message, to one socket. *)
OneFillSent ==
    \A a, b \in received : a.kind = "fill" /\ b.kind = "fill" /\ a.rfq = b.rfq => a = b

WinnersQuoted ==
    \A r \in Rfqs : filled[r] # None => filled[r].maker \in DOMAIN quotes[r]

(* A maker that has opened a socket and is not registered has lost one. *)
LossesKnown ==
    \A c \in Connections :
        holder[c] # None /\ makers[holder[c]] = None => LostSocket(holder[c])

RouterInv == RInv /\ OneFillSent /\ WinnersQuoted /\ LossesKnown /\ QuotesCarryWallets

(* What no step takes back. *)
Lasting ==
    /\ received \subseteq received'
    /\ \A c \in Connections : holder[c] # None => holder'[c] = holder[c]
    /\ \A r \in Rfqs : filled[r] # None => filled'[r] = filled[r]

-----------------------------------------------------------------------------
(* The router's handlers *)

LEMMA LostStaysLost ==
    ASSUME RInv, NEW m \in Makers, LostSocket(m),
           \/ UNCHANGED <<holder, reachable>>
           \/ \E c \in Connections, n \in Makers : Connect(c, n)
           \/ \E c \in Connections : Lose(c)
    PROVE  LostSocket(m)'
<1>1. PICK c \in Connections : holder[c] = m /\ c \notin reachable
  BY DEF LostSocket
<1>2. CASE UNCHANGED <<holder, reachable>>
  BY <1>1, <1>2 DEF LostSocket
<1>3. CASE \E d \in Connections, n \in Makers : Connect(d, n)
  <2>1. PICK d \in Connections, n \in Makers : Connect(d, n)
    BY <1>3
  <2>2. c # d /\ holder'[c] = m /\ c \notin reachable'
    BY <1>1, <2>1, RouterConstantsOK DEF Connect, RInv, RouterTypeOK
  <2> QED BY <2>2 DEF LostSocket
<1>4. CASE \E d \in Connections : Lose(d)
  BY <1>1, <1>4 DEF Lose, LostSocket
<1> QED BY <1>2, <1>3, <1>4

(* Handlers of sockets: a maker loses its registration with a socket that  *)
(* is gone.                                                                *)
LEMMA SocketsKept ==
    ASSUME RouterInv, NEW c \in Connections,
           (\E m \in Makers : Connect(c, m)) \/ Lose(c) \/ Close(c)
    PROVE  RouterInv' /\ Lasting /\ UNCHANGED quotes
<1>1. RInv'
  BY NextRInv DEF RouterInv, Next
<1>2. UNCHANGED <<filled, quotes, received>>
  BY DEF Connect, Lose, Close, rfqVars
<1>3. /\ holder \in [Connections -> Makers \cup {None}] /\ None \notin Makers
      /\ makers \in [Makers -> Connections \cup {None}] /\ None \notin Connections
  BY RouterConstantsOK DEF RouterInv, RInv, RouterTypeOK
<1>4. \A d \in Connections : holder[d] # None => holder'[d] = holder[d]
  BY <1>3 DEF Connect, Lose, Close
<1>5. ASSUME NEW m \in Makers, LostSocket(m) PROVE LostSocket(m)'
  <2>1. Close(c) => UNCHANGED <<holder, reachable>>
    BY DEF Close
  <2> QED BY <1>5, <2>1, LostStaysLost DEF RouterInv
<1>6. Lasting /\ OneFillSent' /\ WinnersQuoted'
  BY <1>2, <1>4 DEF Lasting, RouterInv, OneFillSent, WinnersQuoted
<1>7. LossesKnown'
  <2> SUFFICES ASSUME NEW d \in Connections, holder'[d] # None, makers'[holder'[d]] = None
               PROVE  LostSocket(holder[d])'
    BY DEF LossesKnown
  <2>1. ASSUME NEW m \in Makers, Connect(c, m) PROVE d # c /\ holder'[d] # m
    BY <1>3, <2>1 DEF Connect
  <2>2. holder'[d] = holder[d] /\ holder[d] \in Makers
    BY <1>3, <2>1 DEF Connect, Lose, Close
  <2>3. CASE makers[holder[d]] = None
    BY <1>5, <2>2, <2>3 DEF RouterInv, LossesKnown
  <2>4. CASE makers[holder[d]] # None
    <3>1. Close(c) /\ holder[c] = holder[d]
      BY <1>3, <2>1, <2>2, <2>4 DEF Connect, Lose, Close
    <3>2. c \notin reachable' /\ holder'[c] = holder[d]
      BY <3>1 DEF Close
    <3> QED BY <2>2, <3>2 DEF LostSocket
  <2> QED BY <2>3, <2>4
<1>8. QuotesCarryWallets'
  <2> SUFFICES ASSUME NEW r \in Rfqs, NEW m \in DOMAIN quotes[r]
               PROVE  LET w == quotes[r][m].makerWallet
                      IN  IF w = None THEN LostSocket(m)' ELSE holder'[w] = m
    BY <1>2 DEF QuotesCarryWallets
  <2>1. m \in Makers /\ quotes[r][m].makerWallet \in Connections \cup {None}
    BY DEF RouterInv, RInv, RouterTypeOK, QuoteRecords
  <2>2. LET w == quotes[r][m].makerWallet
        IN  IF w = None THEN LostSocket(m) ELSE holder[w] = m
    BY DEF RouterInv, QuotesCarryWallets
  <2> QED BY <1>3, <1>4, <1>5, <2>1, <2>2
<1> QED BY <1>1, <1>2, <1>6, <1>7, <1>8 DEF RouterInv

(* Handlers that neither quote nor fill. *)
LEMMA OthersKept ==
    ASSUME RouterInv, RInv', UNCHANGED <<holder, reachable, makers, quotes, filled>>,
           received \subseteq received',
           \A msg \in received' : msg.kind = "fill" => msg \in received
    PROVE  RouterInv' /\ Lasting /\ UNCHANGED quotes
<1>1. \A m : LostSocket(m)' <=> LostSocket(m)
  BY DEF LostSocket
<1>2. OneFillSent' /\ WinnersQuoted' /\ LossesKnown' /\ QuotesCarryWallets' /\ Lasting
  BY <1>1 DEF RouterInv, OneFillSent, WinnersQuoted, LossesKnown, QuotesCarryWallets, Lasting
<1> QED BY <1>2 DEF RouterInv

(* The quote keeps the socket that is registered, or none, which means     *)
(* that its maker has lost one.                                            *)
LEMMA QuoteKept ==
    ASSUME RouterInv, NEW c \in Connections, NEW r \in Rfqs, NEW p \in Prices, NEW l \in Lifetimes,
           Quote(c, r, p, l)
    PROVE  /\ RouterInv' /\ Lasting
           /\ holder[c] \in Makers
           /\ \A s \in Rfqs : \A m \in DOMAIN quotes'[s] :
                m \in DOMAIN quotes[s] \/ (s = r /\ m = holder[c])
<1> DEFINE q == [premium |-> p, validUntil |-> now + l, makerWallet |-> makers[holder[c]],
                 place |-> IF holder[c] \in DOMAIN quotes[r]
                           THEN quotes[r][holder[c]].place
                           ELSE Cardinality(DOMAIN quotes[r]) + 1]
<1>1. RInv'
  BY NextRInv DEF RouterInv, Next
<1>2. /\ UNCHANGED <<holder, reachable, makers, filled, received>>
      /\ DOMAIN quotes = Rfqs /\ holder[c] \in Makers /\ None \notin Makers \cup Connections
  BY RouterConstantsOK DEF Quote, socketVars, RouterInv, RInv, RouterTypeOK
<1>3. q.makerWallet = makers[holder[c]] /\ quotes' = [quotes EXCEPT ![r] = Put(quotes[r], holder[c], q)]
  BY DEF Quote
<1> HIDE DEF q
<1>4. /\ \A s \in Rfqs \ {r} : quotes'[s] = quotes[s]
      /\ DOMAIN quotes'[r] = DOMAIN quotes[r] \cup {holder[c]}
      /\ quotes'[r][holder[c]] = q
      /\ \A m \in DOMAIN quotes[r] \ {holder[c]} : quotes'[r][m] = quotes[r][m]
  BY <1>2, <1>3 DEF Put
<1>5. \A m : LostSocket(m)' <=> LostSocket(m)
  BY <1>2 DEF LostSocket
<1>6. OneFillSent' /\ LossesKnown' /\ Lasting
  BY <1>2, <1>5 DEF RouterInv, OneFillSent, LossesKnown, Lasting
<1>7. WinnersQuoted'
  BY <1>2, <1>4 DEF RouterInv, WinnersQuoted
<1>8. ASSUME NEW s \in Rfqs, NEW m \in DOMAIN quotes'[s]
      PROVE  LET w == quotes'[s][m].makerWallet
             IN  IF w = None THEN LostSocket(m) ELSE holder[w] = m
  <2>1. CASE s = r /\ m = holder[c]
    <3>1. CASE makers[m] = None
      BY <1>2, <1>3, <1>4, <2>1, <3>1 DEF RouterInv, LossesKnown
    <3>2. CASE makers[m] # None
      <4>1. holder[makers[m]] = m
        BY <1>2, <2>1, <3>2 DEF RouterInv, RInv, NoStaleRegistration, Registered
      <4> QED BY <1>3, <1>4, <2>1, <3>2, <4>1
    <3> QED BY <3>1, <3>2
  <2>2. CASE ~(s = r /\ m = holder[c])
    <3>1. m \in DOMAIN quotes[s] /\ quotes'[s][m] = quotes[s][m]
      BY <1>4, <2>2
    <3> QED BY <3>1 DEF RouterInv, QuotesCarryWallets
  <2> QED BY <2>1, <2>2
<1>9. QuotesCarryWallets'
  BY <1>2, <1>5, <1>8 DEF QuotesCarryWallets
<1> QED BY <1>1, <1>2, <1>4, <1>6, <1>7, <1>9 DEF RouterInv

(* One fill, to the winner, of a request that had none. *)
LEMMA FillKept ==
    ASSUME RouterInv, NEW r \in Rfqs, FillBest(r)
    PROVE  RouterInv' /\ Lasting /\ UNCHANGED quotes
<1>1. RInv'
  BY NextRInv DEF RouterInv, Next
<1>2. /\ UNCHANGED <<holder, reachable, makers, quotes>> /\ filled[r] = None
      /\ \A s \in Rfqs \ {r} : filled'[s] = filled[s]
      /\ filled'[r].maker = BestQuote(r)
  BY DEF FillBest, EnoughQuotes, CanBeFilled, socketVars, RouterInv, RInv, RouterTypeOK
<1>3. BestQuote(r) \in DOMAIN quotes[r]
  BY BestIsValid DEF FillBest, ValidQuotes, RouterInv
<1>4. /\ received \subseteq received'
      /\ \A msg \in received' : msg.kind = "fill" =>
            msg \in received \/ msg = Message(BestQuote(r), "fill", r)
  BY DEF FillBest, Delivered, Message
<1>5. OneFillSent'
  <2>1. \A msg \in received : msg.kind = "fill" => msg.rfq # r
    BY <1>2 DEF RouterInv, RInv, MessagesSent
  <2>2. Message(BestQuote(r), "fill", r).rfq = r
    BY DEF Message
  <2> QED BY <1>4, <2>1, <2>2 DEF RouterInv, OneFillSent
<1>6. WinnersQuoted'
  BY <1>2, <1>3 DEF RouterInv, WinnersQuoted
<1>7. \A m : LostSocket(m)' <=> LostSocket(m)
  BY <1>2 DEF LostSocket
<1>8. LossesKnown' /\ QuotesCarryWallets'
  BY <1>2, <1>7 DEF RouterInv, LossesKnown, QuotesCarryWallets
<1>9. Lasting
  BY <1>2, <1>4 DEF Lasting
<1> QED BY <1>1, <1>2, <1>5, <1>6, <1>8, <1>9 DEF RouterInv

(* What the router does without a quote. *)
LEMMA RouterKept ==
    ASSUME RouterInv,
           \/ \E c \in Connections : Lose(c) \/ Close(c) \/ \E m \in Makers : Connect(c, m)
           \/ \E r \in Rfqs :
                \/ \E f \in Floors, n \in Quorums, t \in QuoteTimeouts : CreateRfq(r, f, n, t)
                \/ \E c \in Connections : LateQuote(c, r)
                \/ FillExpired(r) \/ FillNoneValid(r) \/ FillBest(r)
           \/ Cleanup \/ Tick \/ UNCHANGED vars
    PROVE  RouterInv' /\ Lasting /\ UNCHANGED quotes
<1>1. RInv'
  BY NextRInv DEF RouterInv, Next
<1>2. ASSUME NEW r \in Rfqs, NEW f \in Floors, NEW n \in Quorums, NEW t \in QuoteTimeouts,
             CreateRfq(r, f, n, t)
      PROVE  RouterInv' /\ Lasting /\ UNCHANGED quotes
  <2>1. /\ received \subseteq received'
        /\ \A msg \in received' : msg.kind = "fill" => msg \in received
    BY <1>2 DEF CreateRfq, Delivered, Message
  <2> QED BY <1>1, <1>2, <2>1, OthersKept DEF CreateRfq, socketVars
<1>3. ASSUME NEW r \in Rfqs,
             (\E c \in Connections : LateQuote(c, r)) \/ FillExpired(r) \/ FillNoneValid(r)
      PROVE  RouterInv' /\ Lasting /\ UNCHANGED quotes
  BY <1>1, <1>3, OthersKept DEF LateQuote, FillExpired, FillNoneValid, socketVars
<1>4. CASE Cleanup \/ Tick \/ UNCHANGED vars
  BY <1>1, <1>4, OthersKept DEF Cleanup, Tick, vars, socketVars, rfqVars
<1> QED BY <1>2, <1>3, <1>4, SocketsKept, FillKept

-----------------------------------------------------------------------------
(* The makers' processes *)

DraftRecord == [maker : Makers, rfq : Rfqs, premium : Prices, via : Connections \cup {None}]
SentRecord == [via : Connections, rfq : Rfqs, premium : Prices]
TransferRecord == [maker : Makers, rfq : Rfqs, amount : Int, vault : {"underlying", "default"},
                   step : {"checking", "sent", "short", "paid", "failed"}]

BotsTypeOK ==
    /\ link \in [Makers -> Connections \cup {None}]
    /\ \A m \in Makers : link[m] # None => holder[link[m]] = m
    /\ known \in [Makers -> SUBSET Rfqs]
    /\ drafts \subseteq DraftRecord
    /\ sent \subseteq SentRecord /\ \A q \in sent : holder[q.via] # None
    /\ handled \subseteq received
    /\ transfers \subseteq TransferRecord

Told(r) == \E msg \in handled : msg.kind = "fill" /\ msg.rfq = r

Remembers(m, r) == r \in known[m] \/ m \in restarted \/ Told(r)

(* Who quoted a request remembers it until the request is filled, or has   *)
(* been restarted.                                                         *)
QuotesRemembered ==
    /\ \A d \in drafts : Remembers(d.maker, d.rfq)
    /\ \A q \in sent : Remembers(holder[q.via], q.rfq)
    /\ \A r \in Rfqs : \A m \in DOMAIN quotes[r] : Remembers(m, r)

TransfersTold == \A t \in transfers : Told(t.rfq)

MInv == RouterInv /\ BotsTypeOK /\ QuotesRemembered /\ TransfersTold /\ PaidAsAwarded

(* Facts about the router's state that the steps of the processes need.    *)
LEMMA RouterFacts ==
    ASSUME MInv
    PROVE  /\ holder \in [Connections -> Makers \cup {None}]
           /\ None \notin Makers /\ None \notin Connections
           /\ DOMAIN quotes = Rfqs
           /\ \A r \in Rfqs : DOMAIN quotes[r] \subseteq Makers
           /\ \A r \in Rfqs : filled[r] # None => filled[r] \in Fills
           /\ \A msg \in received : msg.to \in Connections /\ msg.rfq \in Rfqs
BY RouterConstantsOK DEF MInv, RouterInv, RInv, RouterTypeOK, MessagesSent

(* No transfer begins. *)
LEMMA TransfersKept ==
    ASSUME MInv, Lasting, handled \subseteq handled', restarted \subseteq restarted',
           \/ transfers' \subseteq transfers
           \/ \E t \in transfers, step \in {"sent", "short", "paid", "failed"} : transfers' = Becomes(t, step)
    PROVE  transfers' \subseteq TransferRecord /\ TransfersTold' /\ PaidAsAwarded'
<1>1. transfers \subseteq TransferRecord
  BY DEF MInv, BotsTypeOK
<1>2. ASSUME NEW r, Told(r) PROVE Told(r)'
  BY <1>2 DEF Told
<1>3. ASSUME NEW t \in transfers
      PROVE  /\ t.rfq \in Rfqs /\ Told(t.rfq)
             /\ filled'[t.rfq] = [maker |-> t.maker, premium |-> t.amount]
             /\ \A u \in transfers : u.rfq = t.rfq => u = t
             /\ t.vault = "default" => t.maker \in MockMakers \cap restarted'
  <2>1. t.rfq \in Rfqs
    BY <1>1 DEF TransferRecord
  <2>2. filled[t.rfq] = [maker |-> t.maker, premium |-> t.amount]
    BY DEF MInv, PaidAsAwarded
  <2>3. filled[t.rfq] # None
    <3>1. [maker |-> t.maker, premium |-> t.amount] \in Fills
      BY <1>1 DEF TransferRecord, Fills
    <3> QED BY <2>2, <3>1, RouterConstantsOK
  <2> QED BY <2>1, <2>2, <2>3 DEF MInv, TransfersTold, PaidAsAwarded, Lasting
<1>4. CASE transfers' \subseteq transfers
  BY <1>1, <1>2, <1>3, <1>4 DEF TransfersTold, PaidAsAwarded
<1>5. CASE \E t \in transfers, step \in {"sent", "short", "paid", "failed"} : transfers' = Becomes(t, step)
  <2>1. PICK t \in transfers, step \in {"sent", "short", "paid", "failed"} :
            transfers' = (transfers \ {t}) \cup {[t EXCEPT !.step = step]}
    BY <1>5 DEF Becomes
  <2> DEFINE n == [t EXCEPT !.step = step]
  <2>2. /\ n \in TransferRecord /\ n.rfq = t.rfq /\ n.maker = t.maker
        /\ n.amount = t.amount /\ n.vault = t.vault
    BY <1>1 DEF TransferRecord
  <2> HIDE DEF n
  <2>3. transfers' = (transfers \ {t}) \cup {n}
    BY <2>1 DEF n
  <2>4. TransfersTold' /\ transfers' \subseteq TransferRecord
    BY <1>1, <1>2, <1>3, <2>2, <2>3 DEF TransfersTold
  <2>5. ASSUME NEW x \in transfers'
        PROVE  /\ filled'[x.rfq] = [maker |-> x.maker, premium |-> x.amount]
               /\ \A u \in transfers' : u.rfq = x.rfq => u = x
               /\ x.vault = "default" => x.maker \in MockMakers \cap restarted'
    BY <1>3, <2>2, <2>3
  <2> QED BY <2>4, <2>5 DEF PaidAsAwarded
<1> QED BY <1>4, <1>5

(* No quote is drafted, sent or taken. *)
LEMMA MemoryKept ==
    ASSUME MInv, Lasting, UNCHANGED quotes, drafts' \subseteq drafts, sent' \subseteq sent,
           \A m \in Makers, r \in Rfqs : Remembers(m, r) => Remembers(m, r)'
    PROVE  /\ drafts' \subseteq DraftRecord
           /\ sent' \subseteq SentRecord /\ \A q \in sent' : holder'[q.via] # None
           /\ QuotesRemembered'
<1>1. \A d \in drafts : d \in DraftRecord /\ d.maker \in Makers /\ d.rfq \in Rfqs
  BY DEF MInv, BotsTypeOK, DraftRecord
<1>2. \A q \in sent : /\ q \in SentRecord /\ q.rfq \in Rfqs /\ q.via \in Connections
                      /\ holder[q.via] # None /\ holder[q.via] \in Makers
  BY RouterFacts DEF MInv, BotsTypeOK, SentRecord
<1>3. \A q \in sent : holder'[q.via] = holder[q.via]
  BY <1>2 DEF Lasting
<1>4. \A d \in drafts' : Remembers(d.maker, d.rfq)'
  BY <1>1 DEF MInv, QuotesRemembered
<1>5. \A q \in sent' : Remembers(holder[q.via], q.rfq)'
  BY <1>2, <1>3 DEF MInv, QuotesRemembered, Remembers
<1>6. \A r \in Rfqs : \A m \in DOMAIN quotes'[r] : Remembers(m, r)'
  BY RouterFacts DEF MInv, QuotesRemembered
<1> QED BY <1>1, <1>2, <1>3, <1>4, <1>5, <1>6 DEF QuotesRemembered

LEMMA MessageHandled ==
    ASSUME MInv, NEW m \in Makers, NEW msg, NEW kind, Handles(m, msg, kind)
    PROVE  /\ msg \in received /\ msg \notin handled /\ msg.kind = kind
           /\ msg.rfq \in Rfqs /\ holder[msg.to] = m
           /\ handled' = handled \cup {msg} /\ handled' \subseteq received
<1>1. msg \in received /\ msg \notin handled /\ msg.to = link[m] /\ msg.kind = kind
      /\ handled' = handled \cup {msg}
  BY DEF Handles, Inbox
<1>2. link[m] # None
  BY <1>1, RouterFacts
<1> QED BY <1>1, <1>2, RouterFacts DEF MInv, BotsTypeOK

(* Sockets of the processes: what a restart forgets it also withdraws, but *)
(* for the quotes that are on their way.                                   *)
LEMMA LinksInv ==
    ASSUME MInv, NEW m \in Makers, BotConnect(m) \/ BotClosed(m) \/ BotRestart(m)
    PROVE  MInv'
<1>1. RouterInv' /\ Lasting /\ UNCHANGED quotes
  <2>1. CASE BotConnect(m)
    <3>1. \E c \in Connections : Connect(c, m)
      BY <2>1 DEF BotConnect, Unused
    <3> QED BY <3>1, RouterKept DEF MInv
  <2>2. CASE BotClosed(m)
    BY <2>2, RouterKept DEF BotClosed, MInv
  <2>3. CASE BotRestart(m)
    <3>1. \E c \in Connections : Lose(c)
      BY <2>3 DEF BotRestart, MInv, RouterInv, RInv, RouterTypeOK
    <3> QED BY <3>1, RouterKept DEF MInv
  <2> QED BY <2>1, <2>2, <2>3
<1>2. /\ UNCHANGED <<sent, handled>> /\ drafts' \subseteq drafts /\ transfers' \subseteq transfers
      /\ restarted \subseteq restarted'
  BY DEF BotConnect, BotClosed, BotRestart
<1>3. /\ known' \in [Makers -> SUBSET Rfqs]
      /\ \A n \in Makers : known'[n] = known[n] \/ n \in restarted'
  BY DEF BotConnect, BotClosed, BotRestart, MInv, BotsTypeOK
<1>4. \A n \in Makers, r \in Rfqs : Remembers(n, r) => Remembers(n, r)'
  BY <1>2, <1>3 DEF Remembers, Told
<1>5. /\ link' \in [Makers -> Connections \cup {None}]
      /\ \A n \in Makers : link'[n] # None => holder'[link'[n]] = n
  <2>1. /\ link \in [Makers -> Connections \cup {None}]
        /\ \A n \in Makers : link[n] # None => holder[link[n]] = n /\ holder[link[n]] # None
    BY RouterFacts DEF MInv, BotsTypeOK
  <2>2. CASE BotConnect(m)
    <3>1. PICK c \in Connections : Connect(c, m) /\ link' = [link EXCEPT ![m] = c]
      BY <2>2 DEF BotConnect, Unused
    <3>2. holder'[c] = m
      BY <3>1, RouterFacts DEF Connect
    <3> QED BY <1>1, <2>1, <3>1, <3>2 DEF Lasting
  <2>3. CASE link' = [link EXCEPT ![m] = None]
    BY <1>1, <2>1, <2>3 DEF Lasting
  <2> QED BY <2>2, <2>3 DEF BotClosed, BotRestart
<1>6. handled' \subseteq received'
  BY <1>1, <1>2 DEF Lasting, MInv, BotsTypeOK
<1>7. transfers' \subseteq TransferRecord /\ TransfersTold' /\ PaidAsAwarded'
  BY <1>1, <1>2, TransfersKept
<1>8. /\ drafts' \subseteq DraftRecord
      /\ sent' \subseteq SentRecord /\ \A q \in sent' : holder'[q.via] # None
      /\ QuotesRemembered'
  BY <1>1, <1>2, <1>4, MemoryKept
<1> QED BY <1>1, <1>3, <1>5, <1>6, <1>7, <1>8 DEF MInv, BotsTypeOK

(* Steps of a process at which the router and the socket stay as they are. *)
LEMMA ProcessKept ==
    ASSUME MInv, UNCHANGED <<vars, link>>
    PROVE  /\ RouterInv' /\ Lasting /\ UNCHANGED quotes
           /\ link' \in [Makers -> Connections \cup {None}]
           /\ \A m \in Makers : link'[m] # None => holder'[link'[m]] = m
<1>1. RouterInv' /\ Lasting /\ UNCHANGED quotes
  BY RouterKept DEF MInv
<1> QED BY <1>1 DEF MInv, BotsTypeOK, vars, socketVars

LEMMA HandlesBroadcastInv ==
    ASSUME MInv, NEW m \in Makers, NEW msg,
           BotSkips(m, msg) \/ \E p \in Prices : BotPrices(m, msg, p)
    PROVE  MInv'
<1>1. /\ UNCHANGED <<vars, link, sent, transfers, restarted>> /\ Handles(m, msg, "rfq")
      /\ known' = known \/ known' = [known EXCEPT ![m] = known[m] \cup {msg.rfq}]
  BY DEF BotSkips, BotPrices
<1>2. /\ RouterInv' /\ Lasting /\ UNCHANGED <<quotes, holder, received>>
      /\ link' \in [Makers -> Connections \cup {None}]
      /\ \A n \in Makers : link'[n] # None => holder'[link'[n]] = n
  BY <1>1, ProcessKept DEF vars, socketVars
<1>3. msg.rfq \in Rfqs /\ handled' = handled \cup {msg} /\ handled' \subseteq received
  BY <1>1, MessageHandled
<1>4. known' \in [Makers -> SUBSET Rfqs] /\ \A n \in Makers : known[n] \subseteq known'[n]
  BY <1>1, <1>3 DEF MInv, BotsTypeOK
<1>5. \A n \in Makers, r \in Rfqs : Remembers(n, r) => Remembers(n, r)'
  BY <1>1, <1>3, <1>4 DEF Remembers, Told
<1>6. transfers' \subseteq TransferRecord /\ TransfersTold' /\ PaidAsAwarded'
  BY <1>1, <1>2, <1>3, TransfersKept
<1>7. /\ sent' \subseteq SentRecord /\ \A q \in sent' : holder'[q.via] # None
      /\ drafts' \subseteq DraftRecord /\ QuotesRemembered'
  <2>1. CASE drafts' \subseteq drafts
    BY <1>1, <1>2, <1>5, <2>1, MemoryKept
  <2>2. CASE \E p \in Prices : BotPrices(m, msg, p)
    <3>1. PICK d : /\ d \in DraftRecord /\ d.maker = m /\ d.rfq = msg.rfq
                   /\ drafts' = drafts \cup {d}
                   /\ known' = [known EXCEPT ![m] = known[m] \cup {msg.rfq}]
      <4>1. PICK p \in Prices : BotPrices(m, msg, p)
        BY <2>2
      <4> DEFINE d == [maker |-> m, rfq |-> msg.rfq, premium |-> p, via |-> link[m]]
      <4>2. d \in DraftRecord /\ d.maker = m /\ d.rfq = msg.rfq
        BY <1>3 DEF DraftRecord, MInv, BotsTypeOK
      <4> QED BY <4>1, <4>2 DEF BotPrices
    <3>2. msg.rfq \in known'[m]
      BY <3>1 DEF MInv, BotsTypeOK
    <3>3. /\ \A q \in sent : q \in SentRecord /\ q.rfq \in Rfqs /\ holder[q.via] # None
                             /\ holder[q.via] \in Makers /\ Remembers(holder[q.via], q.rfq)
          /\ \A e \in drafts : e \in DraftRecord /\ e.maker \in Makers /\ e.rfq \in Rfqs
                               /\ Remembers(e.maker, e.rfq)
      BY RouterFacts DEF MInv, BotsTypeOK, QuotesRemembered, SentRecord, DraftRecord
    <3>4. \A e \in drafts' : e \in DraftRecord /\ Remembers(e.maker, e.rfq)'
      <4>1. Remembers(m, msg.rfq)'
        BY <3>2 DEF Remembers
      <4>2. ASSUME NEW e \in drafts PROVE e \in DraftRecord /\ Remembers(e.maker, e.rfq)'
        BY <1>5, <3>3
      <4> QED BY <3>1, <4>1, <4>2 DEF Remembers
    <3>5. \A q \in sent' : q \in SentRecord /\ holder'[q.via] # None
                           /\ Remembers(holder[q.via], q.rfq)'
      BY <1>1, <1>2, <1>5, <3>3 DEF Remembers
    <3>6. \A r \in Rfqs : \A n \in DOMAIN quotes'[r] : Remembers(n, r)'
      BY <1>2, <1>5, RouterFacts DEF MInv, QuotesRemembered
    <3> QED BY <3>4, <3>5, <3>6 DEF QuotesRemembered
  <2> QED BY <2>1, <2>2 DEF BotSkips
<1> QED BY <1>2, <1>3, <1>4, <1>6, <1>7 DEF MInv, BotsTypeOK

(* The only step that begins a transfer.  The process that is told was     *)
(* awarded the request, has not been told before, and has quoted it, so it *)
(* remembers the request or has been restarted.                            *)
LEMMA FilledInv ==
    ASSUME MInv, NEW m \in Makers, NEW msg, BotFilled(m, msg)
    PROVE  MInv'
<1> DEFINE r == msg.rfq
           t == [maker |-> m, rfq |-> r, amount |-> filled[r].premium,
                 vault |-> IF r \in known[m] THEN "underlying" ELSE "default",
                 step |-> IF m \in MockMakers THEN "checking" ELSE "sent"]
<1>1. /\ UNCHANGED <<vars, link, drafts, sent, restarted>> /\ Handles(m, msg, "fill")
      /\ known' = [known EXCEPT ![m] = known[m] \ {r}]
      /\ transfers' = transfers \/ (PaysFor(m, r) /\ transfers' = transfers \cup {t})
  BY DEF BotFilled
<1>2. /\ RouterInv' /\ Lasting /\ UNCHANGED <<quotes, holder, received, filled>>
      /\ link' \in [Makers -> Connections \cup {None}]
      /\ \A n \in Makers : link'[n] # None => holder'[link'[n]] = n
  BY <1>1, ProcessKept DEF vars, socketVars, rfqVars
<1>3. /\ msg \in received /\ msg \notin handled /\ msg.kind = "fill" /\ r \in Rfqs
      /\ holder[msg.to] = m /\ handled' = handled \cup {msg} /\ handled' \subseteq received
  BY <1>1, MessageHandled
<1>4. known' \in [Makers -> SUBSET Rfqs] /\ Told(r)'
      /\ \A n \in Makers, x \in Rfqs : x \in known[n] => x \in known'[n] \/ x = r
  BY <1>1, <1>3 DEF MInv, BotsTypeOK, Told
<1>5. \A n \in Makers, x \in Rfqs : Remembers(n, x) => Remembers(n, x)'
  <2>1. \A x : Told(x) => Told(x)'
    BY <1>3 DEF Told
  <2> QED BY <1>1, <1>4, <2>1 DEF Remembers
<1>6. /\ drafts' \subseteq DraftRecord
      /\ sent' \subseteq SentRecord /\ \A q \in sent' : holder'[q.via] # None
      /\ QuotesRemembered'
  BY <1>1, <1>2, <1>5, MemoryKept
<1>7. filled[r] \in Fills /\ filled[r] # None /\ filled[r].maker = m
  BY <1>3, RouterFacts DEF MInv, RouterInv, RInv, OneWinnerTold
<1>8. ~Told(r)
  BY <1>3 DEF Told, MInv, RouterInv, OneFillSent, BotsTypeOK
<1>9. r \in known[m] \/ m \in restarted
  BY <1>3, <1>7, <1>8 DEF MInv, RouterInv, WinnersQuoted, QuotesRemembered, Remembers
<1>10. CASE transfers' = transfers
  <2>1. transfers' \subseteq TransferRecord /\ TransfersTold' /\ PaidAsAwarded'
    BY <1>1, <1>2, <1>3, <1>10, TransfersKept
  <2> QED BY <1>2, <1>3, <1>4, <1>6, <2>1 DEF MInv, BotsTypeOK
<1>11. CASE PaysFor(m, r) /\ transfers' = transfers \cup {t}
  <2>1. /\ t \in TransferRecord /\ t.rfq = r
        /\ filled[r] = [maker |-> t.maker, premium |-> t.amount]
        /\ t.vault = "default" => t.maker \in MockMakers \cap restarted
    BY <1>3, <1>7, <1>9, <1>11 DEF TransferRecord, Fills, PaysFor
  <2> HIDE DEF t
  <2>2. \A u \in transfers : u.rfq # r
    BY <1>8 DEF MInv, TransfersTold
  <2>3. ASSUME NEW x \in transfers'
        PROVE  /\ filled[x.rfq] = [maker |-> x.maker, premium |-> x.amount]
               /\ \A u \in transfers' : u.rfq = x.rfq => u = x
               /\ x.vault = "default" => x.maker \in MockMakers \cap restarted
    BY <1>11, <2>1, <2>2 DEF MInv, PaidAsAwarded
  <2>4. PaidAsAwarded'
    BY <1>1, <1>2, <2>3 DEF PaidAsAwarded
  <2>5. transfers' \subseteq TransferRecord /\ TransfersTold'
    <3>1. \A u \in transfers : u \in TransferRecord /\ Told(u.rfq)'
      BY <1>3 DEF MInv, BotsTypeOK, TransfersTold, Told
    <3> QED BY <1>4, <1>11, <2>1, <3>1 DEF TransfersTold, Told
  <2> QED BY <1>2, <1>3, <1>4, <1>6, <2>4, <2>5 DEF MInv, BotsTypeOK
<1> QED BY <1>1, <1>10, <1>11

(* What loses only drafts and quotes, handles a loss, or moves a transfer. *)
LEMMA QuietInv ==
    ASSUME MInv, UNCHANGED <<link, known, restarted>>,
           handled \subseteq handled', handled' \subseteq received,
           drafts' \subseteq drafts, sent' \subseteq sent,
           \/ transfers' \subseteq transfers
           \/ \E t \in transfers, step \in {"sent", "short", "paid", "failed"} : transfers' = Becomes(t, step),
           RouterInv', Lasting, UNCHANGED quotes
    PROVE  MInv'
<1>1. transfers' \subseteq TransferRecord /\ TransfersTold' /\ PaidAsAwarded'
  BY TransfersKept
<1>2. \A n \in Makers, x \in Rfqs : Remembers(n, x) => Remembers(n, x)'
  BY DEF Remembers, Told
<1>3. /\ drafts' \subseteq DraftRecord
      /\ sent' \subseteq SentRecord /\ \A q \in sent' : holder'[q.via] # None
      /\ QuotesRemembered'
  BY <1>2, MemoryKept
<1>4. /\ link' \in [Makers -> Connections \cup {None}]
      /\ \A m \in Makers : link'[m] # None => holder'[link'[m]] = m
  <2>1. /\ link \in [Makers -> Connections \cup {None}]
        /\ \A m \in Makers : link[m] # None => holder[link[m]] = m /\ holder[link[m]] # None
    BY RouterFacts DEF MInv, BotsTypeOK
  <2> QED BY <2>1 DEF Lasting
<1>5. handled' \subseteq received' /\ known' \in [Makers -> SUBSET Rfqs]
  BY DEF Lasting, MInv, BotsTypeOK
<1> QED BY <1>1, <1>3, <1>4, <1>5 DEF MInv, BotsTypeOK

LEMMA LostInv ==
    ASSUME MInv, NEW m \in Makers, NEW msg, BotLost(m, msg)
    PROVE  MInv'
<1>1. UNCHANGED <<vars, link, known, drafts, sent, transfers, restarted>>
      /\ Handles(m, msg, "rfq_lost")
  BY DEF BotLost
<1>2. handled \subseteq handled' /\ handled' \subseteq received
  BY <1>1, MessageHandled
<1> QED BY <1>1, <1>2, ProcessKept, QuietInv

LEMMA TransferStepInv ==
    ASSUME MInv,
           \/ \E t \in transfers : CheckBalance(t) \/ TransferLands(t) \/ TransferFails(t)
           \/ \E m \in Makers : Spend(m)
    PROVE  MInv'
<1>1. UNCHANGED <<vars, link, known, drafts, sent, handled, restarted>>
  BY DEF CheckBalance, TransferLands, TransferFails, Spend
<1>2. \/ transfers' \subseteq transfers
      \/ \E t \in transfers, step \in {"sent", "short", "paid", "failed"} : transfers' = Becomes(t, step)
  BY DEF CheckBalance, TransferLands, TransferFails, Spend
<1>3. handled' \subseteq received
  BY <1>1 DEF MInv, BotsTypeOK
<1> QED BY <1>1, <1>2, <1>3, ProcessKept, QuietInv

LEMMA SendsQuoteInv ==
    ASSUME MInv, NEW d \in drafts, BotSendsQuote(d)
    PROVE  MInv'
<1>1. /\ UNCHANGED <<vars, link, known, handled, transfers, restarted>>
      /\ drafts' = drafts \ {d}
  BY DEF BotSendsQuote
<1>2. handled' \subseteq received
  BY <1>1 DEF MInv, BotsTypeOK
<1>3. CASE sent' = sent
  BY <1>1, <1>2, <1>3, ProcessKept, QuietInv
<1>4. CASE CanSend(d)
  <2> DEFINE q == [via |-> link[d.maker], rfq |-> d.rfq, premium |-> d.premium]
  <2>1. sent' = sent \cup {q}
    BY <1>4 DEF BotSendsQuote
  <2>2. /\ d.maker \in Makers /\ d.rfq \in Rfqs /\ d.premium \in Prices
        /\ Remembers(d.maker, d.rfq)
    BY DEF MInv, BotsTypeOK, DraftRecord, QuotesRemembered
  <2>3. link[d.maker] \in Connections /\ holder[link[d.maker]] = d.maker
    BY <1>4, <2>2 DEF CanSend, MInv, BotsTypeOK
  <2>4. q \in SentRecord /\ q.rfq = d.rfq /\ holder[q.via] = d.maker /\ d.maker # None
    BY <2>2, <2>3, RouterFacts DEF SentRecord
  <2> HIDE DEF q
  <2>5. /\ RouterInv' /\ Lasting /\ UNCHANGED <<quotes, holder>>
        /\ link' \in [Makers -> Connections \cup {None}]
        /\ \A n \in Makers : link'[n] # None => holder'[link'[n]] = n
    BY <1>1, ProcessKept DEF vars, socketVars
  <2>6. \A n, x : Remembers(n, x)' <=> Remembers(n, x)
    BY <1>1 DEF Remembers, Told
  <2>7. sent' \subseteq SentRecord /\ \A x \in sent' : holder'[x.via] # None
    BY <2>1, <2>4, <2>5 DEF MInv, BotsTypeOK
  <2>8. QuotesRemembered'
    <3>1. \A x \in sent' : Remembers(holder[x.via], x.rfq)
      BY <2>1, <2>2, <2>4 DEF MInv, QuotesRemembered
    <3>2. /\ \A x \in drafts' : Remembers(x.maker, x.rfq)
          /\ \A r \in Rfqs : \A m \in DOMAIN quotes[r] : Remembers(m, r)
      BY <1>1 DEF MInv, QuotesRemembered
    <3> QED BY <2>5, <2>6, <3>1, <3>2 DEF QuotesRemembered, Remembers, Told
  <2>9. transfers' \subseteq TransferRecord /\ TransfersTold' /\ PaidAsAwarded'
    BY <1>1, <2>5, TransfersKept
  <2>10. /\ drafts' \subseteq DraftRecord /\ known' \in [Makers -> SUBSET Rfqs]
         /\ handled' \subseteq received'
    BY <1>1, <1>2, <2>5 DEF MInv, BotsTypeOK, Lasting
  <2> QED BY <2>5, <2>7, <2>8, <2>9, <2>10 DEF MInv, BotsTypeOK
<1> QED BY <1>3, <1>4 DEF BotSendsQuote

(* The quotes a request has are those it had and those of the processes    *)
(* whose messages arrive.                                                  *)
LEMMA QuoteArrivesInv ==
    ASSUME MInv, NEW q \in sent, QuoteArrives(q)
    PROVE  MInv'
<1>1. /\ UNCHANGED <<link, known, drafts, handled, transfers, restarted>>
      /\ sent' = sent \ {q}
  BY DEF QuoteArrives
<1>2. /\ q.via \in Connections /\ q.rfq \in Rfqs /\ q.premium \in Prices
      /\ Remembers(holder[q.via], q.rfq)
  BY DEF MInv, BotsTypeOK, SentRecord, QuotesRemembered
<1>3. handled' \subseteq received
  BY <1>1 DEF MInv, BotsTypeOK
<1>4. CASE LateQuote(q.via, q.rfq) \/ UNCHANGED vars
  <2>1. RouterInv' /\ Lasting /\ UNCHANGED quotes
    BY <1>2, <1>4, RouterKept DEF MInv
  <2> QED BY <1>1, <1>3, <2>1, QuietInv
<1>5. CASE \E l \in Lifetimes : Quote(q.via, q.rfq, q.premium, l)
  <2>1. /\ RouterInv' /\ Lasting
        /\ \A s \in Rfqs : \A m \in DOMAIN quotes'[s] :
             m \in DOMAIN quotes[s] \/ (s = q.rfq /\ m = holder[q.via])
    BY <1>2, <1>5, QuoteKept DEF MInv
  <2>2. UNCHANGED <<holder, received>>
    BY <1>5 DEF Quote, socketVars
  <2>3. \A n, x : Remembers(n, x)' <=> Remembers(n, x)
    BY <1>1 DEF Remembers, Told
  <2>4. QuotesRemembered'
    <3>1. \A s \in Rfqs : \A m \in DOMAIN quotes'[s] : Remembers(m, s)
      BY <1>2, <2>1 DEF MInv, QuotesRemembered
    <3>2. /\ \A x \in drafts' : Remembers(x.maker, x.rfq)
          /\ \A x \in sent' : Remembers(holder[x.via], x.rfq)
      BY <1>1 DEF MInv, QuotesRemembered
    <3> QED BY <2>2, <2>3, <3>1, <3>2 DEF QuotesRemembered, Remembers, Told
  <2>5. transfers' \subseteq TransferRecord /\ TransfersTold' /\ PaidAsAwarded'
    BY <1>1, <2>1, TransfersKept
  <2>6. BotsTypeOK'
    BY <1>1, <2>2, <2>5 DEF MInv, BotsTypeOK
  <2> QED BY <2>1, <2>4, <2>5, <2>6 DEF MInv
<1> QED BY <1>4, <1>5 DEF QuoteArrives

LEMMA QuoteLostInv ==
    ASSUME MInv, NEW q \in sent, QuoteLost(q)
    PROVE  MInv'
<1>1. /\ UNCHANGED <<vars, link, known, drafts, handled, transfers, restarted>>
      /\ sent' = sent \ {q}
  BY DEF QuoteLost
<1>2. handled' \subseteq received
  BY <1>1 DEF MInv, BotsTypeOK
<1> QED BY <1>1, <1>2, ProcessKept, QuietInv

LEMMA RouterNextInv ==
    ASSUME MInv, RouterNext
    PROVE  MInv'
<1>1. RouterInv' /\ Lasting /\ UNCHANGED quotes
  BY RouterKept DEF RouterNext, MInv
<1>2. UNCHANGED <<link, known, drafts, sent, handled, transfers, restarted>>
  BY DEF RouterNext, botVars
<1>3. handled' \subseteq received
  BY <1>2 DEF MInv, BotsTypeOK
<1> QED BY <1>1, <1>2, <1>3, QuietInv

LEMMA InitMInv == MInit => MInv
<1> SUFFICES ASSUME MInit PROVE MInv
  OBVIOUS
<1>1. RInv /\ Init
  BY InitRInv DEF MInit
<1>2. OneFillSent /\ WinnersQuoted /\ LossesKnown /\ QuotesCarryWallets
  BY <1>1 DEF Init, OneFillSent, WinnersQuoted, LossesKnown, QuotesCarryWallets
<1>3. BotsTypeOK /\ TransfersTold /\ PaidAsAwarded
  BY DEF MInit, BotsTypeOK, TransfersTold, PaidAsAwarded
<1>4. QuotesRemembered
  BY <1>1 DEF Init, MInit, QuotesRemembered
<1> QED BY <1>1, <1>2, <1>3, <1>4 DEF MInv, RouterInv

LEMMA NextMInv == MInv /\ [MNext]_<<vars, botVars>> => MInv'
<1> SUFFICES ASSUME MInv, [MNext]_<<vars, botVars>> PROVE MInv'
  OBVIOUS
<1>1. ASSUME NEW m \in Makers,
             \/ BotConnect(m) \/ BotClosed(m) \/ BotRestart(m) \/ Spend(m)
             \/ \E msg \in received :
                  \/ BotSkips(m, msg) \/ \E p \in Prices : BotPrices(m, msg, p)
                  \/ BotFilled(m, msg) \/ BotLost(m, msg)
      PROVE  MInv'
  BY <1>1, LinksInv, TransferStepInv, HandlesBroadcastInv, FilledInv, LostInv
<1>2. CASE \/ \E d \in drafts : BotSendsQuote(d)
           \/ \E q \in sent : QuoteArrives(q) \/ QuoteLost(q)
           \/ \E t \in transfers : CheckBalance(t) \/ TransferLands(t) \/ TransferFails(t)
  BY <1>2, SendsQuoteInv, QuoteArrivesInv, QuoteLostInv, TransferStepInv
<1>3. CASE UNCHANGED <<vars, botVars>>
  <2>1. /\ UNCHANGED <<vars, link, known, drafts, sent, handled, transfers, restarted>>
    BY <1>3 DEF botVars
  <2>2. handled' \subseteq received
    BY <2>1 DEF MInv, BotsTypeOK
  <2> QED BY <2>1, <2>2, ProcessKept, QuietInv
<1> QED BY <1>1, <1>2, <1>3, RouterNextInv DEF MNext, BotNext

-----------------------------------------------------------------------------
(* mock-mm.js, rust-mm: the premium of a request is paid at most once, by  *)
(* the maker the router awarded it to, in the amount awarded, and into     *)
(* another vault only by a maker that was restarted.                       *)
THEOREM PremiumPaidAsAwarded == MSpec => []PaidAsAwarded
<1>1. MInv => PaidAsAwarded
  BY DEF MInv
<1> QED BY <1>1, InitMInv, NextMInv, PTL DEF MSpec

(* index.js: the wallet kept with a quote is that of its maker, and is     *)
(* missing only if the maker has lost a socket.                            *)
THEOREM WalletsCarried == MSpec => []QuotesCarryWallets
<1>1. MInv => QuotesCarryWallets
  BY DEF MInv, RouterInv
<1> QED BY <1>1, InitMInv, NextMInv, PTL DEF MSpec
=============================================================================
