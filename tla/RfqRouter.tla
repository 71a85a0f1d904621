------------------------------ MODULE RfqRouter ------------------------------
(***************************************************************************)
(* The RFQ router (infra/rfq-router/index.js): market makers connect over  *)
(* WebSockets, callers open requests for quotes over HTTP, wait for quotes *)
(* and fill the best.  Node.js runs one handler at a time to its end; what *)
(* interleaves is their order: messages, close events of sockets that were *)
(* lost earlier, HTTP calls and timers.                                    *)
(***************************************************************************)
EXTENDS Integers, FiniteSets, Null

CONSTANTS
    Makers,           \* maker ids
    Connections,      \* sockets, each of them used once
    Rfqs,             \* rfq ids, each of them used once
    Waiters,          \* POST /rfq/:id/wait calls
    Prices,           \* premiums makers quote
    Floors,           \* premiumFloor of a request
    Quorums,          \* minQuotes of a request
    QuoteTimeouts,    \* quoteTimeout of a request
    Lifetimes,        \* how long quotes are valid
    WaitTimeouts,     \* the timeout of a wait
    Retention,        \* how long the map keeps a request: 5 minutes
    MaxTime           \* bound: the clock stops here

RfqTerms == [premiumFloor : Nat, minQuotes : Nat, createdAt : Nat, expiresAt : Nat]
Fills == [maker : Makers, premium : Int]
\* What the auction below keeps of terms and of quotes.
Announcements == [deadline : Nat, floor : Nat, quorum : Nat]
Offers == [premium : Int, validUntil : Nat]

ASSUME RouterConstantsOK ==
    /\ None \notin Makers \cup Connections
    /\ None \notin RfqTerms \cup Fills \cup Announcements \cup Offers
    /\ IsFiniteSet(Makers)
    /\ Prices \subseteq Int \ {0} /\ Floors \subseteq Nat /\ Quorums \subseteq Nat
    /\ QuoteTimeouts \subseteq Nat /\ Lifetimes \subseteq Nat
    /\ WaitTimeouts \subseteq Nat /\ Retention \in Nat /\ MaxTime \in Nat

VARIABLES
    now,
    holder,       \* the maker that authenticated on a socket
    attached,     \* sockets whose close event the router has not handled
    reachable,    \* sockets whose other end is still there
    makers,       \* the map of makers: the socket registered for each
    \* the requests, and the keys of the map rfqs
    listed, status, terms, quotes, filled,
    waits,        \* the waits under way and their answers
    received      \* messages that reached a maker's end of a socket

socketVars == <<holder, attached, reachable, makers>>
rfqVars    == <<listed, status, terms, quotes, filled>>
vars       == <<now, socketVars, rfqVars, waits, received>>

Put(f, k, v) == [x \in DOMAIN f \cup {k} |-> IF x = k THEN v ELSE f[x]]

(* A message to a socket whose other end is gone is lost without an error. *)
Delivered(messages) == {msg \in messages : msg.to \in reachable}

Message(m, kind, r) == [to |-> makers[m], kind |-> kind, rfq |-> r]
Registered == {m \in Makers : makers[m] # None}

-----------------------------------------------------------------------------
Init ==
    /\ now = 0
    /\ holder = [c \in Connections |-> None]
    /\ attached = {} /\ reachable = {}
    /\ makers = [m \in Makers |-> None]
    /\ listed = {}
    /\ status = [r \in Rfqs |-> "none"]
    /\ terms = [r \in Rfqs |-> None]
    /\ quotes = [r \in Rfqs |-> [m \in {} |-> None]]
    /\ filled = [r \in Rfqs |-> None]
    /\ waits = [w \in Waiters |-> None]
    /\ received = {}

(* Authenticated with an API key, a maker id and a wallet; the socket takes *)
(* the place of whichever one was registered for the maker.                *)
Connect(c, m) ==
    /\ holder[c] = None
    /\ holder' = [holder EXCEPT ![c] = m]
    /\ attached' = attached \cup {c}
    /\ reachable' = reachable \cup {c}
    /\ makers' = [makers EXCEPT ![m] = c]
    /\ UNCHANGED <<now, rfqVars, waits, received>>

(* The maker's end of the socket goes away; the router learns it later. *)
Lose(c) ==
    /\ c \in reachable
    /\ reachable' = reachable \ {c}
    /\ UNCHANGED <<now, holder, attached, makers, rfqVars, waits, received>>

CloseForgotten(c) ==                    \* mutant: the maker stays registered
    /\ c \in attached \ reachable
    /\ attached' = attached \ {c}
    /\ UNCHANGED <<now, holder, reachable, makers, rfqVars, waits, received>>

CloseClearsMap(c) ==                    \* mutant: every maker is unregistered
    /\ c \in attached \ reachable
    /\ attached' = attached \ {c}
    /\ makers' = [m \in Makers |-> None]
    /\ UNCHANGED <<now, holder, reachable, rfqVars, waits, received>>

(* The maker is unregistered, whichever socket is registered for it. *)
Close(c) ==
    /\ c \in attached \ reachable
    /\ attached' = attached \ {c}
    /\ makers' = [makers EXCEPT ![holder[c]] = None]
    /\ UNCHANGED <<now, holder, reachable, rfqVars, waits, received>>

-----------------------------------------------------------------------------
CreateRfq(r, floor, min, timeout) ==
    /\ status[r] = "none"
    /\ status' = [status EXCEPT ![r] = "open"]
    /\ listed' = listed \cup {r}
    /\ terms' = [terms EXCEPT ![r] = [premiumFloor |-> floor, minQuotes |-> min,
                                      createdAt |-> now, expiresAt |-> now + timeout]]
    /\ received' = received \cup Delivered({Message(m, "rfq", r) : m \in Registered})
    /\ UNCHANGED <<now, socketVars, quotes, filled, waits>>

OpenToQuotes(r) == r \in listed /\ status[r] = "open"

(* A quote replaces the maker's earlier one in place; a new one is added   *)
(* at the end.  The wallet is that of the socket registered for the maker. *)
Quote(c, r, premium, lifetime) ==
    LET m == holder[c]
        q == [premium |-> premium, validUntil |-> now + lifetime,
              makerWallet |-> makers[m],
              place |-> IF m \in DOMAIN quotes[r]
                        THEN quotes[r][m].place
                        ELSE Cardinality(DOMAIN quotes[r]) + 1]
    IN  /\ c \in attached
        /\ OpenToQuotes(r)
        /\ now <= terms[r].expiresAt
        /\ quotes' = [quotes EXCEPT ![r] = Put(@, m, q)]
        /\ UNCHANGED <<now, socketVars, listed, status, terms, filled, waits,
                       received>>

LateQuote(c, r) ==
    /\ c \in attached
    /\ OpenToQuotes(r)
    /\ now > terms[r].expiresAt
    /\ status' = [status EXCEPT ![r] = "expired"]
    /\ UNCHANGED <<now, socketVars, listed, terms, quotes, filled, waits, received>>

-----------------------------------------------------------------------------
(* Filling. *)

ValidQuotes(r) ==
    {m \in DOMAIN quotes[r] : /\ quotes[r][m].premium >= terms[r].premiumFloor
                              /\ quotes[r][m].validUntil > now}

\* Mutant: sorted by arrival only.
RanksFirstCome(r, m, n) == quotes[r][m].place <= quotes[r][n].place

(* The highest premium wins, of equal ones the first to arrive. *)
RanksBefore(r, m, n) ==
    \/ quotes[r][m].premium > quotes[r][n].premium
    \/ /\ quotes[r][m].premium = quotes[r][n].premium
       /\ quotes[r][m].place <= quotes[r][n].place

BestQuote(r) == CHOOSE m \in ValidQuotes(r) :
                    \A n \in ValidQuotes(r) : RanksBefore(r, m, n)

\* Mutant: a request is filled a second time.
EvenFilled(r) == r \in listed

(* A request that was filled is only reported again. *)
CanBeFilled(r) == r \in listed /\ filled[r] = None

FillExpired(r) ==
    /\ CanBeFilled(r)
    /\ now > terms[r].expiresAt
    /\ status' = [status EXCEPT ![r] = "expired"]
    /\ UNCHANGED <<now, socketVars, listed, terms, quotes, filled, waits, received>>

(* With no quotes, or too few of them, nothing changes. *)
EnoughQuotes(r) ==
    /\ CanBeFilled(r)
    /\ now <= terms[r].expiresAt
    /\ DOMAIN quotes[r] # {}
    /\ Cardinality(DOMAIN quotes[r]) >= terms[r].minQuotes

FillNoneValid(r) ==
    /\ EnoughQuotes(r)
    /\ ValidQuotes(r) = {}
    /\ status' = [status EXCEPT ![r] = "no_valid_quotes"]
    /\ UNCHANGED <<now, socketVars, listed, terms, quotes, filled, waits, received>>

(* Winner and losers are told over the sockets registered for them now. *)
FillBest(r) ==
    /\ EnoughQuotes(r)
    /\ ValidQuotes(r) # {}
    /\ LET winner == BestQuote(r)
           losers == ValidQuotes(r) \ {winner}
       IN  /\ filled' = [filled EXCEPT ![r] =
                           [maker |-> winner, premium |-> quotes[r][winner].premium]]
           /\ received' = received \cup Delivered(
                {Message(m, "fill", r) : m \in {winner} \cap Registered} \cup
                {Message(m, "rfq_lost", r) : m \in losers \cap Registered})
    /\ status' = [status EXCEPT ![r] = "filled"]
    /\ UNCHANGED <<now, socketVars, listed, terms, quotes, waits>>

-----------------------------------------------------------------------------
(* Waiting for quotes: the handler keeps the request it found in the map,  *)
(* and polls it also after the map has forgotten it.                       *)
Earlier(s, t) == IF s <= t THEN s ELSE t

StartWait(w, r, target, timeout) ==
    /\ waits[w] = None
    /\ r \in listed
    /\ waits' = [waits EXCEPT ![w] =
                   [rfq |-> r, target |-> target, answer |-> "pending",
                    until |-> now + Earlier(timeout, terms[r].expiresAt - now)]]
    /\ UNCHANGED <<now, socketVars, rfqVars, received>>

OnlyTargetMet(w) ==                     \* mutant: no timeout, no expiry
    IF Cardinality(DOMAIN quotes[waits[w].rfq]) >= waits[w].target
    THEN "target_met" ELSE "pending"

PollOutcome(w) ==
    IF Cardinality(DOMAIN quotes[waits[w].rfq]) >= waits[w].target THEN "target_met"
    ELSE IF now > terms[waits[w].rfq].expiresAt THEN "rfq_expired"
    ELSE IF now >= waits[w].until THEN "timeout" ELSE "pending"

Poll(w) ==
    /\ waits[w] # None /\ waits[w].answer = "pending"
    /\ waits' = [waits EXCEPT ![w].answer = PollOutcome(w)]
    /\ UNCHANGED <<now, socketVars, rfqVars, received>>

-----------------------------------------------------------------------------
TooOld(r) == terms[r].createdAt < now - Retention

Cleanup ==
    /\ listed' = {r \in listed : ~TooOld(r)}
    /\ UNCHANGED <<now, socketVars, status, terms, quotes, filled, waits, received>>

Tick ==
    /\ now < MaxTime
    /\ now' = now + 1
    /\ UNCHANGED <<socketVars, rfqVars, waits, received>>

Next ==
    \/ \E c \in Connections : \/ \E m \in Makers : Connect(c, m)
                              \/ Lose(c)
                              \/ Close(c)
    \/ \E r \in Rfqs :
         \/ \E f \in Floors, n \in Quorums, t \in QuoteTimeouts : CreateRfq(r, f, n, t)
         \/ \E c \in Connections :
              \/ \E p \in Prices, l \in Lifetimes : Quote(c, r, p, l)
              \/ LateQuote(c, r)
         \/ FillExpired(r)
         \/ FillNoneValid(r)
         \/ FillBest(r)
    \/ \E w \in Waiters :
         \/ \E r \in Rfqs, n \in Quorums \ {0}, t \in WaitTimeouts : StartWait(w, r, n, t)
         \/ Poll(w)
    \/ Cleanup
    \/ Tick

Spec == Init /\ [][Next]_vars

(* Time passes and the poll timer of every wait fires again and again. *)
Fairness == WF_vars(Tick) /\ \A w \in Waiters : WF_vars(Poll(w))

FairSpec == Spec /\ Fairness

-----------------------------------------------------------------------------
(* Properties. *)

QuoteRecords == [premium : Int, validUntil : Nat, place : Nat,
                 makerWallet : Connections \cup {None}]

RouterTypeOK ==
    /\ now \in Nat
    /\ holder \in [Connections -> Makers \cup {None}]
    /\ reachable \subseteq attached /\ attached \subseteq Connections
    /\ \A c \in attached : holder[c] # None
    /\ makers \in [Makers -> Connections \cup {None}]
    /\ listed \subseteq Rfqs
    /\ status \in [Rfqs -> {"none", "open", "expired", "no_valid_quotes", "filled"}]
    /\ terms \in [Rfqs -> {None} \cup RfqTerms]
    /\ DOMAIN quotes = Rfqs
    /\ \A r \in Rfqs : /\ status[r] = "none" <=> terms[r] = None
                       /\ r \in listed => status[r] # "none"
                       /\ DOMAIN quotes[r] \subseteq Makers
                       /\ quotes[r] \in [DOMAIN quotes[r] -> QuoteRecords]
    /\ filled \in [Rfqs -> {None} \cup Fills]

(* Broadcasts and fills never go to a socket whose close was handled, and  *)
(* the socket registered for a maker is one the maker opened.              *)
NoStaleRegistration ==
    \A m \in Registered : makers[m] \in attached /\ holder[makers[m]] = m

(* A maker transfers the premium when it is told "fill" (mock-mm.js), so   *)
(* at most one maker is ever told so for a request, the one the router     *)
(* reports as its fill, and that maker is not also told that it lost.      *)
OneWinnerTold ==
    \A msg \in received :
        /\ msg.kind = "fill" =>
             /\ filled[msg.rfq] # None
             /\ filled[msg.rfq].maker = holder[msg.to]
        /\ msg.kind = "rfq_lost" => filled[msg.rfq].maker # holder[msg.to]

(* A fill answered "expired" or "no valid quotes" is final: the keeper     *)
(* that gave up on a request is never surprised by a later fill of it,     *)
(* whatever quotes, repeated fills and timers come after.                  *)
DeadStaysUnfilled ==
    [][\A r \in Rfqs : status[r] \in {"expired", "no_valid_quotes"} =>
         filled'[r] = None /\ status'[r] \in {"expired", "no_valid_quotes"}]_vars

(* POST /rfq/:id/wait answers, also when the request is filled, expires or *)
(* is forgotten while it waits.  (The last disjunct is the bound on the    *)
(* model's clock.)                                                         *)
WaitAnswered ==
    \A w \in Waiters :
        waits[w] # None ~> /\ waits[w] # None
                           /\ \/ waits[w].answer # "pending"
                              \/ now = MaxTime /\ waits[w].until > MaxTime

(* index.js: the router "Broadcasts RFQs to connected market makers via    *)
(* WebSocket".  The close event of a maker's old socket unregisters the    *)
(* maker although it has reconnected.                                      *)
ConnectedMakersRegistered ==
    \A c \in attached \cap reachable : holder[c] \in Registered

(* The router is an auction house. *)
AuctionTerms ==
    [r \in Rfqs |->
        IF terms[r] = None THEN None
        ELSE [deadline |-> terms[r].expiresAt, floor |-> terms[r].premiumFloor,
              quorum |-> terms[r].minQuotes]]

AuctionOffers ==
    [r \in Rfqs |-> [m \in Makers |->
        IF m \notin DOMAIN quotes[r] THEN None
        ELSE [premium |-> quotes[r][m].premium, validUntil |-> quotes[r][m].validUntil]]]

Dead == {r \in Rfqs : status[r] \in {"expired", "no_valid_quotes"}}

Auction == INSTANCE RfqAuction WITH time   <- now,           terms <- AuctionTerms,
                                    offers <- AuctionOffers, award <- filled,
                                    dead   <- Dead

(* Sockets, maps, timers and messages aside, the router runs each request  *)
(* as the auction of RfqAuction: the award goes once, before the deadline, *)
(* with the quorum, to the best offer that stands.                         *)
ImplementsAuction == Auction!Spec
=============================================================================
