------------------------------ MODULE RfqAuction ------------------------------
(***************************************************************************)
(* What the RFQ router promises of one request for quotes, whatever its    *)
(* sockets, its maps and its timers do: a sealed auction with a deadline,  *)
(* a floor and a quorum, awarded at most once, to the best offer that      *)
(* stands when it is awarded.                                              *)
(***************************************************************************)
EXTENDS Integers, FiniteSets

CONSTANTS Rfqs, Makers, None

VARIABLES
    time,
    terms,    \* None, or the deadline, floor and quorum announced
    offers,   \* for each request and maker: None or [premium, validUntil]
    award,    \* None, or the winning maker and its premium
    dead      \* requests that were given up

auctionVars == <<time, terms, offers, award, dead>>

Offering(r) == {m \in Makers : offers[r][m] # None}

Standing(r) ==
    {m \in Offering(r) : /\ offers[r][m].premium >= terms[r].floor
                         /\ offers[r][m].validUntil > time}

Undecided(r) == terms[r] # None /\ award[r] = None /\ r \notin dead

Init ==
    /\ time = 0
    /\ terms = [r \in Rfqs |-> None]
    /\ offers = [r \in Rfqs |-> [m \in Makers |-> None]]
    /\ award = [r \in Rfqs |-> None]
    /\ dead = {}

Announce(r) ==
    /\ terms[r] = None
    /\ terms'[r] # None
    /\ terms' = [terms EXCEPT ![r] = terms'[r]]
    /\ UNCHANGED <<time, offers, award, dead>>

(* A maker offers, or replaces its offer. *)
Offer(r, m) ==
    /\ Undecided(r) /\ time <= terms[r].deadline
    /\ offers'[r][m] # None
    /\ offers' = [offers EXCEPT ![r][m] = offers'[r][m]]
    /\ UNCHANGED <<time, terms, award, dead>>

Award(r, m) ==
    /\ Undecided(r) /\ time <= terms[r].deadline
    /\ Cardinality(Offering(r)) >= terms[r].quorum
    /\ m \in Standing(r)
    /\ \A n \in Standing(r) : offers[r][n].premium <= offers[r][m].premium
    /\ award' = [award EXCEPT ![r] = [maker |-> m, premium |-> offers[r][m].premium]]
    /\ UNCHANGED <<time, terms, offers, dead>>

(* Given up for good: too late, or nothing to choose from any more. *)
GiveUp(r) ==
    /\ Undecided(r)
    /\ time > terms[r].deadline \/ Standing(r) = {}
    /\ dead' = dead \cup {r}
    /\ UNCHANGED <<time, terms, offers, award>>

Pass == time' > time /\ UNCHANGED <<terms, offers, award, dead>>

Next ==
    \/ \E r \in Rfqs : Announce(r) \/ GiveUp(r)
    \/ \E r \in Rfqs, m \in Makers : Offer(r, m) \/ Award(r, m)
    \/ Pass

Spec == Init /\ [][Next]_auctionVars
=============================================================================
