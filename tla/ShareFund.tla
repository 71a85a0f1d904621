------------------------------ MODULE ShareFund ------------------------------
(***************************************************************************)
(* What the vault promises those who deposit, whatever its requests,       *)
(* epochs, premiums and authority do: a fund whose shares are bought and   *)
(* redeemed at no better than their price.  What somebody has changes only *)
(* by what they do themselves, but for what others give them.              *)
(***************************************************************************)
EXTENDS Integers

CONSTANTS
    Holders,
    Offset    \* shares of nobody's, which come with the first ones bought

VARIABLES
    purse,    \* the underlying asset each holder has
    held,     \* the shares each can dispose of
    asked,    \* the shares each has asked to redeem
    assets,   \* the underlying asset of the fund
    supply    \* the shares that the assets are divided by

fundVars == <<purse, held, asked, assets, supply>>

Init ==
    /\ purse \in [Holders -> Nat]
    /\ held = [u \in Holders |-> 0] /\ asked = [u \in Holders |-> 0]
    /\ assets = 0 /\ supply = 0

(* u pays into the fund and has new shares for it. *)
Pays(u, paid, got) ==
    /\ paid > 0 /\ got > 0
    /\ purse' = [purse EXCEPT ![u] = @ - paid]
    /\ held' = [held EXCEPT ![u] = @ + got]
    /\ assets' = assets + paid
    /\ UNCHANGED asked

Opens(u) ==
    LET paid == purse[u] - purse'[u]
    IN  /\ supply = 0
        /\ Pays(u, paid, paid)
        /\ supply' = paid + Offset

Buys(u) ==
    LET paid == purse[u] - purse'[u]
        got  == held'[u] - held[u]
    IN  /\ supply > 0 /\ got * assets <= paid * supply
        /\ Pays(u, paid, got)
        /\ supply' = supply + got

Asks(u) ==
    LET given == held[u] - held'[u]
    IN  /\ given \in 1..held[u]
        /\ held' = [held EXCEPT ![u] = @ - given]
        /\ asked' = [asked EXCEPT ![u] = @ + given]
        /\ UNCHANGED <<purse, assets, supply>>

Redeems(u) ==
    LET given == asked[u] - asked'[u]
        got   == purse'[u] - purse[u]
    IN  /\ supply' < supply /\ got >= 0
        /\ purse' = [purse EXCEPT ![u] = @ + got]
        /\ assets' = assets - got
        /\ supply' = supply - given /\ given <= asked[u]
        /\ got * supply <= given * assets
        /\ asked' = [asked EXCEPT ![u] = @ - given]
        /\ UNCHANGED held

Gives(u, v) ==
    LET given == held[u] - held'[u]
    IN  /\ u # v /\ given \in 1..held[u]
        /\ held' = [held EXCEPT ![u] = @ - given, ![v] = @ + given]
        /\ UNCHANGED <<purse, asked, assets, supply>>

(* u loses shares, or some of the underlying asset, to nobody's gain. *)
Loses(u) ==
    /\ \/ /\ held'[u] \in 0..(held[u] - 1)
          /\ held' = [held EXCEPT ![u] = held'[u]]
          /\ UNCHANGED purse
       \/ /\ purse'[u] \in 0..(purse[u] - 1)
          /\ purse' = [purse EXCEPT ![u] = purse'[u]]
          /\ UNCHANGED held
    /\ UNCHANGED <<asked, assets, supply>>

Next ==
    \E u \in Holders :
        \/ Opens(u) \/ Buys(u) \/ Asks(u) \/ Redeems(u) \/ Loses(u)
        \/ \E v \in Holders : Gives(u, v)

Spec == Init /\ [][Next]_fundVars
=============================================================================
