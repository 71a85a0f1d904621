--------------------------- MODULE VaultSettlements ---------------------------
(***************************************************************************)
(* The premium side of the vault program with the sum of what              *)
(* pay_settlement has paid out in the current epoch, which the program     *)
(* does not keep.                                                          *)
(***************************************************************************)
EXTENDS Vault

VARIABLE settled

SInit == Init /\ settled = 0

SSettle ==
    \E m \in MarketMakers, p \in Premiums :
        PaySettlement(m, p) /\ settled' = settled + p

SAdvance == \E p \in Premiums : AdvanceEpoch(p) /\ settled' = 0

SOther ==
    /\ \/ UserNext
       \/ ReconcilePremiumBalance
       \/ \E p \in Premiums : CollectPremium(p) \/ TransferPremium(p)
       \/ \E n \in Notionals, p \in Premiums : RecordNotionalExposure(n, p)
       \/ \E m \in MarketMakers : AddMarketMaker(m) \/ RemoveMarketMaker(m)
    /\ UNCHANGED settled

SNext == SSettle \/ SAdvance \/ SOther

SSpec == SInit /\ [][SNext]_<<vars, settled>>

-----------------------------------------------------------------------------
(* pay_settlement: "SECURITY: Settlement capped at epoch premium earned".  *)
(* What an epoch's settlements add up to stays within its premium.         *)
SettlementsWithinPremium == settled <= epoch_premium_earned
=============================================================================
