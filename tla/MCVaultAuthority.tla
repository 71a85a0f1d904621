--------------------------- MODULE MCVaultAuthority ---------------------------
(***************************************************************************)
(* What the vault's authority does, small instances for TLC.  The first    *)
(* state says which: epochs with premiums and settlements while the        *)
(* parameters stay, or changes of the parameters in epochs that earn       *)
(* nothing.                                                                *)
(***************************************************************************)
EXTENDS VaultTimelock

CONSTANTS
    LastPremiumTime,  \* bound: the clock of the first kind stops here
    OnlyDeposit       \* bound: the only deposit of the second kind

VARIABLE focus

AInit == TInit /\ focus \in {"premiums", "parameters"}

ANext ==
    /\ UNCHANGED focus
    /\ \/ focus = "premiums" /\ TOther /\ now' <= LastPremiumTime
       \/ /\ focus = "parameters" /\ TNext
          /\ UNCHANGED usdcVars /\ epoch_premium_earned' = 0
          /\ total_assets' \in {0, OnlyDeposit}

ASpec == AInit /\ [][ANext]_<<focus, vars, asked>>
=============================================================================
