------------------------------- MODULE MCVault -------------------------------
(***************************************************************************)
(* Small instances of the vault program for TLC: what moves its shares,    *)
(* with the pause and the end of the vault.  Options, time and parameters, *)
(* which leave shares alone, are in MCVaultAuthority.                      *)
(***************************************************************************)
EXTENDS Vault, TLC

UserSymmetry == Permutations(Users)

SharesNext ==
    \/ UserNext
    \/ \E p \in Premiums : AdvanceEpoch(p)
    \/ \E b \in BOOLEAN : SetPause(b)
    \/ CloseVault \/ ForceCloseVault
    \/ \E u \in Users, a \in Donations :
         \/ DonateShares(u, a)
         \/ DonateAssets(u, a)
         \/ \E v \in Users : TransferShares(u, v, a)

SharesSpec == Init /\ [][SharesNext]_vars
=============================================================================
