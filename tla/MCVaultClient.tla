---------------------------- MODULE MCVaultClient ----------------------------
(***************************************************************************)
(* Small instances of the vault's pages for TLC. What came before, in      *)
(* other browsers, left a request of the epoch that just ended, and says   *)
(* which: a depositor with nothing else comes, wallets and pages are       *)
(* exchanged and reads fail; or one with a share left stays to ask again.  *)
(***************************************************************************)
EXTENDS VaultClient

VARIABLE before     \* the browser is not open yet

Depositor == CHOOSE u \in Signing : TRUE

Earlier ==
    /\ before /\ UNCHANGED <<before, clientVars>>
    /\ \/ \E u \in Users : Deposit(u, 1)
       \/ \E s \in 1..2 : RequestWithdrawal(Depositor, s)
       \/ AdvanceEpoch(0)

(* The bounds: the one that stays can exchange one thing, and no read      *)
(* fails.                                                                  *)
Opens ==
    /\ before /\ before' = FALSE
    /\ DOMAIN withdrawal_requests = {<<Depositor, 1>>} /\ epoch = 2
    /\ \/ share_account = [u \in Users |-> 0] /\ UNCHANGED <<connected, switches, faults>>
       \/ /\ share_account[Depositor] = 1
          /\ connected' = Depositor /\ switches' = MaxSwitches - 1 /\ faults' = MaxFaults
    /\ UNCHANGED <<vars, page, shown, captured, lastVaultHash, cache, fetch, tx>>

PInit == CInit /\ before = TRUE

PNext == Earlier \/ Opens \/ (~before /\ CNext /\ UNCHANGED before)

PSpec == PInit /\ [][PNext]_<<before, cvars>> /\ WF_<<before, cvars>>(Opens) /\ CFairness
=============================================================================
