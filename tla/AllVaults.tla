------------------------------- MODULE AllVaults -------------------------------
(***************************************************************************)
(* The list of vaults (useAllVaults of app/hooks/useVault.ts), for the     *)
(* dashboard and the portfolio: one browser cache of what was read for     *)
(* each wallet, another of which vaults there are, refreshes every thirty  *)
(* seconds that may overlap, and reads that fail. What is read of a vault  *)
(* is abstracted to whether it could be read, balances to whose they are.  *)
(***************************************************************************)
EXTENDS Naturals, FiniteSets, Null

CONSTANTS VaultIds,     \* the vaults that are enabled in the configuration
          Owners,       \* wallets
          Loads,        \* bound: numbers of the runs of fetchData under way at once
          MaxTroubles   \* bound: failed calls, other wallets and reloads, vaults
                        \* opened or closed

ASSUME ListOK == MaxTroubles \in Nat /\ Loads \subseteq Nat /\ None \notin Owners

Visitors == Owners \cup {None}

VARIABLES
    onChain,        \* the vaults there are
    publicKey,      \* the wallet connected, or None
    allCache,       \* optionsfi_all_vaults_v1_<wallet>: [result, fresh], or None
    listCache,      \* optionsfi_vault_list_v1: [ids, fresh], or None
    vaults,         \* what is shown, [read, failed, owner], or None
    vaultIds,       \* which vaults are listed
    lastDataHash,   \* what was shown last by a load, or None
    load,           \* a load under way: [owner, ids, result], or None
    troubles

listVars == <<onChain, publicKey, allCache, listCache, vaults, vaultIds, lastDataHash, load,
              troubles>>

ListInit ==
    /\ onChain \in SUBSET VaultIds
    /\ publicKey = None
    /\ allCache = [w \in Visitors |-> None] /\ listCache = None
    /\ vaults = None /\ vaultIds = {} /\ lastDataHash = None
    /\ load = [f \in Loads |-> None]
    /\ troubles = 0

Trouble == troubles < MaxTroubles /\ troubles' = troubles + 1

NothingRead(w) == [read |-> {}, failed |-> {}, owner |-> w]

-----------------------------------------------------------------------------
AllFresh(w) == allCache[w] # None /\ allCache[w].fresh

ListWhateverAge == listCache # None /\ listCache.ids # {}   \* mutant: the list is never renewed
ListUsable == listCache # None /\ listCache.fresh /\ listCache.ids # {}

Idle == {f \in Loads : load[f] = None}

(* From the cache without an await, and then vaultIds and lastDataHash     *)
(* stay; else with the list there is, or none.                             *)
FetchData(w) ==
    IF AllFresh(w)
    THEN vaults' = allCache[w].result /\ UNCHANGED load
    ELSE \E f \in Idle :
           /\ \A g \in Idle : f <= g
           /\ load' = [load EXCEPT ![f] =
                  [owner |-> w, ids |-> IF ListUsable THEN listCache.ids ELSE None,
                   result |-> NothingRead(w)]]
           /\ UNCHANGED vaults

Interval ==
    /\ FetchData(publicKey)
    /\ UNCHANGED <<onChain, publicKey, allCache, listCache, vaultIds, lastDataHash, troubles>>

ConnectWallet(w) ==
    /\ w # publicKey /\ publicKey' = w
    /\ FetchData(w) /\ Trouble
    /\ UNCHANGED <<onChain, allCache, listCache, vaultIds, lastDataHash>>

(* The page is loaded again: only the caches stay.                         *)
Reload ==
    /\ vaults' = None /\ vaultIds' = {} /\ lastDataHash' = None
    /\ load' = [f \in Loads |-> None]
    /\ Trouble
    /\ UNCHANGED <<onChain, publicKey, allCache, listCache>>

(* fetchAllVaultAccounts *)
ListArrives(f) ==
    /\ load[f] # None /\ load[f].ids = None
    /\ load' = [load EXCEPT ![f].ids = onChain]
    /\ listCache' = [ids |-> onChain, fresh |-> TRUE]
    /\ UNCHANGED <<onChain, publicKey, allCache, vaults, vaultIds, lastDataHash, troubles>>

ListFails(f) ==
    /\ load[f] # None /\ load[f].ids = None
    /\ load' = [load EXCEPT ![f] = None]
    /\ Trouble
    /\ UNCHANGED <<onChain, publicKey, allCache, listCache, vaults, vaultIds, lastDataHash>>

Unread(f) ==
    IF load[f] = None \/ load[f].ids = None THEN {}
    ELSE load[f].ids \ (load[f].result.read \cup load[f].result.failed)

(* The vaults of the list are read at once, each with its balance.         *)
VaultRead(f, v) ==
    /\ v \in Unread(f)
    /\ \/ /\ v \in onChain
          /\ load' = [load EXCEPT ![f].result.read = @ \cup {v}]
          /\ UNCHANGED troubles
       \/ /\ load' = [load EXCEPT ![f].result.failed = @ \cup {v}]
          /\ IF v \in onChain THEN Trouble ELSE UNCHANGED troubles
    /\ UNCHANGED <<onChain, publicKey, allCache, listCache, vaults, vaultIds, lastDataHash>>

(* The list loses the vaults that could not be read, and is as good as new.*)
AllRead(f) ==
    /\ load[f] # None /\ load[f].ids # None /\ Unread(f) = {}
    /\ LET result == load[f].result
       IN  /\ listCache' = IF result.failed = {} THEN listCache
                           ELSE [ids |-> result.read, fresh |-> TRUE]
           /\ vaultIds' = result.read
           /\ lastDataHash' = result
           /\ vaults' = IF result # lastDataHash THEN result ELSE vaults
           /\ allCache' = [allCache EXCEPT ![load[f].owner] = [result |-> result, fresh |-> TRUE]]
    /\ load' = [load EXCEPT ![f] = None]
    /\ UNCHANGED <<onChain, publicKey, troubles>>

(* An entry outlives its thirty seconds, or its five minutes.              *)
AllAges(w) ==
    /\ AllFresh(w)
    /\ allCache' = [allCache EXCEPT ![w].fresh = FALSE]
    /\ UNCHANGED <<onChain, publicKey, listCache, vaults, vaultIds, lastDataHash, load, troubles>>

ListAges ==
    /\ listCache # None /\ listCache.fresh
    /\ listCache' = [listCache EXCEPT !.fresh = FALSE]
    /\ UNCHANGED <<onChain, publicKey, allCache, vaults, vaultIds, lastDataHash, load, troubles>>

(* Operators create and close vaults.                                      *)
OpenOrClose(v) ==
    /\ onChain' = IF v \in onChain THEN onChain \ {v} ELSE onChain \cup {v}
    /\ Trouble
    /\ UNCHANGED <<publicKey, allCache, listCache, vaults, vaultIds, lastDataHash, load>>

LoadStep(f) ==
    ListArrives(f) \/ ListFails(f) \/ AllRead(f) \/ \E v \in VaultIds : VaultRead(f, v)

ListNext ==
    \/ Interval \/ Reload \/ ListAges
    \/ \E w \in Visitors : ConnectWallet(w) \/ AllAges(w)
    \/ \E f \in Loads : LoadStep(f)
    \/ \E v \in VaultIds : OpenOrClose(v)

(* The interval fires, calls return, entries grow old.                     *)
LoadFairness ==
    /\ WF_listVars(ListAges)
    /\ \A w \in Visitors : WF_listVars(AllAges(w))
    /\ \A f \in Loads : WF_listVars(LoadStep(f))

ListFairness == WF_listVars(Interval) /\ LoadFairness

-----------------------------------------------------------------------------
(* A vault that was just created, or that a failed read took off the list, *)
(* is listed again: no cache keeps it away for good, however loads and     *)
(* wallets overlap.                                                        *)
VaultsListed == \A v \in VaultIds : v \in onChain ~> (v \in vaultIds \/ v \notin onChain)

(* Not so: a load whose result is that of the load before it leaves what   *)
(* another wallet's cache brought to the page in between.                  *)
OwnShownInTheEnd ==
    \A w \in Owners : publicKey = w ~> (publicKey # w \/ (vaults # None /\ vaults.owner = w))
=============================================================================
