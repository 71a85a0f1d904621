------------------------------- MODULE VaultSetup -------------------------------
(***************************************************************************)
(* The accounts of one asset id, from the creation of its vault to what is *)
(* left when it is closed: the instructions of lib.rs that create and      *)
(* close accounts, and the operators' scripts that send them (scripts/     *)
(* create-vault.ts, setup-demo.ts, force-close-vault.ts,                   *)
(* close-orphaned-account.ts, infra/keeper/src/setup-whitelist.ts).        *)
(***************************************************************************)
EXTENDS Naturals, FiniteSets

CONSTANTS Processes,      \* the processes that may run a script at once
          Operator,       \* the wallet of the scripts, the vault's authority
          OtherMakers,    \* market makers that are whitelisted by hand
          WhitelistSize,  \* 10
          MaxOutstanding  \* bound: instructions outstanding at once

ASSUME SetupOK ==
    /\ Operator \notin OtherMakers
    /\ WhitelistSize \in Nat \ {0} /\ MaxOutstanding \in Nat

TokenAccounts == {"vault_token_account", "premium_token_account", "share_escrow"}

CreatedWithVault == {"vault", "share_mint"} \cup TokenAccounts

VARIABLES
    existing,          \* the accounts that exist, all at addresses derived from the asset id
    holding,           \* the token accounts with a balance
    market_makers,     \* the whitelist's entries
    outstanding,       \* instructions sent whose answer was given up, which may land yet
    script             \* where each process stands, "idle" or before an await

setupVars == <<existing, holding, market_makers, outstanding, script>>
chainState == <<existing, holding, market_makers>>

SetupInit ==
    /\ existing = {} /\ holding = {} /\ market_makers = {} /\ outstanding = {}
    /\ script = [s \in Processes |-> "idle"]

-----------------------------------------------------------------------------
(* The instructions. Anchor's init refuses an account that exists.         *)
Creates(accounts) == accounts \cap existing = {} /\ existing' = existing \cup accounts

InitializeVault == Creates(CreatedWithVault) /\ UNCHANGED <<holding, market_makers>>

(* The accounts each instruction declares, as far as they must exist.      *)
MetadataAccounts == {"vault", "share_mint"} \subseteq existing
NewWhitelist == "vault" \in existing /\ Creates({"whitelist"})
ManagedWhitelist == {"vault", "whitelist"} \subseteq existing
Orphans == IF "vault" \in existing THEN {} ELSE TokenAccounts \cap existing

CreateShareMetadata ==
    /\ MetadataAccounts
    /\ Creates({"metadata"})
    /\ UNCHANGED <<holding, market_makers>>

InitializeWhitelist ==
    /\ NewWhitelist
    /\ market_makers' = {}
    /\ UNCHANGED holding

AddMarketMaker(m) ==
    /\ ManagedWhitelist
    /\ Cardinality(market_makers) < WhitelistSize
    /\ m \notin market_makers
    /\ market_makers' = market_makers \cup {m}
    /\ UNCHANGED <<existing, holding>>

RemoveMarketMaker(m) ==
    /\ ManagedWhitelist
    /\ m \in market_makers
    /\ market_makers' = market_makers \ {m}
    /\ UNCHANGED <<existing, holding>>

(* The account is emptied of its lamports and its data, whatever else the  *)
(* vault owns; close_vault does the same to a vault that counts nothing.   *)
ForceCloseVault ==
    /\ "vault" \in existing
    /\ existing' = existing \ {"vault"}
    /\ UNCHANGED <<holding, market_makers>>

CloseVault == ForceCloseVault

(* The token program closes an account only when it is empty.              *)
CloseOrphanedTokenAccount(a) ==
    /\ a \in Orphans \ holding
    /\ existing' = existing \ {a}
    /\ UNCHANGED <<holding, market_makers>>

Instruction(i) ==
    CASE i = "initialize_vault" -> InitializeVault
      [] i = "create_share_metadata" -> CreateShareMetadata
      [] i = "initialize_whitelist" -> InitializeWhitelist
      [] i = "add_market_maker" -> AddMarketMaker(Operator)
      [] i = "force_close_vault" -> ForceCloseVault
      [] OTHER -> CloseOrphanedTokenAccount(i)

-----------------------------------------------------------------------------
(* The scripts. Each await is a step: a read of an account, or the sending *)
(* of an instruction and its confirmation, which fails when the            *)
(* instruction does, or the wait for it is given up.                       *)
Goes(s, step) == script' = [script EXCEPT ![s] = step]

Starts(s, step) == script[s] = "idle" /\ Goes(s, step) /\ UNCHANGED <<chainState, outstanding>>

Reads(s, at, account, found, missing) ==
    /\ script[s] = at
    /\ Goes(s, IF account \in existing THEN found ELSE missing)
    /\ UNCHANGED <<chainState, outstanding>>

Confirms(s, at, i, next) ==
    script[s] = at /\ Instruction(i) /\ Goes(s, next) /\ UNCHANGED outstanding

GivesUp(s, at, i, next) ==
    /\ script[s] = at
    /\ outstanding' \in {outstanding, outstanding \cup {i}}
    /\ Cardinality(outstanding') <= MaxOutstanding
    /\ Goes(s, next)
    /\ UNCHANGED chainState

Sends(s, at, i, next, failed) == Confirms(s, at, i, next) \/ GivesUp(s, at, i, failed)

(* create-vault.ts *)
CreateVaultCheck(s) == Reads(s, "create_check", "vault", "idle", "create_init")
CreateVaultInit(s) == Sends(s, "create_init", "initialize_vault", "metadata_check", "idle")
CreateMetadata(s) ==
    \/ Reads(s, "metadata_check", "metadata", "idle", "metadata_send")
    \/ Sends(s, "metadata_send", "create_share_metadata", "idle", "idle")

(* setup-demo.ts: closes the vault there is and creates it anew.           *)
SetupDemoReset(s) ==
    \/ Reads(s, "demo_check", "vault", "demo_close", "demo_init")
    \/ Sends(s, "demo_close", "force_close_vault", "demo_init", "idle")
SetupDemoInit(s) == Sends(s, "demo_init", "initialize_vault", "idle", "idle")

(* force-close-vault.ts, close-orphaned-account.ts *)
ForceClose(s) ==
    \/ Reads(s, "force_check", "vault", "force_close", "idle")
    \/ Sends(s, "force_close", "force_close_vault", "idle", "idle")
CloseOrphan(s) == \E a \in TokenAccounts : Sends(s, "orphan_close", a, "idle", "idle")

CheckEndsRun(s) ==      \* mutant: an existing whitelist is taken to be complete
    Reads(s, "whitelist_check", "whitelist", "idle", "whitelist_init")

(* setup-whitelist.ts: the maker is added whether the whitelist was there  *)
(* or not; a failure to create it ends the run.                            *)
WhitelistCheck(s) == Reads(s, "whitelist_check", "whitelist", "whitelist_add", "whitelist_init")

WhitelistInit(s) ==
    Sends(s, "whitelist_init", "initialize_whitelist", "whitelist_add", "idle")
WhitelistAdd(s) == Sends(s, "whitelist_add", "add_market_maker", "idle", "idle")
SetupWhitelist(s) == WhitelistCheck(s) \/ WhitelistInit(s) \/ WhitelistAdd(s)

StartWhitelist(s) == Starts(s, "whitelist_check")
StartOther(s) ==
    \E step \in {"create_check", "demo_check", "force_check", "orphan_close"} : Starts(s, step)

(* A process is killed, or a read throws: main().catch.                    *)
Dies(s) == script[s] # "idle" /\ Goes(s, "idle") /\ UNCHANGED <<chainState, outstanding>>

Lands(i) ==
    /\ i \in outstanding
    /\ outstanding' = outstanding \ {i}
    /\ Instruction(i)
    /\ UNCHANGED script

Expires(i) ==
    /\ i \in outstanding
    /\ outstanding' = outstanding \ {i}
    /\ UNCHANGED <<chainState, script>>

(* Whoever uses the vault: tokens come while their account is there, and   *)
(* leave by the vault's own instructions.                                  *)
TokensArrive(a) ==
    /\ a \in (TokenAccounts \cap existing) \ holding
    /\ holding' = holding \cup {a}
    /\ UNCHANGED <<existing, market_makers, outstanding, script>>

TokensLeave(a) ==
    /\ "vault" \in existing
    /\ a \in holding
    /\ holding' = holding \ {a}
    /\ UNCHANGED <<existing, market_makers, outstanding, script>>

ByHand ==
    /\ CloseVault \/ \E m \in OtherMakers : AddMarketMaker(m) \/ RemoveMarketMaker(m)
    /\ UNCHANGED <<outstanding, script>>

ScriptStep(s) ==
    CreateVaultCheck(s) \/ CreateVaultInit(s) \/ CreateMetadata(s) \/ SetupDemoReset(s)
    \/ SetupDemoInit(s) \/ ForceClose(s) \/ CloseOrphan(s) \/ SetupWhitelist(s)

SetupNext ==
    \/ \E s \in Processes : StartWhitelist(s) \/ StartOther(s) \/ ScriptStep(s) \/ Dies(s)
    \/ \E i \in outstanding : Lands(i) \/ Expires(i)
    \/ \E a \in TokenAccounts : TokensArrive(a) \/ TokensLeave(a)
    \/ ByHand

SetupSpec == SetupInit /\ [][SetupNext]_setupVars

(* Processes go on or die, and a call that is made again and again is      *)
(* answered some time. No script needs to be started.                      *)
SetupFairness ==
    \A s \in Processes :
        /\ WF_setupVars(ScriptStep(s))
        /\ SF_setupVars(WhitelistCheck(s))
        /\ SF_setupVars(Confirms(s, "whitelist_init", "initialize_whitelist", "whitelist_add"))
        /\ SF_setupVars(Confirms(s, "whitelist_add", "add_market_maker", "idle"))

-----------------------------------------------------------------------------
(* "This is used to clean up old share escrows, vault token accounts, etc. *)
(* after a vault has been force-closed, enabling reuse of asset IDs"       *)
(* (lib.rs:886-887): with the vault and all its token accounts closed,     *)
(* nothing is left that initialize_vault would have to create. The share   *)
(* mint is, which no instruction closes.                                   *)
CleanedUpReusable ==
    ("vault" \notin existing /\ existing # {} /\ TokenAccounts \cap existing = {})
        => CreatedWithVault \cap existing = {}

(* setup-whitelist.ts that is run again and again whitelists its operator, *)
(* wherever earlier runs failed, were killed or were overtaken by what     *)
(* they had sent, unless there is no vault or no room.                     *)
RerunsSetUp ==
    ([]<><<\E s \in Processes : StartWhitelist(s)>>_setupVars)
        => []<>(\/ Operator \in market_makers
               \/ "vault" \notin existing
               \/ Cardinality(market_makers) >= WhitelistSize)
=============================================================================
