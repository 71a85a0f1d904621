-------------------------------- MODULE Vault --------------------------------
(***************************************************************************)
(* The covered-call vault program (programs/vault/src/lib.rs): one vault   *)
(* account, its withdrawal requests, its market-maker whitelist and the    *)
(* token accounts it moves tokens between.  Every instruction of the       *)
(* program that changes this state is one action; an instruction that      *)
(* returns an error has no effect, so an action's guard is the conjunction *)
(* of the instruction's requirements.  Solana runs the instructions that   *)
(* write one account one at a time, each of them atomically.               *)
(***************************************************************************)
EXTENDS Ledger

CONSTANTS
    Users,             \* wallets that hold the underlying asset and shares
    MarketMakers,      \* keys that can be on the whitelist
    U64Max,            \* the largest u64
    VirtualOffset,     \* virtual_offset after the first deposit: 1000
    BpsDenominator,    \* basis points in one: 10000
    MaxYieldBps,       \* the largest premium per notional of an epoch: 2000
    TimelockDuration,  \* the delay of a parameter change: 86400 seconds
    MaxMarketMakers,   \* the capacity of the whitelist: 10
    Amounts,           \* amounts of underlying and of shares a caller names
    Premiums,          \* amounts of USDC a caller names
    Notionals,         \* notionals the authority records
    Donations,         \* amounts users transfer past the program
    InitialDurations,  \* min_epoch_duration given to initialize_vault
    InitialCaps,       \* utilization_cap_bps given to initialize_vault
    Durations,         \* epoch durations the authority later asks for
    Caps,              \* utilization caps the authority later asks for
    WalletSupply,      \* underlying tokens each user starts with
    UsdcSupply,        \* USDC outside the vault at the start
    MaxTime,           \* bound: the clock stops here
    MaxEpoch           \* bound: the epoch stops here

U64 == 0..U64Max

ASSUME ConstantsOK ==
    /\ IsFiniteSet(Users)
    /\ U64Max \in Nat /\ VirtualOffset \in U64 \ {0}
    /\ BpsDenominator \in Nat \ {0} /\ MaxYieldBps \in Nat
    /\ TimelockDuration \in Nat /\ MaxMarketMakers \in Nat
    /\ Amounts \subseteq U64 /\ Premiums \subseteq U64
    /\ Notionals \subseteq U64 /\ Donations \subseteq U64
    /\ InitialDurations \subseteq Nat /\ InitialCaps \subseteq Nat
    /\ Durations \subseteq Nat /\ Caps \subseteq Nat
    /\ WalletSupply \in Nat /\ UsdcSupply \in Nat
    /\ MaxTime \in Nat /\ MaxEpoch \in Nat

VARIABLES
    now,                          \* the cluster's clock
    live,                         \* the vault account exists
    \* the Vault account
    total_assets, total_shares, virtual_offset, pending_withdrawals,
    epoch, last_roll_timestamp, is_paused,
    epoch_notional_exposed, epoch_premium_earned, premium_balance_usdc,
    utilization_cap_bps, min_epoch_duration,
    pending_utilization_cap, pending_min_epoch_duration,
    param_change_unlock_time,
    \* the other accounts of the program
    withdrawal_requests,          \* <<user, epoch>> |-> [shares, processed]
    market_makers,                \* VaultWhitelist.market_makers
    \* token accounts
    wallet, vault_token_account,  \* the underlying asset
    share_account, share_escrow,  \* the vault's shares
    outside_usdc, vault_premium_account  \* USDC

shareVars == <<total_assets, total_shares, virtual_offset, pending_withdrawals,
               withdrawal_requests, wallet, vault_token_account,
               share_account, share_escrow>>
epochVars == <<epoch, last_roll_timestamp, epoch_notional_exposed,
               epoch_premium_earned>>
usdcVars  == <<premium_balance_usdc, outside_usdc, vault_premium_account>>
paramVars == <<utilization_cap_bps, min_epoch_duration>>
queueVars == <<pending_utilization_cap, pending_min_epoch_duration,
               param_change_unlock_time>>
vars == <<now, live, shareVars, epochVars, usdcVars, paramVars, queueVars,
          is_paused, market_makers>>

RequestIds == Users \X Nat

(* The shares each request still holds in escrow. *)
OpenShares == [r \in DOMAIN withdrawal_requests |->
                 IF withdrawal_requests[r].processed
                 THEN 0 ELSE withdrawal_requests[r].shares]

-----------------------------------------------------------------------------
(* Arithmetic of the program. *)

AsU64(n) == n % (U64Max + 1)            \* the cast `as u64`
FitsU64(n) == n <= U64Max               \* the checked_ operation succeeds
Uncapped(m, n) == m                     \* mutant: a claim is never capped
SmallerOf(m, n) == IF m <= n THEN m ELSE n

EffectiveShares == total_shares + virtual_offset

SharesToMintRoundedUp(amount) ==        \* mutant: rounds for the depositor
    IF EffectiveShares = 0
    THEN amount
    ELSE AsU64((amount * EffectiveShares + total_assets - 1) \div total_assets)

SharesToMint(amount) ==
    IF EffectiveShares = 0
    THEN amount
    ELSE AsU64((amount * EffectiveShares) \div total_assets)

\* Mutants: the virtual offset forgotten in what shares are worth.
AssetsOfRealShares(shares)  == (shares * total_assets) \div total_shares
PremiumOfRealShares(shares) == (shares * premium_balance_usdc) \div total_shares

(* What `shares` are worth, of the underlying and of the premium balance.  *)
AssetsOf(shares)  == (shares * total_assets) \div EffectiveShares
PremiumOf(shares) == (shares * premium_balance_usdc) \div EffectiveShares

MaxExposure == AsU64((total_assets * utilization_cap_bps) \div BpsDenominator)

(* Instructions that users call are blocked while the vault is paused. *)
OperatingWhenPaused == live             \* mutant: the pause is not looked at
Operating == live /\ ~is_paused

AdvanceAllowedEarly(premium_earned) ==  \* mutant: an epoch ends at any time
    /\ premium_earned <= total_assets \div 2
    /\ premium_earned * BpsDenominator <= MaxYieldBps * epoch_notional_exposed

(* The premium `premium_earned` passes the three checks of advance_epoch   *)
(* and the epoch has lasted long enough.                                   *)
AdvanceAllowed(premium_earned) ==
    /\ now >= last_roll_timestamp + min_epoch_duration
    /\ premium_earned <= total_assets \div 2
    /\ IF epoch_notional_exposed > 0
       THEN (premium_earned * BpsDenominator) \div epoch_notional_exposed
              <= MaxYieldBps
       ELSE premium_earned = 0
    /\ FitsU64(premium_balance_usdc + premium_earned)

(* The request's address is derived from the user and the current epoch    *)
(* and must not exist yet.                                                 *)
RequestAlwaysFree(u) == TRUE            \* mutant: an old request is overwritten
RequestFree(u) == <<u, epoch>> \notin DOMAIN withdrawal_requests

ClaimableAgain(u, e) ==                 \* mutant: a request is paid again
    <<u, e>> \in DOMAIN withdrawal_requests /\ epoch > e

(* The request exists, is open and was made in an earlier epoch.           *)
Claimable(u, e) ==
    /\ <<u, e>> \in DOMAIN withdrawal_requests
    /\ ~withdrawal_requests[<<u, e>>].processed
    /\ epoch > e

(* Queueing, either parameter or both, restarts the timelock of the queue. *)
UnlockTimeKept ==                       \* mutant: the first call's timelock stands
    IF param_change_unlock_time > 0 THEN param_change_unlock_time
                                    ELSE now + TimelockDuration
UnlockTime == now + TimelockDuration

-----------------------------------------------------------------------------
(* The vault as initialize_vault leaves it, with an empty whitelist. *)
Init ==
    /\ now = 0
    /\ live = TRUE
    /\ total_assets = 0 /\ total_shares = 0 /\ virtual_offset = 0
    /\ pending_withdrawals = 0
    /\ epoch = 0 /\ last_roll_timestamp = now
    /\ is_paused = FALSE
    /\ epoch_notional_exposed = 0 /\ epoch_premium_earned = 0
    /\ premium_balance_usdc = 0
    /\ utilization_cap_bps \in InitialCaps
    /\ min_epoch_duration \in InitialDurations
    /\ pending_utilization_cap = 0 /\ pending_min_epoch_duration = 0
    /\ param_change_unlock_time = 0
    /\ withdrawal_requests = [r \in {} |-> 0]
    /\ market_makers = {}
    /\ wallet = [u \in Users |-> WalletSupply] /\ vault_token_account = 0
    /\ share_account = [u \in Users |-> 0] /\ share_escrow = 0
    /\ outside_usdc = UsdcSupply /\ vault_premium_account = 0

Deposit(u, amount) ==
    /\ Operating
    /\ amount > 0
    /\ FitsU64(EffectiveShares)
    /\ EffectiveShares > 0 => total_assets > 0
    /\ amount <= wallet[u]
    /\ LET shares == SharesToMint(amount)
       IN  /\ shares > 0
           /\ FitsU64(total_assets + amount) /\ FitsU64(total_shares + shares)
           /\ total_shares' = total_shares + shares
           /\ share_account' = [share_account EXCEPT ![u] = @ + shares]
    /\ virtual_offset' =
         IF EffectiveShares = 0 THEN VirtualOffset ELSE virtual_offset
    /\ total_assets' = total_assets + amount
    /\ wallet' = [wallet EXCEPT ![u] = @ - amount]
    /\ vault_token_account' = vault_token_account + amount
    /\ IF epoch = 0
       THEN epoch' = 1 /\ last_roll_timestamp' = now
       ELSE UNCHANGED <<epoch, last_roll_timestamp>>
    /\ UNCHANGED <<now, live, pending_withdrawals, withdrawal_requests,
                   share_escrow, epoch_notional_exposed, epoch_premium_earned,
                   usdcVars, paramVars, queueVars, is_paused, market_makers>>

RequestWithdrawal(u, shares) ==
    /\ Operating
    /\ shares > 0
    /\ shares <= share_account[u]
    /\ RequestFree(u)
    /\ FitsU64(pending_withdrawals + shares)
    /\ withdrawal_requests' =
         SetAccount(withdrawal_requests, <<u, epoch>>,
                    [shares |-> shares, processed |-> FALSE])
    /\ share_account' = [share_account EXCEPT ![u] = @ - shares]
    /\ share_escrow' = share_escrow + shares
    /\ pending_withdrawals' = pending_withdrawals + shares
    /\ UNCHANGED <<now, live, total_assets, total_shares, virtual_offset,
                   wallet, vault_token_account, epochVars, usdcVars,
                   paramVars, queueVars, is_paused, market_makers>>

(* Premium is claimed along with the underlying, capped at what the        *)
(* premium account really holds.                                           *)
ProcessWithdrawal(u, e, min_expected_amount) ==
    LET r      == <<u, e>>
        shares == withdrawal_requests[r].shares
        amount == AssetsOf(shares)
        claim  == SmallerOf(PremiumOf(shares), vault_premium_account)
    IN  /\ Operating
        /\ Claimable(u, e)
        /\ EffectiveShares > 0 /\ FitsU64(EffectiveShares)
        /\ min_expected_amount <= amount /\ amount <= total_assets
        /\ shares <= share_escrow /\ amount <= vault_token_account
        /\ shares <= total_shares /\ shares <= pending_withdrawals
        /\ claim <= premium_balance_usdc
        /\ share_escrow' = share_escrow - shares
        /\ vault_token_account' = vault_token_account - amount
        /\ wallet' = [wallet EXCEPT ![u] = @ + amount]
        /\ vault_premium_account' = vault_premium_account - claim
        /\ outside_usdc' = outside_usdc + claim
        /\ premium_balance_usdc' = premium_balance_usdc - claim
        /\ total_assets' = total_assets - amount
        /\ total_shares' = total_shares - shares
        /\ pending_withdrawals' = pending_withdrawals - shares
        /\ withdrawal_requests' =
             [withdrawal_requests EXCEPT ![r].processed = TRUE]
        /\ UNCHANGED <<now, live, virtual_offset, share_account, epochVars,
                       paramVars, queueVars, is_paused, market_makers>>

-----------------------------------------------------------------------------
(* Instructions signed by the vault's authority: the epoch. *)

\* Mutant: the premium is credited to the assets, as README.md has it.
AdvanceEpochFlywheel(premium_earned) ==
    /\ live /\ AdvanceAllowed(premium_earned) /\ epoch < MaxEpoch
    /\ total_assets' = total_assets + premium_earned
    /\ epoch' = epoch + 1 /\ last_roll_timestamp' = now
    /\ epoch_notional_exposed' = 0 /\ epoch_premium_earned' = 0
    /\ UNCHANGED <<now, live, total_shares, virtual_offset, wallet,
                   pending_withdrawals, withdrawal_requests, share_account,
                   share_escrow, vault_token_account, usdcVars, paramVars,
                   queueVars, is_paused, market_makers>>

AdvanceEpoch(premium_earned) ==
    /\ live
    /\ AdvanceAllowed(premium_earned)
    /\ epoch < MaxEpoch
    /\ premium_balance_usdc' = premium_balance_usdc + premium_earned
    /\ epoch' = epoch + 1
    /\ last_roll_timestamp' = now
    /\ epoch_notional_exposed' = 0
    /\ epoch_premium_earned' = 0
    /\ UNCHANGED <<now, live, shareVars, outside_usdc, vault_premium_account,
                   paramVars, queueVars, is_paused, market_makers>>

RecordNotionalExposure(notional_tokens, premium) ==
    /\ live
    /\ FitsU64(epoch_notional_exposed + notional_tokens)
    /\ epoch_notional_exposed + notional_tokens <= MaxExposure
    /\ FitsU64(epoch_premium_earned + premium)
    /\ epoch_notional_exposed' = epoch_notional_exposed + notional_tokens
    /\ epoch_premium_earned' = epoch_premium_earned + premium
    /\ UNCHANGED <<now, live, shareVars, epoch, last_roll_timestamp, usdcVars,
                   paramVars, queueVars, is_paused, market_makers>>

CollectPremium(amount) ==
    /\ live
    /\ amount > 0 /\ amount <= outside_usdc
    /\ FitsU64(epoch_premium_earned + amount)
    /\ outside_usdc' = outside_usdc - amount
    /\ vault_premium_account' = vault_premium_account + amount
    /\ epoch_premium_earned' = epoch_premium_earned + amount
    /\ UNCHANGED <<now, live, shareVars, epoch, last_roll_timestamp,
                   epoch_notional_exposed, premium_balance_usdc,
                   paramVars, queueVars, is_paused, market_makers>>

PaySettlement(recipient, amount) ==
    /\ live
    /\ amount > 0
    /\ recipient \in market_makers
    /\ amount <= epoch_premium_earned
    /\ amount <= vault_premium_account
    /\ vault_premium_account' = vault_premium_account - amount
    /\ outside_usdc' = outside_usdc + amount
    /\ UNCHANGED <<now, live, shareVars, epochVars, premium_balance_usdc,
                   paramVars, queueVars, is_paused, market_makers>>

ReconcilePremiumBalance ==
    /\ live
    /\ premium_balance_usdc' = vault_premium_account
    /\ UNCHANGED <<now, live, shareVars, epochVars, outside_usdc,
                   vault_premium_account, paramVars, queueVars, is_paused,
                   market_makers>>

-----------------------------------------------------------------------------
(* Instructions signed by the vault's authority: administration. *)

AddMarketMaker(m) ==
    /\ live
    /\ Cardinality(market_makers) < MaxMarketMakers
    /\ m \notin market_makers
    /\ market_makers' = market_makers \cup {m}
    /\ UNCHANGED <<now, live, shareVars, epochVars, usdcVars, paramVars,
                   queueVars, is_paused>>

RemoveMarketMaker(m) ==
    /\ live
    /\ m \in market_makers
    /\ market_makers' = market_makers \ {m}
    /\ UNCHANGED <<now, live, shareVars, epochVars, usdcVars, paramVars,
                   queueVars, is_paused>>

SetPause(paused) ==
    /\ live
    /\ is_paused' = paused
    /\ UNCHANGED <<now, live, shareVars, epochVars, usdcVars, paramVars,
                   queueVars, market_makers>>

(* The two options are sets of at most one value. *)
QueueParamChange(new_duration, new_cap) ==
    /\ live
    /\ \A cap \in new_cap : cap <= BpsDenominator
    /\ pending_min_epoch_duration' \in
         IF new_duration = {} THEN {pending_min_epoch_duration} ELSE new_duration
    /\ pending_utilization_cap' \in
         IF new_cap = {} THEN {pending_utilization_cap} ELSE new_cap
    /\ param_change_unlock_time' = UnlockTime
    /\ UNCHANGED <<now, live, shareVars, epochVars, usdcVars, paramVars,
                   is_paused, market_makers>>

(* A pending value of zero stands for "no change". *)
ExecuteParamChange ==
    /\ live
    /\ param_change_unlock_time > 0
    /\ now >= param_change_unlock_time
    /\ min_epoch_duration' = IF pending_min_epoch_duration > 0
                             THEN pending_min_epoch_duration
                             ELSE min_epoch_duration
    /\ utilization_cap_bps' = IF pending_utilization_cap > 0
                              THEN pending_utilization_cap
                              ELSE utilization_cap_bps
    /\ pending_min_epoch_duration' = 0
    /\ pending_utilization_cap' = 0
    /\ param_change_unlock_time' = 0
    /\ UNCHANGED <<now, live, shareVars, epochVars, usdcVars, is_paused,
                   market_makers>>

CancelParamChange ==
    /\ live
    /\ pending_min_epoch_duration' = 0
    /\ pending_utilization_cap' = 0
    /\ param_change_unlock_time' = 0
    /\ UNCHANGED <<now, live, shareVars, epochVars, usdcVars, paramVars,
                   is_paused, market_makers>>

CloseVault ==
    /\ live
    /\ total_assets = 0 /\ total_shares = 0
    /\ pending_withdrawals = 0 /\ epoch_notional_exposed = 0
    /\ live' = FALSE
    /\ UNCHANGED <<now, shareVars, epochVars, usdcVars, paramVars, queueVars,
                   is_paused, market_makers>>

ForceCloseVault ==
    /\ live
    /\ live' = FALSE
    /\ UNCHANGED <<now, shareVars, epochVars, usdcVars, paramVars, queueVars,
                   is_paused, market_makers>>

-----------------------------------------------------------------------------
(* The environment: time, and plain token transfers past the program. *)

Tick ==
    /\ now < MaxTime
    /\ now' = now + 1
    /\ UNCHANGED <<live, shareVars, epochVars, usdcVars, paramVars, queueVars,
                   is_paused, market_makers>>

(* Shares are ordinary tokens: a holder can send them to another user, or  *)
(* to the escrow account, where no request accounts for them.              *)
TransferShares(u, v, shares) ==
    /\ shares > 0 /\ shares <= share_account[u]
    /\ share_account' = [share_account EXCEPT ![u] = @ - shares,
                                              ![v] = @ + shares]
    /\ u # v
    /\ UNCHANGED <<now, live, total_assets, total_shares, virtual_offset,
                   pending_withdrawals, withdrawal_requests, wallet,
                   vault_token_account, share_escrow, epochVars, usdcVars,
                   paramVars, queueVars, is_paused, market_makers>>

DonateShares(u, shares) ==
    /\ shares > 0 /\ shares <= share_account[u]
    /\ share_account' = [share_account EXCEPT ![u] = @ - shares]
    /\ share_escrow' = share_escrow + shares
    /\ UNCHANGED <<now, live, total_assets, total_shares, virtual_offset,
                   pending_withdrawals, withdrawal_requests, wallet,
                   vault_token_account, epochVars, usdcVars,
                   paramVars, queueVars, is_paused, market_makers>>

DonateAssets(u, amount) ==
    /\ amount > 0 /\ amount <= wallet[u]
    /\ wallet' = [wallet EXCEPT ![u] = @ - amount]
    /\ vault_token_account' = vault_token_account + amount
    /\ UNCHANGED <<now, live, total_assets, total_shares, virtual_offset,
                   pending_withdrawals, withdrawal_requests, share_account,
                   share_escrow, epochVars, usdcVars,
                   paramVars, queueVars, is_paused, market_makers>>

(* A market maker pays the premium of a fill by a plain token transfer     *)
(* (infra/rfq-router/mock-mm.js), which the program does not see.          *)
TransferPremium(amount) ==
    /\ amount > 0 /\ amount <= outside_usdc
    /\ outside_usdc' = outside_usdc - amount
    /\ vault_premium_account' = vault_premium_account + amount
    /\ UNCHANGED <<now, live, shareVars, epochVars, premium_balance_usdc,
                   paramVars, queueVars, is_paused, market_makers>>

-----------------------------------------------------------------------------
Options(S) == {{}} \cup {{x} : x \in S}

UserNext ==
    \E u \in Users :
        \/ \E a \in Amounts : Deposit(u, a) \/ RequestWithdrawal(u, a)
        \/ \E e \in 0..MaxEpoch, m \in Amounts \cup {0} : ProcessWithdrawal(u, e, m)

EpochNext ==
    \/ \E p \in Premiums : \/ AdvanceEpoch(p)
                           \/ CollectPremium(p)
                           \/ \E n \in Notionals : RecordNotionalExposure(n, p)
                           \/ \E m \in MarketMakers : PaySettlement(m, p)
    \/ ReconcilePremiumBalance

AdminNext ==
    \/ \E m \in MarketMakers : AddMarketMaker(m) \/ RemoveMarketMaker(m)
    \/ \E b \in BOOLEAN : SetPause(b)
    \/ \E d \in Options(Durations), c \in Options(Caps) : QueueParamChange(d, c)
    \/ ExecuteParamChange
    \/ CancelParamChange
    \/ CloseVault
    \/ ForceCloseVault

EnvironmentNext ==
    \/ Tick
    \/ \E p \in Premiums : TransferPremium(p)
    \/ \E u \in Users, a \in Donations :
         \/ DonateShares(u, a)
         \/ DonateAssets(u, a)
         \/ \E v \in Users : TransferShares(u, v, a)

Next == UserNext \/ EpochNext \/ AdminNext \/ EnvironmentNext

Spec == Init /\ [][Next]_vars

-----------------------------------------------------------------------------
(* Properties. *)

VaultTypeOK ==
    /\ now \in Nat /\ live \in BOOLEAN /\ is_paused \in BOOLEAN
    /\ total_assets \in U64 /\ total_shares \in U64
    /\ virtual_offset \in {0, VirtualOffset}
    /\ pending_withdrawals \in U64
    /\ epoch \in Nat /\ last_roll_timestamp \in Nat
    /\ epoch_notional_exposed \in U64 /\ epoch_premium_earned \in U64
    /\ premium_balance_usdc \in Nat
    /\ utilization_cap_bps \in Nat /\ min_epoch_duration \in Nat
    /\ pending_utilization_cap \in Nat /\ pending_min_epoch_duration \in Nat
    /\ param_change_unlock_time \in Nat
    /\ market_makers \subseteq MarketMakers

RequestsTypeOK ==
    /\ DOMAIN withdrawal_requests \subseteq RequestIds
    /\ IsFiniteSet(DOMAIN withdrawal_requests)
    /\ withdrawal_requests \in [DOMAIN withdrawal_requests ->
                                  [shares : U64 \ {0}, processed : BOOLEAN]]

TokensTypeOK ==
    /\ wallet \in [Users -> Nat] /\ vault_token_account \in Nat
    /\ share_account \in [Users -> Nat] /\ share_escrow \in Nat
    /\ outside_usdc \in Nat /\ vault_premium_account \in Nat

TypeOK == VaultTypeOK /\ RequestsTypeOK /\ TokensTypeOK

(* deposit, request_withdrawal and process_withdrawal keep three counts of *)
(* the same shares: the shares minted are all with their holders or in     *)
(* escrow, and pending_withdrawals is what the open requests add up to,    *)
(* all of it in escrow.  A request lost, overwritten or paid twice breaks  *)
(* one of the three.                                                       *)
SharesAccounted ==
    /\ total_shares = Total(share_account) + share_escrow
    /\ pending_withdrawals = Total(OpenShares)
    /\ pending_withdrawals <= share_escrow

(* The assets the vault reports are in its token account, whatever mix of  *)
(* deposits, withdrawals, premiums and donations led here.                 *)
AssetsBacked == total_assets <= vault_token_account

(* From the first deposit on the vault always holds some of the underlying *)
(* asset, so deposit never meets its division by zero: withdrawing every   *)
(* share leaves the virtual offset's part behind.                          *)
VaultNeverEmpties ==
    IF virtual_offset = 0
    THEN total_assets = 0 /\ total_shares = 0
    ELSE total_assets > 0

(* process_withdrawal can honour every open request, whichever of them     *)
(* come first: none is refused for lack of assets or of shares.            *)
RequestsHonourable ==
    \A r \in DOMAIN withdrawal_requests :
        ~withdrawal_requests[r].processed =>
            LET shares == withdrawal_requests[r].shares
            IN  /\ shares <= share_escrow /\ shares <= pending_withdrawals
                /\ shares <= total_shares
                /\ AssetsOf(shares) <= total_assets
                /\ AssetsOf(shares) <= vault_token_account
                /\ PremiumOf(shares) <= premium_balance_usdc

(* No instruction makes a share worth less of the underlying asset: both   *)
(* the shares a deposit mints and the assets a withdrawal pays are rounded *)
(* against the caller.  (Prices are compared by cross-multiplication.)     *)
NoDilution ==
    [][EffectiveShares > 0 =>
         total_assets' * EffectiveShares >= total_assets * EffectiveShares']_vars

(* A withdrawal never takes more of the premium balance than its shares'   *)
(* part, so those who stay keep at least theirs; shares only leave the     *)
(* supply in process_withdrawal.                                           *)
WithdrawalLeavesPremium ==
    [][total_shares' < total_shares =>
         premium_balance_usdc' * EffectiveShares
           >= premium_balance_usdc * EffectiveShares']_vars

(* Tokens leave the vault only for requests of earlier epochs: what a user *)
(* deposits cannot come back before an advance_epoch, however deposits,    *)
(* transfers and requests interleave.                                      *)
WithdrawalsEpochGated ==
    [][vault_token_account' < vault_token_account =>
         \E r \in DOMAIN withdrawal_requests :
             /\ r[2] < epoch
             /\ ~withdrawal_requests[r].processed
             /\ withdrawal_requests'[r].processed
             /\ wallet'[r[1]] - wallet[r[1]]
                  = vault_token_account - vault_token_account']_vars

(* While the vault is paused no share changes hands with it and no         *)
(* underlying asset leaves it (the emergency stop of set_pause).           *)
PauseFreezesShares ==
    [][is_paused => /\ UNCHANGED <<total_assets, total_shares,
                                   withdrawal_requests>>
                    /\ vault_token_account' >= vault_token_account]_vars

(* What u has asked to withdraw and has not been paid for. *)
OpenSharesOf(u) ==
    [r \in DOMAIN withdrawal_requests |-> IF r[1] = u THEN OpenShares[r] ELSE 0]

SharesAsked == [u \in Users |-> Total(OpenSharesOf(u))]

Fund == INSTANCE ShareFund WITH Holders <- Users,  Offset <- VirtualOffset,
                                purse   <- wallet, held   <- share_account,
                                asked   <- SharesAsked,
                                assets  <- total_assets,
                                supply  <- EffectiveShares

(* Requests, epochs, premiums, administration and transfers aside, the     *)
(* vault is the fund of ShareFund: shares are minted and redeemed at no    *)
(* better than their price, and what a user has, asked for or not, changes *)
(* only by what the user does or is given.                                 *)
ImplementsFund == Fund!Spec

Outstanding(u, e) ==
    /\ <<u, e>> \in DOMAIN withdrawal_requests
    /\ ~withdrawal_requests[<<u, e>>].processed
=============================================================================
