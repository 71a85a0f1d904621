------------------------------- MODULE Keeper -------------------------------
(***************************************************************************)
(* The keeper (infra/keeper/src/index.ts) over the vault program: it sells *)
(* the options of an epoch ("roll") and settles them when the epoch ends.  *)
(* Its procedures are asynchronous: between two awaits of one procedure    *)
(* others run, started by a ten-second interval and by HTTP requests, and  *)
(* the chain moves on.  A task is one procedure in progress; one action is *)
(* what it does between two awaits.  A call that leaves the process may    *)
(* fail, or succeed and be reported as failed.  The keeper's memory does   *)
(* not survive a restart.                                                  *)
(***************************************************************************)
EXTENDS Vault

CONSTANTS
    Tasks,           \* bound: procedures in progress at once
    Makers,          \* market makers, each the whitelist key of its wallet
    KeeperWallet,    \* the keeper's own key
    Nobody,          \* stands for an undefined wallet
    NoStats,         \* stands for a missing entry of vaultStats
    IsDemo,          \* whether this is a demo vault
    Spots,           \* oracle prices
    PremiumRates,    \* fair premiums, per BpsDenominator of the notional
    MaxOverbid,      \* how much makers bid over the fair premium
    StrikeDeltaBps,  \* how far out of the money a strike is: 1000
    FloorBps,        \* premiumFloor, of the fair premium: 8000
    MinRoll,         \* the least notional worth a roll: 0.01 tokens
    FallbackDuration,\* the epoch duration used for a vault that has none
    SettleSlack,     \* how long after its end an epoch is settled: 10 s
    SettleTime,      \* a settlement takes no longer (calls have timeouts)
    OtherVaults,     \* vaults handled by the same roll, before and after
    MaxRestarts,     \* bound: restarts of the keeper
    MaxOwed          \* bound: what makers owe at once

Wallets == MarketMakers \cup {Nobody}
Stats   == [strike : Nat, wallet : Wallets]   \* VaultStats, as far as it is read

ASSUME KeeperConstantsOK ==
    /\ Makers \subseteq MarketMakers /\ KeeperWallet \in MarketMakers \ Makers
    /\ Nobody \notin MarketMakers /\ NoStats \notin Stats
    /\ IsFiniteSet(Tasks) /\ IsDemo \in BOOLEAN
    /\ Spots \subseteq Nat \ {0} /\ PremiumRates \subseteq Nat
    /\ MaxOverbid \in Nat /\ StrikeDeltaBps \in Nat /\ FloorBps \in Nat
    /\ MinRoll \in Nat \ {0} /\ FallbackDuration \in Nat \ {0}
    /\ SettleSlack \in Nat /\ SettleTime \in Nat
    /\ OtherVaults \in Nat /\ MaxRestarts \in Nat /\ MaxOwed \in Nat

VARIABLES
    task,         \* the procedures in progress
    isRunning,    \* state.isRunning
    vaultStats,   \* the vault's entry of state.vaultStats
    restarts,     \* how often the keeper has restarted
    owed,         \* premium that makers were told to pay and have not yet
    uncollected   \* history: premium recorded less premium collected

memoryVars  == <<task, isRunning, vaultStats>>
keeperVars  == <<memoryVars, restarts, owed, uncollected>>
allVars     == <<vars, keeperVars>>

Idle == [pc |-> "idle", then_roll |-> FALSE, others_after |-> 0,
         notional |-> 0, premium |-> 0, strike |-> 0, tvl |-> 0,
         payoff |-> 0, recipient |-> Nobody, stats_seen |-> FALSE, began |-> 0]

At(t, pc)   == task[t].pc = pc
Become(t, job) == task' = [task EXCEPT ![t] = job]

RollPcs   == {"roll_fetch", "roll_quote", "roll_record", "roll_collect"}
SettlePcs == {"settle_fetch", "settle_price", "settle_pay", "settle_advance"}
OtherPcs  == {"other_vaults", "vaults_after"}

Rolling(t)  == task[t].pc \in RollPcs
Settling(t) == task[t].pc \in SettlePcs

-----------------------------------------------------------------------------
(* What the procedures compute. *)

EpochDuration ==
    IF min_epoch_duration = 0 THEN FallbackDuration ELSE min_epoch_duration

Expired == now > last_roll_timestamp + EpochDuration + SettleSlack

(* The cap on what withdrawals leave usable, less what is sold already.    *)
(* (Floating-point numbers there; here whole units, rounded down.)         *)
AvailableExposure ==
    LET usable == IF total_shares > 0 /\ pending_withdrawals > 0
                  THEN [assets |-> total_assets * (total_shares - pending_withdrawals),
                        per    |-> total_shares]
                  ELSE [assets |-> total_assets, per |-> 1]
        cap == (usable.assets * utilization_cap_bps)
                  \div (usable.per * BpsDenominator)
    IN  IF cap > epoch_notional_exposed THEN cap - epoch_notional_exposed ELSE 0

(* Demo vaults sell all they can, others at most half the assets a roll.   *)
RollNotional ==
    IF IsDemo THEN AvailableExposure
              ELSE SmallerOf(AvailableExposure, total_assets \div 2)

Strike(spot) == spot + (spot * StrikeDeltaBps) \div BpsDenominator
FairPremium(notional, rate) == (notional * rate) \div BpsDenominator

PremiumFloor(fair) ==
    LET floor == (fair * FloorBps) \div BpsDenominator
    IN  IF floor < 1 THEN 1 ELSE floor

(* The router's reply to a fill names the maker, its quote and the premium;*)
(* the wallet the keeper looks for is not in it.                           *)
MakerWallet(m) == Nobody

InTheMoney(spot, strike) == spot > strike /\ strike > 0

Payoff(notional, spot, strike) == (notional * (spot - strike)) \div spot

(* The premium to credit, or none when it looks too large to be accepted.  *)
NetPremium(job) ==
    LET net == IF job.premium > job.payoff THEN job.premium - job.payoff ELSE 0
    IN  IF net > job.tvl \div 2 THEN 0 ELSE net

-----------------------------------------------------------------------------
(* What leaves the process.  The vault read is the vault as it is, or none.*)
VaultRead == live

(* A feed asked for alone, three times, or with those of the vaults rolled *)
(* together, before the first of them; without an answer there is none.    *)
OraclePrices == Spots

(* The instructions of a task, with the keeper's wallet as the authority   *)
(* and, for premium collected, as the one who pays.                        *)
SendExposure(t)   == RecordNotionalExposure(task[t].notional, task[t].premium)
SendCollection(t) == CollectPremium(task[t].premium)
SendSettlement(t) == PaySettlement(task[t].recipient, task[t].payoff)
SendAdvance(t)    == AdvanceEpoch(NetPremium(task[t]))

-----------------------------------------------------------------------------
KeeperInit ==
    /\ Init
    /\ task = [t \in Tasks |-> Idle]
    /\ isRunning = FALSE
    /\ vaultStats = NoStats
    /\ restarts = 0 /\ owed = 0
    /\ uncollected = 0

(* The interval starts a check of every vault, even while an earlier check *)
(* has not come to its end, unless a roll is in progress.                  *)
StartCheck(t) ==
    /\ At(t, "idle")
    /\ ~isRunning
    /\ Become(t, [Idle EXCEPT !.pc = "check"])
    /\ UNCHANGED <<vars, isRunning, vaultStats, restarts, owed, uncollected>>

(* A task begins its roll, unless one is in progress. *)
RollMayAlwaysStart == TRUE              \* mutant: isRunning is not looked at
RollMayStart == ~isRunning

RollOrReturn(t, roll) ==
    IF roll /\ RollMayStart
    THEN isRunning' = TRUE /\ Become(t, [Idle EXCEPT !.pc = "roll_fetch"])
    ELSE isRunning' = isRunning /\ Become(t, Idle)

(* The check has read the vault: an epoch that is over is settled; without *)
(* exposure, premium left over is settled first and the vault is rolled.   *)
CheckSettles(t) ==
    /\ At(t, "check") /\ VaultRead
    /\ IF epoch_notional_exposed > 0
       THEN Expired
       ELSE total_assets > 0 /\ epoch_premium_earned > 0
    /\ Become(t, [Idle EXCEPT !.pc = "settle_fetch", !.began = now,
                              !.then_roll = (epoch_notional_exposed = 0)])
    /\ UNCHANGED <<vars, isRunning, vaultStats, restarts, owed, uncollected>>

CheckRolls(t) ==
    /\ At(t, "check") /\ VaultRead
    /\ epoch_notional_exposed = 0 /\ epoch_premium_earned = 0
    /\ total_assets > 0
    /\ RollOrReturn(t, TRUE)
    /\ UNCHANGED <<vars, vaultStats, restarts, owed, uncollected>>

(* Nothing to do, or the vault could not be read. *)
CheckReturns(t) ==
    /\ At(t, "check")
    /\ Become(t, Idle)
    /\ UNCHANGED <<vars, isRunning, vaultStats, restarts, owed, uncollected>>

-----------------------------------------------------------------------------
(* Rolls. *)

(* POST /trigger and the six-hourly schedule: one vault, or all in turn.   *)
StartRoll(t, others_before, others_after) ==
    /\ At(t, "idle")
    /\ RollMayStart
    /\ isRunning' = TRUE
    /\ Become(t, [Idle EXCEPT !.pc = IF others_before = 0 THEN "roll_fetch"
                                                         ELSE "other_vaults",
                              !.others_after = others_after])
    /\ UNCHANGED <<vars, vaultStats, restarts, owed, uncollected>>

(* The vaults before this one: the end of each clears isRunning. *)
OthersRolled(t) ==
    /\ At(t, "other_vaults")
    /\ isRunning' = FALSE
    /\ Become(t, [task[t] EXCEPT !.pc = "roll_fetch"])
    /\ UNCHANGED <<vars, vaultStats, restarts, owed, uncollected>>

(* The end of this vault's roll, good or bad, and of those after it. *)
EndRoll(t) ==
    /\ isRunning' = FALSE
    /\ Become(t, IF task[t].others_after > 0
                 THEN [Idle EXCEPT !.pc = "vaults_after"] ELSE Idle)

LaterVaultsRolled(t) ==
    /\ At(t, "vaults_after")
    /\ isRunning' = FALSE
    /\ Become(t, Idle)
    /\ UNCHANGED <<vars, vaultStats, restarts, owed, uncollected>>

RollFetch(t) ==
    /\ At(t, "roll_fetch")
    /\ VaultRead
    /\ AvailableExposure >= MinRoll
    /\ Become(t, [task[t] EXCEPT !.pc = "roll_quote", !.notional = RollNotional])
    /\ UNCHANGED <<vars, isRunning, vaultStats, restarts, owed, uncollected>>

(* The vault or the oracle's price cannot be had, or the capacity is too   *)
(* small.                                                                  *)
RollGivenUp(t) ==
    /\ At(t, "roll_fetch") \/ At(t, "roll_quote")
    /\ EndRoll(t)
    /\ UNCHANGED <<vars, vaultStats, restarts, owed, uncollected>>

WithStats == IF vaultStats = NoStats THEN [strike |-> 0, wallet |-> Nobody]
                                     ELSE vaultStats

(* No fill: the router is away, or no quote is good enough. *)
RollUnfilled(t, spot, rate) ==
    /\ At(t, "roll_quote")
    /\ Become(t, [task[t] EXCEPT !.pc = "roll_record", !.strike = Strike(spot),
                     !.premium = FairPremium(task[t].notional, rate)])
    /\ UNCHANGED <<vars, isRunning, vaultStats, restarts, owed, uncollected>>

(* The router fills, and tells the maker; its reply may not get through.   *)
RollFilled(t, spot, rate, m, overbid, heard) ==
    LET fair  == FairPremium(task[t].notional, rate)
        quote == PremiumFloor(fair) + overbid
    IN  /\ At(t, "roll_quote")
        /\ owed + quote <= MaxOwed
        /\ Become(t, [task[t] EXCEPT !.pc = "roll_record",
                         !.strike = Strike(spot),
                         !.premium = IF heard THEN quote ELSE fair])
        /\ vaultStats' = IF heard
                         THEN [WithStats EXCEPT !.wallet = MakerWallet(m)]
                         ELSE vaultStats
        /\ owed' = owed + quote
        /\ UNCHANGED <<vars, isRunning, restarts, uncollected>>

(* record_notional_exposure: on an error the roll ends there. *)
RollRecord(t) ==
    /\ At(t, "roll_record")
    /\ SendExposure(t)
    /\ uncollected' = uncollected + task[t].premium
    /\ \/ /\ Become(t, [task[t] EXCEPT !.pc = "roll_collect"])
          /\ UNCHANGED isRunning
       \/ EndRoll(t)
    /\ UNCHANGED <<vaultStats, restarts, owed>>

RecordFailureLogged(t) ==               \* mutant: the roll goes on regardless
    /\ At(t, "roll_record")
    /\ Become(t, [task[t] EXCEPT !.pc = "roll_collect"])
    /\ UNCHANGED <<vars, isRunning, vaultStats, restarts, owed, uncollected>>

RecordFails(t) ==
    /\ At(t, "roll_record")
    /\ EndRoll(t)
    /\ UNCHANGED <<vars, vaultStats, restarts, owed, uncollected>>

(* collect_premium, from the keeper's own account: an error is logged and  *)
(* the roll goes on.                                                       *)
RollCollect(t) ==
    /\ At(t, "roll_collect")
    /\ \/ /\ SendCollection(t)
          /\ uncollected' = uncollected - task[t].premium
       \/ UNCHANGED <<vars, uncollected>>
    /\ vaultStats' = [WithStats EXCEPT !.strike = task[t].strike]
    /\ EndRoll(t)
    /\ UNCHANGED <<restarts, owed>>

-----------------------------------------------------------------------------
(* Settlements. *)

(* POST /settle looks at nothing before it starts. *)
StartSettlement(t) ==
    /\ At(t, "idle")
    /\ Become(t, [Idle EXCEPT !.pc = "settle_fetch", !.began = now])
    /\ UNCHANGED <<vars, isRunning, vaultStats, restarts, owed, uncollected>>

SettleFetch(t) ==
    /\ At(t, "settle_fetch")
    /\ VaultRead
    /\ Become(t, [task[t] EXCEPT !.pc = "settle_price",
                     !.notional = epoch_notional_exposed,
                     !.premium = epoch_premium_earned, !.tvl = total_assets,
                     !.stats_seen = (vaultStats # NoStats)])
    /\ UNCHANGED <<vars, isRunning, vaultStats, restarts, owed, uncollected>>

(* The price is known: an option in the money is paid first.  The strike   *)
(* is the one remembered, none after a restart; so is the wallet, for which*)
(* the keeper's own stands in.                                             *)
SettlePrice(t, spot) ==
    LET job    == task[t]
        strike == IF job.stats_seen THEN vaultStats.strike ELSE 0
        pays   == InTheMoney(spot, strike) /\ job.notional > 0
    IN  /\ At(t, "settle_price")
        /\ Become(t, [job EXCEPT
              !.pc = IF pays THEN "settle_pay" ELSE "settle_advance",
              !.payoff = IF pays THEN Payoff(job.notional, spot, strike) ELSE 0,
              !.recipient = IF job.stats_seen /\ vaultStats.wallet # Nobody
                            THEN vaultStats.wallet ELSE KeeperWallet])
        /\ UNCHANGED <<vars, isRunning, vaultStats, restarts, owed, uncollected>>

(* A payment that fails is logged and the settlement goes on, "to prevent  *)
(* the vault from getting stuck".                                          *)
AfterFailedPaymentEnd(t) == Idle        \* mutant: the settlement ends there
AfterFailedPayment(t) == [task[t] EXCEPT !.pc = "settle_advance"]

SettlePay(t) ==
    /\ At(t, "settle_pay")
    /\ \/ /\ SendSettlement(t)
          /\ Become(t, [task[t] EXCEPT !.pc = "settle_advance"])
       \/ /\ UNCHANGED vars
          /\ Become(t, AfterFailedPayment(t))
    /\ UNCHANGED <<isRunning, vaultStats, restarts, owed, uncollected>>

(* advance_epoch, which ends the settlement; what is remembered is reset   *)
(* only when the call is known to have succeeded.                          *)
SettleAdvance(t) ==
    /\ At(t, "settle_advance")
    /\ SendAdvance(t)
    /\ vaultStats' \in {vaultStats,
                        IF task[t].stats_seen
                        THEN [vaultStats EXCEPT !.strike = 0] ELSE vaultStats}
    /\ RollOrReturn(t, task[t].then_roll)
    /\ UNCHANGED <<restarts, owed, uncollected>>

SettleFails(t) ==
    /\ At(t, "settle_fetch") \/ At(t, "settle_price") \/ At(t, "settle_advance")
    /\ RollOrReturn(t, task[t].then_roll)
    /\ UNCHANGED <<vars, vaultStats, restarts, owed, uncollected>>

-----------------------------------------------------------------------------
(* The process stops and starts again, with everything it knew forgotten.  *)
Restart ==
    /\ restarts < MaxRestarts
    /\ restarts' = restarts + 1
    /\ task' = [t \in Tasks |-> Idle]
    /\ isRunning' = FALSE
    /\ vaultStats' = NoStats
    /\ UNCHANGED <<vars, owed, uncollected>>

(* A maker pays what it was told to pay. *)
MakerPays ==
    /\ TransferPremium(owed)
    /\ owed' = 0
    /\ UNCHANGED <<memoryVars, restarts, uncollected>>

(* Time passes, but no settlement outlasts its timeouts. *)
Pass ==
    /\ \A t \in Tasks : Settling(t) => now < task[t].began + SettleTime
    /\ Tick
    /\ UNCHANGED keeperVars

(* Depositors, and the setup script that whitelists the keeper's wallet. *)
Others ==
    /\ UserNext \/ AddMarketMaker(KeeperWallet)
    /\ UNCHANGED keeperVars

RollStep(t) ==
    \/ OthersRolled(t) \/ LaterVaultsRolled(t)
    \/ RollFetch(t) \/ RollGivenUp(t)
    \/ \E s \in OraclePrices, r \in PremiumRates :
         \/ RollUnfilled(t, s, r)
         \/ \E m \in Makers, o \in 0..MaxOverbid, heard \in BOOLEAN :
              RollFilled(t, s, r, m, o, heard)
    \/ RollRecord(t) \/ RecordFails(t)
    \/ RollCollect(t)

SettleStep(t) ==
    \/ SettleFetch(t)
    \/ \E s \in OraclePrices : SettlePrice(t, s)
    \/ SettlePay(t)
    \/ SettleAdvance(t)
    \/ SettleFails(t)

TaskNext(t) ==
    \/ StartCheck(t) \/ CheckSettles(t) \/ CheckRolls(t) \/ CheckReturns(t)
    \/ \E b, a \in 0..OtherVaults : StartRoll(t, b, a)
    \/ StartSettlement(t)
    \/ RollStep(t)
    \/ SettleStep(t)

KeeperNext ==
    \/ \E t \in Tasks : TaskNext(t)
    \/ Restart
    \/ MakerPays
    \/ Pass
    \/ Others

KeeperSpec == KeeperInit /\ [][KeeperNext]_allVars

(* Time passes, every procedure goes on, the interval goes on starting     *)
(* checks, and a call made again and again succeeds now and then.          *)
KeeperFairness ==
    /\ SF_allVars(Pass)
    /\ \A t \in Tasks :
         /\ SF_allVars(StartCheck(t))
         /\ SF_allVars(CheckSettles(t))
         /\ WF_allVars(CheckReturns(t)) /\ WF_allVars(RollStep(t))
         /\ WF_allVars(SettleStep(t))
         /\ SF_allVars(SettleFetch(t))
         /\ SF_allVars(\E s \in OraclePrices : SettlePrice(t, s))
         /\ SF_allVars(SettleAdvance(t))

FairKeeperSpec == KeeperSpec /\ KeeperFairness

-----------------------------------------------------------------------------
(* Properties. *)

Jobs == [pc : {"idle", "check"} \cup RollPcs \cup SettlePcs \cup OtherPcs,
         then_roll : BOOLEAN, others_after : 0..OtherVaults, notional : Nat,
         premium : Nat, strike : Nat, tvl : Nat, payoff : Nat,
         recipient : Wallets, stats_seen : BOOLEAN, began : Nat]

KeeperTypeOK ==
    /\ task \in [Tasks -> Jobs]
    /\ isRunning \in BOOLEAN
    /\ vaultStats \in {NoStats} \cup Stats
    /\ restarts \in 0..MaxRestarts /\ owed \in Nat /\ uncollected \in Int
    /\ \A t \in Tasks : task[t].stats_seen => vaultStats # NoStats

(* runEpochRoll: "Epoch roll already in progress".  No two rolls of the    *)
(* vault are in progress at once: two would sell the same capacity and     *)
(* forget one of the strikes.  It holds of a keeper of one vault; with     *)
(* others, the end of their rolls clears the flag in the middle of one.    *)
RollsExclusive ==
    \A t, u \in Tasks : Rolling(t) /\ Rolling(u) => t = u

(* Premium is only collected for exposure that the program has accepted,   *)
(* and at most once, through failed, half-heard and overlapping calls and  *)
(* restarts.                                                               *)
CollectedOnlyIfRecorded == uncollected >= 0

(* advance_epoch is called with a premium computed some awaits earlier     *)
(* from what the vault held then.  Whatever overlaps, what it credits is   *)
(* premium of the epoch it ends, not of one that another task has ended.   *)
CreditsOwnEpoch ==
    [][epoch' > epoch =>
         premium_balance_usdc' - premium_balance_usdc <= epoch_premium_earned]_allVars

OptionsOpen == live /\ epoch_notional_exposed > 0

(* The end of the epoch is past the model's bounds. *)
OutOfTime ==
    \/ last_roll_timestamp + EpochDuration + SettleSlack >= MaxTime
    \/ epoch = MaxEpoch

(* What is recorded as earned yields more than advance_epoch accepts; the  *)
(* keeper caps what it credits by the vault's assets only (index.ts:899).  *)
YieldTooHigh ==
    (epoch_premium_earned * BpsDenominator) \div epoch_notional_exposed > MaxYieldBps

(* "Continue with epoch advance even if settlement payment fails.  This    *)
(* prevents the vault from getting stuck": an epoch with options sold      *)
(* eventually ends, and the withdrawals asked for in it unlock, through    *)
(* settlements that cannot be paid, failed calls and a restart.  Not so    *)
(* where the yield recorded is too high: then every advance is refused.    *)
EpochsEnd == OptionsOpen ~> (~OptionsOpen \/ OutOfTime \/ YieldTooHigh)

(* "CRITICAL FIX: Transfer the actual premium tokens to the vault; without *)
(* this, the vault thinks it has money (state) but has no tokens           *)
(* (balance)".  When every premium recorded has been collected, what is    *)
(* credited is in the premium account or on its way.                       *)
CreditBacked ==
    uncollected = 0 => premium_balance_usdc <= vault_premium_account + owed
=============================================================================
