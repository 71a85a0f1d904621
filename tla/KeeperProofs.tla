---------------------------- MODULE KeeperProofs ----------------------------
(***************************************************************************)
(* Theorems about the keeper.  They rest on one inductive invariant, KInv: *)
(* the vault's own invariant, which holds whatever amounts the keeper      *)
(* computes, and what relates the procedures in progress to the vault.     *)
(***************************************************************************)
EXTENDS Keeper, VaultProofs

(* Premium that tasks have recorded and are about to collect. *)
InFlight == [t \in Tasks |->
               IF At(t, "roll_collect") THEN task[t].premium ELSE 0]

(* Without other vaults in a roll, isRunning is set from a roll's start to *)
(* its end.                                                                *)
FlagHeld ==
    OtherVaults = 0 =>
        /\ RollsExclusive
        /\ \A t \in Tasks : /\ ~At(t, "other_vaults") /\ ~At(t, "vaults_after")
                            /\ Rolling(t) => isRunning

(* A settlement does not outlast its timeouts, and the premium it has read *)
(* is in the vault unless the epoch has ended since the settlement began.  *)
FreshOrEnded(t) ==
    /\ Settling(t) => task[t].began <= now /\ now <= task[t].began + SettleTime
    /\ Settling(t) /\ ~At(t, "settle_fetch") =>
         \/ task[t].premium <= epoch_premium_earned
         \/ last_roll_timestamp >= task[t].began

KInv ==
    /\ IInv
    /\ KeeperTypeOK
    /\ min_epoch_duration \in InitialDurations
    /\ \A t \in Tasks : FreshOrEnded(t)
    /\ FlagHeld
    /\ uncollected >= Total(InFlight)

-----------------------------------------------------------------------------
(* What a step of the keeper does to the vault. *)

(* How a step moves the clock, the epoch's premium and the epoch's start:  *)
(* the premium only falls when an epoch ends, which is now.                *)
EpochMoves ==
    /\ now' \in Nat /\ now' >= now
    /\ min_epoch_duration' = min_epoch_duration
    /\ epoch_premium_earned' >= epoch_premium_earned \/ last_roll_timestamp' = now
    /\ last_roll_timestamp' \in {last_roll_timestamp, now}

(* record_notional_exposure preserves the vault's invariant, whatever the amounts. *)
LEMMA RecordStep ==
  ASSUME IInv, NEW n \in Nat, NEW p \in Nat, RecordNotionalExposure(n, p)
  PROVE  IInv' /\ EpochMoves /\ now' = now
<1>1. /\ VaultTypeOK /\ U64Max \in Nat
      /\ outside_usdc \in Nat /\ vault_premium_account \in Nat
  BY ConstantsOK DEF IInv, TypeOK, TokensTypeOK
<1>2. VaultTypeOK'
  BY <1>1 DEF VaultTypeOK, RecordNotionalExposure, FitsU64, shareVars, usdcVars,
              paramVars, queueVars, U64
<1>3. UNCHANGED shareVars /\ outside_usdc' \in Nat /\ vault_premium_account' \in Nat
  BY <1>1 DEF RecordNotionalExposure, usdcVars
<1>4. EpochMoves /\ now' = now
  BY <1>1 DEF EpochMoves, RecordNotionalExposure, VaultTypeOK, paramVars, U64
<1>5. QED
  BY <1>2, <1>3, <1>4, FrameStep

(* So does collect_premium. *)
LEMMA CollectStep ==
  ASSUME IInv, NEW p \in Nat, CollectPremium(p)
  PROVE  IInv' /\ EpochMoves /\ now' = now
<1>1. /\ VaultTypeOK /\ U64Max \in Nat
      /\ outside_usdc \in Nat /\ vault_premium_account \in Nat
  BY ConstantsOK DEF IInv, TypeOK, TokensTypeOK
<1>2. VaultTypeOK'
  BY <1>1 DEF VaultTypeOK, CollectPremium, FitsU64, shareVars, paramVars, queueVars, U64
<1>3. UNCHANGED shareVars /\ outside_usdc' \in Nat /\ vault_premium_account' \in Nat
  BY <1>1 DEF CollectPremium
<1>4. EpochMoves /\ now' = now
  BY <1>1 DEF EpochMoves, CollectPremium, VaultTypeOK, paramVars, U64
<1>5. QED
  BY <1>2, <1>3, <1>4, FrameStep

(* So does pay_settlement. *)
LEMMA PayStep ==
  ASSUME IInv, NEW p \in Nat, NEW m, PaySettlement(m, p)
  PROVE  IInv' /\ EpochMoves /\ now' = now
<1>1. /\ VaultTypeOK /\ U64Max \in Nat
      /\ outside_usdc \in Nat /\ vault_premium_account \in Nat
  BY ConstantsOK DEF IInv, TypeOK, TokensTypeOK
<1>2. VaultTypeOK'
  BY <1>1 DEF VaultTypeOK, PaySettlement, shareVars, epochVars, paramVars, queueVars
<1>3. UNCHANGED shareVars /\ outside_usdc' \in Nat /\ vault_premium_account' \in Nat
  BY <1>1 DEF PaySettlement
<1>4. EpochMoves /\ now' = now
  BY <1>1 DEF EpochMoves, PaySettlement, VaultTypeOK, epochVars, paramVars, U64
<1>5. QED
  BY <1>2, <1>3, <1>4, FrameStep

(* So does advance_epoch. *)
LEMMA AdvanceStep ==
  ASSUME IInv, NEW p \in Nat, AdvanceEpoch(p)
  PROVE  IInv' /\ EpochMoves /\ now' = now
<1>1. /\ VaultTypeOK /\ U64Max \in Nat
      /\ outside_usdc \in Nat /\ vault_premium_account \in Nat
  BY ConstantsOK DEF IInv, TypeOK, TokensTypeOK
<1>2. VaultTypeOK'
  BY <1>1 DEF VaultTypeOK, AdvanceEpoch, shareVars, paramVars, queueVars, U64
<1>3. UNCHANGED shareVars /\ outside_usdc' \in Nat /\ vault_premium_account' \in Nat
  BY <1>1 DEF AdvanceEpoch
<1>4. EpochMoves /\ now' = now
  BY <1>1 DEF EpochMoves, AdvanceEpoch, VaultTypeOK, paramVars, U64
<1>5. QED
  BY <1>2, <1>3, <1>4, FrameStep

(* So does a maker's transfer of premium. *)
LEMMA TransferStep ==
  ASSUME IInv, NEW p \in Nat, TransferPremium(p)
  PROVE  IInv' /\ EpochMoves /\ now' = now
<1>1. /\ VaultTypeOK /\ U64Max \in Nat
      /\ outside_usdc \in Nat /\ vault_premium_account \in Nat
  BY ConstantsOK DEF IInv, TypeOK, TokensTypeOK
<1>2. VaultTypeOK'
  BY <1>1 DEF VaultTypeOK, TransferPremium, shareVars, epochVars, paramVars, queueVars
<1>3. UNCHANGED shareVars /\ outside_usdc' \in Nat /\ vault_premium_account' \in Nat
  BY <1>1 DEF TransferPremium
<1>4. EpochMoves /\ now' = now
  BY <1>1 DEF EpochMoves, TransferPremium, VaultTypeOK, epochVars, paramVars, U64
<1>5. QED
  BY <1>2, <1>3, <1>4, FrameStep

(* What users do moves neither the clock nor the epoch's premium; a first  *)
(* deposit starts the epoch.                                               *)
LEMMA UserMoves ==
  ASSUME IInv, UserNext
  PROVE  /\ UNCHANGED <<now, min_epoch_duration, epoch_premium_earned>>
         /\ last_roll_timestamp' \in {last_roll_timestamp, now}
<1>1. ASSUME NEW u \in Users, NEW a \in Amounts, Deposit(u, a)
      PROVE  /\ UNCHANGED <<now, min_epoch_duration, epoch_premium_earned>>
             /\ last_roll_timestamp' \in {last_roll_timestamp, now}
  BY <1>1 DEF Deposit, paramVars
<1>2. ASSUME NEW u \in Users, NEW a \in Amounts, RequestWithdrawal(u, a)
      PROVE  UNCHANGED <<now, min_epoch_duration, epoch_premium_earned,
                         last_roll_timestamp>>
  BY <1>2 DEF RequestWithdrawal, epochVars, paramVars
<1>3. ASSUME NEW u \in Users, NEW e \in Nat, NEW m \in Nat,
             ProcessWithdrawal(u, e, m)
      PROVE  UNCHANGED <<now, min_epoch_duration, epoch_premium_earned,
                         last_roll_timestamp>>
  BY <1>3 DEF ProcessWithdrawal, epochVars, paramVars
<1>4. QED
  BY <1>1, <1>2, <1>3, UserStep

(* The depositors' instructions, the whitelist and time. *)
LEMMA OthersStep ==
  ASSUME IInv, UserNext \/ (\E m \in MarketMakers : AddMarketMaker(m)) \/ Tick
  PROVE  IInv' /\ EpochMoves
<1>1. VaultTypeOK
  BY DEF IInv, TypeOK
<1>2. CASE UserNext
  <2>1. IInv'
    BY <1>2, UserStep, DepositStep, RequestStep, ProcessStep
  <2>2. /\ UNCHANGED <<now, min_epoch_duration, epoch_premium_earned>>
        /\ last_roll_timestamp' \in {last_roll_timestamp, now}
    BY <1>2, UserMoves
  <2>3. EpochMoves
    BY <1>1, <2>2 DEF EpochMoves, VaultTypeOK, U64
  <2>4. QED
    BY <2>1, <2>3
<1>3. CASE \E m \in MarketMakers : AddMarketMaker(m)
  <2>1. AdminNext
    BY <1>3 DEF AdminNext
  <2>2. EpochMoves
    BY <1>1, <1>3 DEF EpochMoves, AddMarketMaker, VaultTypeOK, epochVars, paramVars, U64
  <2>3. QED
    BY <2>1, <2>2, AdminStep
<1>4. CASE Tick
  <2>1. EnvironmentNext
    BY <1>4 DEF EnvironmentNext
  <2>2. EpochMoves
    BY <1>1, <1>4 DEF EpochMoves, Tick, VaultTypeOK, epochVars, paramVars, U64
  <2>3. QED
    BY <2>1, <2>2, EnvironmentStep
<1>5. QED
  BY <1>2, <1>3, <1>4

(* A step that leaves the vault alone. *)
LEMMA VaultAlone ==
  ASSUME IInv, UNCHANGED vars
  PROVE  IInv' /\ EpochMoves /\ now' = now
<1>1. IInv'
  BY NextIInv
<1>2. VaultTypeOK
  BY DEF IInv, TypeOK
<1>3. QED
  BY <1>1, <1>2 DEF EpochMoves, VaultTypeOK, vars, epochVars, paramVars, U64

-----------------------------------------------------------------------------
(* What a step of one task does to the rest of the invariant. *)

Weight(job) == IF job.pc = "roll_collect" THEN job.premium ELSE 0

(* Task t becomes job, and the rest of the keeper's state follows suit. *)
MovesTo(t, job) ==
    /\ job \in Jobs /\ Become(t, job)
    /\ isRunning' \in BOOLEAN
    /\ vaultStats' \in {NoStats} \cup Stats
    /\ vaultStats # NoStats \/ job.stats_seen => vaultStats' # NoStats
    /\ restarts' \in 0..MaxRestarts /\ owed' \in Nat /\ uncollected' \in Int
    /\ uncollected' - Weight(job) >= uncollected - Weight(task[t])

(* The moves that keep isRunning set from the start of a roll to its end. *)
FlagFollows(t, job) ==
    OtherVaults = 0 =>
        /\ job.pc \notin OtherPcs
        /\ \/ isRunning' = isRunning /\ (job.pc \in RollPcs => Rolling(t))
           \/ isRunning' = FALSE /\ Rolling(t) /\ job.pc \notin RollPcs
           \/ ~isRunning /\ isRunning' = TRUE

(* A job whose premium was read in this epoch, or before it ended. *)
JobFresh(job) ==
    /\ job.pc \in SettlePcs => job.began <= now /\ now <= job.began + SettleTime
    /\ job.pc \in SettlePcs \ {"settle_fetch"} =>
         \/ job.premium <= epoch_premium_earned'
         \/ last_roll_timestamp' >= job.began

(* A step of one task that fits these three preserves the invariant. *)
LEMMA TaskStep ==
  ASSUME KInv, IInv', EpochMoves, now' = now, NEW t \in Tasks, NEW job,
         MovesTo(t, job), FlagFollows(t, job), JobFresh(job)
  PROVE  KInv'
<1>1. /\ task \in [Tasks -> Jobs] /\ job \in Jobs
      /\ task' = [task EXCEPT ![t] = job]
  BY DEF KInv, KeeperTypeOK, MovesTo, Become
<1>2. KeeperTypeOK'
  <2>1. \A u \in Tasks : task'[u].stats_seen => vaultStats' # NoStats
    BY <1>1 DEF KInv, KeeperTypeOK, MovesTo
  <2>2. task' \in [Tasks -> Jobs]
    BY <1>1
  <2>3. QED
    BY <2>1, <2>2 DEF MovesTo, KeeperTypeOK
<1>3. min_epoch_duration' \in InitialDurations
  BY DEF KInv, EpochMoves
<1>4. \A u \in Tasks : FreshOrEnded(u)'
  <2>1. FreshOrEnded(t)'
    BY <1>1 DEF JobFresh, FreshOrEnded, Settling, At, SettlePcs
  <2>2. ASSUME NEW u \in Tasks, u # t
        PROVE  FreshOrEnded(u)'
    <3>1. task'[u] = task[u] /\ task[u].premium \in Nat /\ task[u].began \in Nat
      BY <1>1, <2>2 DEF Jobs
    <3>2. FreshOrEnded(u)
      BY DEF KInv
    <3>3. /\ epoch_premium_earned \in Nat /\ epoch_premium_earned' \in Nat
          /\ now \in Nat /\ last_roll_timestamp \in Nat
      BY ConstantsOK DEF KInv, IInv, TypeOK, VaultTypeOK, U64
    <3>4. QED
      BY <3>1, <3>2, <3>3 DEF FreshOrEnded, EpochMoves, Settling, At
  <2>3. QED
    BY <2>1, <2>2
<1>5. FlagHeld'
  <2> SUFFICES ASSUME OtherVaults = 0
               PROVE  /\ RollsExclusive'
                      /\ \A u \in Tasks : /\ task'[u].pc \notin OtherPcs
                                          /\ task'[u].pc \in RollPcs => isRunning'
    BY DEF FlagHeld, Rolling, At, OtherPcs
  <2>1. /\ \A u \in Tasks : task'[u] = IF u = t THEN job ELSE task[u]
        /\ \A u \in Tasks : task[u].pc \notin OtherPcs
        /\ \A u \in Tasks : task[u].pc \in RollPcs => isRunning
        /\ \A u, v \in Tasks : task[u].pc \in RollPcs /\ task[v].pc \in RollPcs => u = v
    BY <1>1 DEF KInv, FlagHeld, RollsExclusive, Rolling, At, OtherPcs
  <2>2. job.pc \notin OtherPcs
    BY DEF FlagFollows
  <2>3. CASE isRunning' = isRunning /\ (job.pc \in RollPcs => Rolling(t))
    BY <2>1, <2>2, <2>3 DEF RollsExclusive, Rolling
  <2>4. CASE isRunning' = FALSE /\ Rolling(t) /\ job.pc \notin RollPcs
    BY <2>1, <2>2, <2>4 DEF RollsExclusive, Rolling
  <2>5. CASE ~isRunning /\ isRunning' = TRUE
    BY <2>1, <2>2, <2>5 DEF RollsExclusive, Rolling
  <2>6. QED
    BY <2>3, <2>4, <2>5 DEF FlagFollows
<1>6. uncollected' >= Total(InFlight')
  <2>1. /\ InFlight \in [Tasks -> Nat] /\ InFlight' \in [Tasks -> Nat]
        /\ InFlight[t] = Weight(task[t]) /\ InFlight'[t] = Weight(job)
        /\ \A u \in Tasks : u # t => InFlight'[u] = InFlight[u]
    BY <1>1 DEF InFlight, Weight, At, Jobs
  <2>2. IsFiniteSet(Tasks)
    BY KeeperConstantsOK
  <2>3. /\ Total(InFlight') = Total(InFlight) - InFlight[t] + InFlight'[t]
        /\ Total(InFlight) \in Nat
    BY <2>1, <2>2, TotalUpdate
  <2>4. uncollected \in Int /\ uncollected >= Total(InFlight)
    BY DEF KInv, KeeperTypeOK
  <2>5. /\ uncollected' \in Int
        /\ uncollected' - Weight(job) >= uncollected - Weight(task[t])
    BY DEF MovesTo
  <2>6. InFlight[t] \in Nat /\ InFlight'[t] \in Nat
    BY <2>1
  <2>7. QED
    BY <2>1, <2>3, <2>4, <2>5, <2>6
<1>7. (uncollected >= Total(InFlight))'
  BY <1>6 DEF InFlight, Total, Units, At
<1>8. QED
  BY <1>2, <1>3, <1>4, <1>5, <1>7 DEF KInv

(* A step of one task that changes nothing but the task and isRunning.     *)
LEMMA QuietStep ==
  ASSUME KInv, UNCHANGED vars, NEW t \in Tasks, NEW job \in Jobs, Become(t, job),
         UNCHANGED <<vaultStats, restarts, owed, uncollected>>,
         isRunning' \in BOOLEAN, FlagFollows(t, job),
         job.stats_seen => vaultStats # NoStats,
         job.pc # "roll_collect",
         job.pc \in SettlePcs =>
           job.began <= now /\ now <= job.began + SettleTime,
         job.pc \in SettlePcs \ {"settle_fetch"} =>
           \/ job.premium <= epoch_premium_earned
           \/ last_roll_timestamp >= job.began
  PROVE  KInv'
<1>1. IInv' /\ EpochMoves /\ now' = now
  BY VaultAlone DEF KInv
<1>2. Weight(task[t]) \in Nat /\ Weight(job) = 0
  BY DEF KInv, KeeperTypeOK, Jobs, Weight
<1>3. MovesTo(t, job)
  BY <1>2 DEF MovesTo, KInv, KeeperTypeOK
<1>4. JobFresh(job)
  BY DEF JobFresh, vars, epochVars
<1>5. QED
  BY <1>1, <1>3, <1>4, TaskStep

(* A fresh job is a job. *)
LEMMA IdleJob ==
  /\ Idle \in Jobs /\ Idle.pc = "idle" /\ Idle.others_after = 0 /\ ~Idle.stats_seen
  /\ \A pc \in {"check", "roll_fetch", "other_vaults", "vaults_after"} :
       /\ [Idle EXCEPT !.pc = pc] \in Jobs
       /\ [Idle EXCEPT !.pc = pc].pc = pc
       /\ ~[Idle EXCEPT !.pc = pc].stats_seen
<1>1. 0 \in 0..OtherVaults /\ Nobody \in Wallets
  BY KeeperConstantsOK DEF Wallets
<1>2. Idle \in Jobs
  BY <1>1 DEF Idle, Jobs
<1>3. QED
  BY <1>2 DEF Idle, Jobs, RollPcs, OtherPcs

(* What the invariant says of one task. *)
LEMMA TaskFacts ==
  ASSUME KInv, NEW t \in Tasks
  PROVE  /\ task[t] \in Jobs /\ isRunning \in BOOLEAN
         /\ task[t].stats_seen => vaultStats # NoStats
         /\ now \in Nat /\ epoch_premium_earned \in Nat /\ last_roll_timestamp \in Nat
         /\ epoch_notional_exposed \in Nat /\ total_assets \in Nat
         /\ FreshOrEnded(t)
         /\ OtherVaults = 0 => task[t].pc \notin OtherPcs
<1>1. /\ now \in Nat /\ epoch_premium_earned \in Nat /\ last_roll_timestamp \in Nat
      /\ epoch_notional_exposed \in Nat /\ total_assets \in Nat
  BY ConstantsOK DEF KInv, IInv, TypeOK, VaultTypeOK, U64
<1>2. QED
  BY <1>1 DEF KInv, KeeperTypeOK, FlagHeld, At, OtherPcs

(* A job that is done, or that has other vaults to roll. *)
DoneJob(job) ==
    /\ job \in Jobs /\ ~job.stats_seen
    /\ job.pc \in {"idle", "roll_fetch", "vaults_after"}

(* How a roll ends. *)
LEMMA RollEnd ==
  ASSUME KInv, NEW t \in Tasks, Rolling(t), EndRoll(t)
  PROVE  \E job : /\ DoneJob(job) /\ Become(t, job) /\ FlagFollows(t, job)
                  /\ isRunning' \in BOOLEAN
<1>1. task[t] \in Jobs
  BY TaskFacts
<1>2. PICK job : /\ Become(t, job)
                 /\ job = IF task[t].others_after > 0
                          THEN [Idle EXCEPT !.pc = "vaults_after"] ELSE Idle
  BY DEF EndRoll
<1>3. /\ job \in Jobs /\ ~job.stats_seen
      /\ job.pc = IF task[t].others_after > 0 THEN "vaults_after" ELSE "idle"
  BY <1>2, IdleJob
<1>4. OtherVaults = 0 => job.pc = "idle"
  BY <1>1, <1>3 DEF Jobs
<1>5. FlagFollows(t, job)
  BY <1>3, <1>4 DEF FlagFollows, EndRoll, RollPcs, OtherPcs
<1>6. isRunning' \in BOOLEAN
  BY DEF EndRoll
<1>7. DoneJob(job)
  BY <1>3 DEF DoneJob
<1>8. QED
  BY <1>2, <1>5, <1>6, <1>7

(* How a task ends that may go on to roll. *)
LEMMA RollOrReturnEnd ==
  ASSUME KInv, NEW t \in Tasks, NEW roll \in BOOLEAN, RollOrReturn(t, roll)
  PROVE  \E job : /\ DoneJob(job) /\ Become(t, job) /\ FlagFollows(t, job)
                  /\ isRunning' \in BOOLEAN
<1>1. CASE isRunning' = TRUE /\ ~isRunning /\ Become(t, [Idle EXCEPT !.pc = "roll_fetch"])
  <2> DEFINE job == [Idle EXCEPT !.pc = "roll_fetch"]
  <2>1. job \in Jobs /\ job.pc = "roll_fetch" /\ ~job.stats_seen
    BY IdleJob
  <2>2. Become(t, job) /\ isRunning' \in BOOLEAN
    BY <1>1
  <2> HIDE DEF job
  <2>3. FlagFollows(t, job)
    BY <1>1, <2>1 DEF FlagFollows, OtherPcs
  <2>4. QED
    BY <2>1, <2>2, <2>3 DEF DoneJob
<1>2. CASE isRunning' = isRunning /\ Become(t, Idle)
  <2>1. FlagFollows(t, Idle)
    BY <1>2, IdleJob DEF FlagFollows, OtherPcs, RollPcs
  <2>2. isRunning' \in BOOLEAN
    BY <1>2, TaskFacts
  <2>3. QED
    BY <1>2, <2>1, <2>2, IdleJob DEF DoneJob
<1>3. QED
  BY <1>1, <1>2 DEF RollOrReturn, RollMayStart

(* Without a word to the vault such an end is a quiet step.                *)
LEMMA EndQuietly ==
  ASSUME KInv, UNCHANGED vars, NEW t \in Tasks,
         (Rolling(t) /\ EndRoll(t)) \/ (\E roll \in BOOLEAN : RollOrReturn(t, roll)),
         UNCHANGED <<vaultStats, restarts, owed, uncollected>>
  PROVE  KInv'
<1>1. PICK job : /\ DoneJob(job) /\ Become(t, job) /\ FlagFollows(t, job)
                 /\ isRunning' \in BOOLEAN
  BY RollEnd, RollOrReturnEnd
<1>2. /\ job \in Jobs /\ ~job.stats_seen /\ job.pc # "roll_collect"
      /\ job.pc \notin SettlePcs
  BY <1>1 DEF DoneJob, SettlePcs
<1>3. QED
  BY <1>1, <1>2, QuietStep

-----------------------------------------------------------------------------
(* What the procedures compute are natural numbers. *)

(* A part of a natural number, in basis points. *)
LEMMA PartIsNat ==
  ASSUME NEW n \in Nat, NEW r \in Nat
  PROVE  (n * r) \div BpsDenominator \in Nat
<1>1. n * r \in Nat /\ BpsDenominator \in Nat \ {0}
  BY ConstantsOK
<1>2. QED
  BY <1>1, DivBounds

(* What a roll offers: no more than is held, since the pending withdrawals *)
(* are no more than the shares.                                            *)
LEMMA RollNotionalIsNat ==
  ASSUME KInv
  PROVE  RollNotional \in Nat
<1>1. /\ total_assets \in Nat /\ total_shares \in Nat
      /\ pending_withdrawals \in Nat /\ epoch_notional_exposed \in Nat
      /\ utilization_cap_bps \in Nat /\ BpsDenominator \in Nat /\ BpsDenominator > 0
  BY ConstantsOK DEF KInv, IInv, TypeOK, VaultTypeOK, U64
<1>2. pending_withdrawals <= total_shares
  <2>1. Total(share_account) \in Nat /\ share_escrow \in Nat
    BY ConstantsOK, UnitsFinite DEF KInv, IInv, TypeOK, TokensTypeOK
  <2>2. QED
    BY <1>1, <2>1 DEF KInv, IInv, SharesAccounted
<1>3. ASSUME NEW a \in Nat, NEW b \in Nat, b > 0
      PROVE  (a * utilization_cap_bps) \div (b * BpsDenominator) \in Nat
  <2>1. a * utilization_cap_bps \in Nat /\ b * BpsDenominator \in Nat
        /\ b * BpsDenominator > 0
    BY <1>1, <1>3
  <2>2. QED
    BY <2>1, DivBounds
<1>4. AvailableExposure \in Nat
  <2>1. CASE total_shares > 0 /\ pending_withdrawals > 0
    <3> DEFINE a == total_assets * (total_shares - pending_withdrawals)
               cap == (a * utilization_cap_bps) \div (total_shares * BpsDenominator)
    <3>1. a \in Nat
      BY <1>1, <1>2
    <3>2. AvailableExposure = IF cap > epoch_notional_exposed
                              THEN cap - epoch_notional_exposed ELSE 0
      BY <2>1 DEF AvailableExposure
    <3> HIDE DEF a
    <3>3. cap \in Nat
      BY <1>1, <1>3, <2>1, <3>1
    <3> HIDE DEF cap
    <3>4. QED
      BY <1>1, <3>2, <3>3
  <2>2. CASE ~(total_shares > 0 /\ pending_withdrawals > 0)
    <3> DEFINE cap == (total_assets * utilization_cap_bps) \div (1 * BpsDenominator)
    <3>1. AvailableExposure = IF cap > epoch_notional_exposed
                              THEN cap - epoch_notional_exposed ELSE 0
      BY <2>2 DEF AvailableExposure
    <3>2. cap \in Nat
      BY <1>1, <1>3
    <3> HIDE DEF cap
    <3>3. QED
      BY <1>1, <3>1, <3>2
  <2>3. QED
    BY <2>1, <2>2
<1>5. total_assets \div 2 \in Nat
  BY <1>1
<1>6. QED
  BY <1>4, <1>5 DEF RollNotional, SmallerOf

(* What an option in the money pays. *)
LEMMA PayoffIsNat ==
  ASSUME NEW n \in Nat, NEW s \in Nat, NEW k \in Nat, InTheMoney(s, k)
  PROVE  Payoff(n, s, k) \in Nat
<1>1. s > k /\ s > 0
  BY DEF InTheMoney
<1>2. n * (s - k) \in Nat
  BY <1>1
<1>3. QED
  BY <1>1, <1>2, DivBounds DEF Payoff

(* The premium that is credited, which is no more than what was read. *)
LEMMA NetPremiumBounds ==
  ASSUME NEW job \in Jobs
  PROVE  NetPremium(job) \in Nat /\ NetPremium(job) <= job.premium
<1>1. job.premium \in Nat /\ job.payoff \in Nat
  BY DEF Jobs
<1> DEFINE net == IF job.premium > job.payoff THEN job.premium - job.payoff ELSE 0
<1>2. net \in Nat /\ net <= job.premium
  BY <1>1
<1>3. NetPremium(job) \in {0, net}
  BY DEF NetPremium
<1> HIDE DEF net
<1>4. QED
  BY <1>1, <1>2, <1>3

-----------------------------------------------------------------------------
(* Steps that leave the vault alone. *)

(* The checks and the starts of rolls and settlements. *)
LEMMA StartsQuietly ==
  ASSUME KInv, NEW t \in Tasks,
         \/ StartCheck(t) \/ CheckSettles(t) \/ CheckRolls(t) \/ CheckReturns(t)
         \/ \E b, a \in 0..OtherVaults : StartRoll(t, b, a)
         \/ StartSettlement(t)
  PROVE  KInv'
<1>1. isRunning \in BOOLEAN /\ now \in Nat /\ 0 \in 0..OtherVaults /\ SettleTime \in Nat
  BY TaskFacts, KeeperConstantsOK
<1>2. CASE StartCheck(t)
  <2> DEFINE job == [Idle EXCEPT !.pc = "check"]
  <2>1. job \in Jobs /\ job.pc = "check" /\ ~job.stats_seen
    BY IdleJob
  <2>2. Become(t, job) /\ isRunning' = isRunning
    BY <1>2 DEF StartCheck
  <2> HIDE DEF job
  <2>3. FlagFollows(t, job)
    BY <2>1, <2>2 DEF FlagFollows, OtherPcs, RollPcs
  <2>4. UNCHANGED vars /\ UNCHANGED <<vaultStats, restarts, owed, uncollected>>
    BY <1>2 DEF StartCheck
  <2>5. QED
    BY <1>1, <2>1, <2>2, <2>3, <2>4, QuietStep DEF SettlePcs
<1>3. ASSUME NEW job \in Jobs, job.pc = "settle_fetch", job.began = now, ~job.stats_seen,
             Become(t, job),
             UNCHANGED <<vars, isRunning, vaultStats, restarts, owed, uncollected>>
      PROVE  KInv'
  <2>1. FlagFollows(t, job)
    BY <1>3 DEF FlagFollows, OtherPcs, RollPcs
  <2>2. isRunning' \in BOOLEAN
    BY <1>1, <1>3
  <2>3. job.began <= now /\ now <= job.began + SettleTime
    BY <1>1, <1>3
  <2>4. QED
    BY <1>3, <2>1, <2>2, <2>3, QuietStep
<1>4. CASE CheckSettles(t)
  <2> DEFINE job == [Idle EXCEPT !.pc = "settle_fetch", !.began = now,
                                 !.then_roll = (epoch_notional_exposed = 0)]
  <2>1. job \in Jobs /\ job.pc = "settle_fetch" /\ job.began = now /\ ~job.stats_seen
    BY <1>1, IdleJob DEF Idle, Jobs, SettlePcs
  <2>2. Become(t, job) /\ UNCHANGED <<vars, isRunning, vaultStats, restarts, owed, uncollected>>
    BY <1>4 DEF CheckSettles
  <2> HIDE DEF job
  <2>3. QED
    BY <1>3, <2>1, <2>2
<1>5. CASE StartSettlement(t)
  <2> DEFINE job == [Idle EXCEPT !.pc = "settle_fetch", !.began = now]
  <2>1. job \in Jobs /\ job.pc = "settle_fetch" /\ job.began = now /\ ~job.stats_seen
    BY <1>1, IdleJob DEF Idle, Jobs, SettlePcs
  <2>2. Become(t, job) /\ UNCHANGED <<vars, isRunning, vaultStats, restarts, owed, uncollected>>
    BY <1>5 DEF StartSettlement
  <2> HIDE DEF job
  <2>3. QED
    BY <1>3, <2>1, <2>2
<1>6. CASE CheckRolls(t)
  <2>1. /\ UNCHANGED vars /\ RollOrReturn(t, TRUE)
        /\ UNCHANGED <<vaultStats, restarts, owed, uncollected>>
    BY <1>6 DEF CheckRolls
  <2>2. QED
    BY <2>1, EndQuietly
<1>7. CASE CheckReturns(t)
  <2>1. FlagFollows(t, Idle)
    BY <1>7, IdleJob DEF CheckReturns, FlagFollows, OtherPcs, RollPcs
  <2>2. /\ UNCHANGED vars /\ Become(t, Idle) /\ isRunning' \in BOOLEAN
        /\ UNCHANGED <<vaultStats, restarts, owed, uncollected>>
    BY <1>1, <1>7 DEF CheckReturns
  <2>3. QED
    BY <2>1, <2>2, IdleJob, QuietStep DEF SettlePcs
<1>8. ASSUME NEW b \in 0..OtherVaults, NEW a \in 0..OtherVaults, StartRoll(t, b, a)
      PROVE  KInv'
  <2> DEFINE job == [Idle EXCEPT !.pc = IF b = 0 THEN "roll_fetch" ELSE "other_vaults",
                                 !.others_after = a]
  <2>1. /\ job \in Jobs /\ ~job.stats_seen
        /\ job.pc = IF b = 0 THEN "roll_fetch" ELSE "other_vaults"
    BY <1>8, IdleJob DEF Idle, Jobs, RollPcs, OtherPcs
  <2>2. Become(t, job) /\ ~isRunning /\ isRunning' = TRUE
    BY <1>8 DEF StartRoll, RollMayStart
  <2> HIDE DEF job
  <2>3. FlagFollows(t, job)
    <3>1. OtherVaults = 0 => job.pc = "roll_fetch"
      BY <1>8, <2>1
    <3>2. QED
      BY <2>2, <3>1 DEF FlagFollows, OtherPcs
  <2>4. UNCHANGED vars /\ UNCHANGED <<vaultStats, restarts, owed, uncollected>>
    BY <1>8 DEF StartRoll
  <2>5. job.pc \notin SettlePcs /\ job.pc # "roll_collect"
    BY <2>1 DEF SettlePcs
  <2>6. QED
    BY <2>1, <2>2, <2>3, <2>4, <2>5, QuietStep
<1>9. QED
  BY <1>2, <1>4, <1>5, <1>6, <1>7, <1>8

(* The next stage of a roll, or of a settlement, of task t. *)
LEMMA NextStageQuietly ==
  ASSUME KInv, NEW t \in Tasks, NEW job \in Jobs, Become(t, job),
         UNCHANGED <<vars, isRunning, vaultStats, restarts, owed, uncollected>>,
         job.stats_seen => vaultStats # NoStats,
         \/ job.pc \in {"roll_quote", "roll_record"} /\ Rolling(t)
         \/ /\ job.pc \in SettlePcs \ {"settle_fetch"} /\ Settling(t)
            /\ job.began = task[t].began
            /\ \/ job.premium <= epoch_premium_earned
               \/ last_roll_timestamp >= job.began
  PROVE  KInv'
<1>1. isRunning' \in BOOLEAN
  BY TaskFacts
<1>2. FlagFollows(t, job)
  BY DEF FlagFollows, OtherPcs, RollPcs, SettlePcs
<1>3. job.pc \in SettlePcs => job.began <= now /\ now <= job.began + SettleTime
  BY TaskFacts DEF FreshOrEnded, SettlePcs
<1>4. job.pc \in SettlePcs \ {"settle_fetch"} =>
         job.premium <= epoch_premium_earned \/ last_roll_timestamp >= job.began
  BY DEF SettlePcs
<1>5. job.pc # "roll_collect"
  BY DEF SettlePcs
<1>6. QED
  BY <1>1, <1>2, <1>3, <1>4, <1>5, QuietStep

(* The stages of a roll up to the recording, and its ends. *)
LEMMA RollsQuietly ==
  ASSUME KInv, NEW t \in Tasks,
         \/ OthersRolled(t) \/ LaterVaultsRolled(t) \/ RollFetch(t) \/ RollGivenUp(t)
         \/ \E s \in OraclePrices, r \in PremiumRates : RollUnfilled(t, s, r)
         \/ RecordFails(t)
  PROVE  KInv'
<1>1. /\ task[t] \in Jobs /\ isRunning \in BOOLEAN
      /\ task[t].stats_seen => vaultStats # NoStats
      /\ OtherVaults = 0 => task[t].pc \notin OtherPcs
  BY TaskFacts
<1>2. CASE OthersRolled(t)
  <2> DEFINE job == [task[t] EXCEPT !.pc = "roll_fetch"]
  <2>1. job \in Jobs /\ job.pc = "roll_fetch" /\ job.stats_seen = task[t].stats_seen
    BY <1>1 DEF Jobs, RollPcs
  <2>2. Become(t, job) /\ isRunning' = FALSE /\ OtherVaults # 0
    BY <1>1, <1>2 DEF OthersRolled, At, OtherPcs
  <2>3. UNCHANGED vars /\ UNCHANGED <<vaultStats, restarts, owed, uncollected>>
    BY <1>2 DEF OthersRolled
  <2> HIDE DEF job
  <2>4. FlagFollows(t, job)
    BY <2>2 DEF FlagFollows
  <2>5. QED
    BY <1>1, <2>1, <2>2, <2>3, <2>4, QuietStep DEF SettlePcs
<1>3. CASE LaterVaultsRolled(t)
  <2>1. OtherVaults # 0
    BY <1>1, <1>3 DEF LaterVaultsRolled, At, OtherPcs
  <2>2. FlagFollows(t, Idle)
    BY <2>1 DEF FlagFollows
  <2>3. /\ UNCHANGED vars /\ UNCHANGED <<vaultStats, restarts, owed, uncollected>>
        /\ Become(t, Idle) /\ isRunning' \in BOOLEAN
    BY <1>3 DEF LaterVaultsRolled
  <2>4. QED
    BY <2>2, <2>3, IdleJob, QuietStep DEF SettlePcs
<1>4. CASE RollFetch(t)
  <2> DEFINE job == [task[t] EXCEPT !.pc = "roll_quote", !.notional = RollNotional]
  <2>1. RollNotional \in Nat
    BY RollNotionalIsNat
  <2>2. job \in Jobs /\ job.pc = "roll_quote" /\ job.stats_seen = task[t].stats_seen
    BY <1>1, <2>1 DEF Jobs, RollPcs
  <2>3. /\ Become(t, job) /\ Rolling(t)
        /\ UNCHANGED <<vars, isRunning, vaultStats, restarts, owed, uncollected>>
    BY <1>4 DEF RollFetch, Rolling, RollPcs, At
  <2> HIDE DEF job
  <2>4. QED
    BY <1>1, <2>2, <2>3, NextStageQuietly
<1>5. CASE RollGivenUp(t) \/ RecordFails(t)
  <2>1. Rolling(t) /\ EndRoll(t) /\ UNCHANGED <<vars, vaultStats, restarts, owed, uncollected>>
    BY <1>5 DEF RollGivenUp, RecordFails, Rolling, RollPcs, At
  <2>2. UNCHANGED vars /\ UNCHANGED <<vaultStats, restarts, owed, uncollected>>
    BY <2>1
  <2>3. QED
    BY <2>1, <2>2, EndQuietly
<1>6. ASSUME NEW s \in OraclePrices, NEW r \in PremiumRates, RollUnfilled(t, s, r)
      PROVE  KInv'
  <2> DEFINE k == Strike(s)
             p == FairPremium(task[t].notional, r)
             job == [task[t] EXCEPT !.pc = "roll_record", !.strike = k, !.premium = p]
  <2>1. k \in Nat
    BY KeeperConstantsOK, PartIsNat DEF Strike, OraclePrices
  <2>2. p \in Nat
    BY <1>1, KeeperConstantsOK, PartIsNat DEF FairPremium, Jobs
  <2>3. /\ Become(t, job) /\ Rolling(t)
        /\ UNCHANGED <<vars, isRunning, vaultStats, restarts, owed, uncollected>>
    BY <1>6 DEF RollUnfilled, Rolling, RollPcs, At
  <2> HIDE DEF k, p
  <2>4. job \in Jobs /\ job.pc = "roll_record" /\ job.stats_seen = task[t].stats_seen
    BY <1>1, <2>1, <2>2 DEF Jobs, RollPcs
  <2> HIDE DEF job
  <2>5. QED
    BY <1>1, <2>3, <2>4, NextStageQuietly
<1>7. QED
  BY <1>2, <1>3, <1>4, <1>5, <1>6

(* The stages of a settlement in which the vault is not told anything. *)
LEMMA SettlesQuietly ==
  ASSUME KInv, NEW t \in Tasks,
         \/ SettleFetch(t) \/ (\E s \in OraclePrices : SettlePrice(t, s)) \/ SettleFails(t)
  PROVE  KInv'
<1>1. /\ task[t] \in Jobs /\ isRunning \in BOOLEAN
      /\ task[t].stats_seen => vaultStats # NoStats
      /\ FreshOrEnded(t)
      /\ vaultStats \in {NoStats} \cup Stats
  BY TaskFacts DEF KInv, KeeperTypeOK
<1>2. CASE SettleFetch(t)
  <2> DEFINE seen == (vaultStats # NoStats)
             job == [task[t] EXCEPT !.pc = "settle_price",
                        !.notional = epoch_notional_exposed,
                        !.premium = epoch_premium_earned, !.tvl = total_assets,
                        !.stats_seen = seen]
  <2>1. /\ epoch_notional_exposed \in Nat /\ epoch_premium_earned \in Nat
        /\ total_assets \in Nat /\ seen \in BOOLEAN
    BY TaskFacts
  <2>2. /\ Become(t, job) /\ Settling(t)
        /\ UNCHANGED <<vars, isRunning, vaultStats, restarts, owed, uncollected>>
    BY <1>2 DEF SettleFetch, Settling, SettlePcs, At
  <2>3. seen => vaultStats # NoStats
    OBVIOUS
  <2> HIDE DEF seen
  <2>4. /\ job \in Jobs /\ job.pc = "settle_price" /\ job.stats_seen = seen
        /\ job.began = task[t].began /\ job.premium = epoch_premium_earned
    BY <1>1, <2>1 DEF Jobs, SettlePcs
  <2>5. job.premium <= epoch_premium_earned
    BY <2>1, <2>4
  <2> HIDE DEF job
  <2>6. job.pc \in SettlePcs \ {"settle_fetch"}
    BY <2>4 DEF SettlePcs
  <2>7. QED
    BY <2>2, <2>3, <2>4, <2>5, <2>6, NextStageQuietly
<1>3. ASSUME NEW s \in OraclePrices, SettlePrice(t, s)
      PROVE  KInv'
  <2> DEFINE strike == IF task[t].stats_seen THEN vaultStats.strike ELSE 0
             pays == InTheMoney(s, strike) /\ task[t].notional > 0
             pc == IF pays THEN "settle_pay" ELSE "settle_advance"
             payoff == IF pays THEN Payoff(task[t].notional, s, strike) ELSE 0
             who == IF task[t].stats_seen /\ vaultStats.wallet # Nobody
                    THEN vaultStats.wallet ELSE KeeperWallet
             job == [task[t] EXCEPT !.pc = pc, !.payoff = payoff, !.recipient = who]
  <2>1. /\ Become(t, job) /\ Settling(t) /\ At(t, "settle_price")
        /\ UNCHANGED <<vars, isRunning, vaultStats, restarts, owed, uncollected>>
    BY <1>3 DEF SettlePrice, Settling, SettlePcs, At
  <2>2. strike \in Nat
    BY <1>1 DEF Stats
  <2>3. who \in Wallets
    BY <1>1, KeeperConstantsOK DEF Stats, Wallets
  <2>4. pc \in SettlePcs \ {"settle_fetch"}
    BY DEF SettlePcs
  <2>5. payoff \in Nat
    <3> HIDE DEF strike
    <3>1. task[t].notional \in Nat /\ s \in Nat
      BY <1>1, KeeperConstantsOK DEF Jobs, OraclePrices
    <3>2. QED
      BY <2>2, <3>1, PayoffIsNat
  <2> HIDE DEF strike, pays, pc, payoff, who
  <2>6. /\ job \in Jobs /\ job.pc = pc /\ job.stats_seen = task[t].stats_seen
        /\ job.began = task[t].began /\ job.premium = task[t].premium
    BY <1>1, <2>3, <2>4, <2>5 DEF Jobs
  <2> HIDE DEF job
  <2>7. job.premium <= epoch_premium_earned \/ last_roll_timestamp >= job.began
    BY <1>1, <2>1, <2>6 DEF FreshOrEnded, At
  <2>8. QED
    BY <1>1, <2>1, <2>4, <2>6, <2>7, NextStageQuietly
<1>4. CASE SettleFails(t)
  <2>1. /\ UNCHANGED vars /\ RollOrReturn(t, task[t].then_roll)
        /\ UNCHANGED <<vaultStats, restarts, owed, uncollected>>
    BY <1>4 DEF SettleFails
  <2>2. task[t].then_roll \in BOOLEAN
    BY <1>1 DEF Jobs
  <2>3. QED
    BY <2>1, <2>2, EndQuietly
<1>5. QED
  BY <1>2, <1>3, <1>4

-----------------------------------------------------------------------------
(* Steps that tell the vault or the makers something. *)

(* A task that is done has nothing in flight and nothing to go stale. *)
LEMMA DoneMoves ==
  ASSUME KInv, NEW t \in Tasks, NEW job, DoneJob(job), Become(t, job),
         isRunning' \in BOOLEAN,
         vaultStats' \in {NoStats} \cup Stats,
         vaultStats # NoStats => vaultStats' # NoStats,
         UNCHANGED <<restarts, owed>>,
         uncollected' \in Int, uncollected' >= uncollected - Weight(task[t])
  PROVE  MovesTo(t, job) /\ JobFresh(job)
<1>1. job \in Jobs /\ ~job.stats_seen /\ Weight(job) = 0 /\ job.pc \notin SettlePcs
  BY DEF DoneJob, Weight, SettlePcs
<1>2. restarts' \in 0..MaxRestarts /\ owed' \in Nat
  BY DEF KInv, KeeperTypeOK
<1>3. JobFresh(job)
  BY <1>1 DEF JobFresh
<1>4. uncollected' - Weight(job) >= uncollected - Weight(task[t])
  BY <1>1
<1>5. QED
  BY <1>1, <1>2, <1>3, <1>4 DEF MovesTo

(* The router fills: the vault does not notice. *)
LEMMA RollFilledStep ==
  ASSUME KInv, NEW t \in Tasks, NEW s \in OraclePrices, NEW r \in PremiumRates,
         NEW m \in Makers, NEW o \in 0..MaxOverbid, NEW heard \in BOOLEAN,
         RollFilled(t, s, r, m, o, heard)
  PROVE  KInv'
<1> DEFINE fair  == FairPremium(task[t].notional, r)
           quote == PremiumFloor(fair) + o
           k     == Strike(s)
           p     == IF heard THEN quote ELSE fair
           job   == [task[t] EXCEPT !.pc = "roll_record", !.strike = k, !.premium = p]
<1>1. /\ task[t] \in Jobs /\ isRunning \in BOOLEAN
      /\ task[t].stats_seen => vaultStats # NoStats
      /\ vaultStats \in {NoStats} \cup Stats
  BY TaskFacts DEF KInv, KeeperTypeOK
<1>2. fair \in Nat /\ k \in Nat
  BY <1>1, KeeperConstantsOK, PartIsNat DEF FairPremium, Strike, Jobs, OraclePrices
<1>3. quote \in Nat
  <2>1. o \in Nat
    BY KeeperConstantsOK
  <2>2. (fair * FloorBps) \div BpsDenominator \in Nat
    BY <1>2, KeeperConstantsOK, PartIsNat
  <2> HIDE DEF fair
  <2>3. PremiumFloor(fair) \in Nat
    BY <1>2, <2>2 DEF PremiumFloor
  <2>4. QED
    BY <2>1, <2>3
<1>4. /\ Become(t, job) /\ At(t, "roll_record") = FALSE /\ Rolling(t) /\ Weight(task[t]) = 0
      /\ owed' = owed + quote
      /\ UNCHANGED <<vars, isRunning, restarts, uncollected>>
      /\ vaultStats' = IF heard THEN [WithStats EXCEPT !.wallet = MakerWallet(m)]
                                ELSE vaultStats
  BY DEF RollFilled, At, Rolling, RollPcs, Weight
<1>5. WithStats \in Stats /\ MakerWallet(m) \in Wallets
  BY <1>1, KeeperConstantsOK DEF WithStats, Stats, Wallets, MakerWallet
<1>6. /\ vaultStats' \in {NoStats} \cup Stats
      /\ vaultStats # NoStats => vaultStats' # NoStats
  <2>1. [WithStats EXCEPT !.wallet = MakerWallet(m)] \in Stats
    BY <1>5 DEF Stats
  <2>2. NoStats \notin Stats
    BY KeeperConstantsOK
  <2>3. CASE heard
    BY <1>4, <2>1, <2>2, <2>3
  <2>4. CASE ~heard
    BY <1>1, <1>4, <2>4
  <2>5. QED
    BY <2>3, <2>4
<1> HIDE DEF quote, fair, k
<1>7. /\ job \in Jobs /\ job.pc = "roll_record" /\ job.stats_seen = task[t].stats_seen
  BY <1>1, <1>2, <1>3 DEF Jobs, RollPcs
<1> HIDE DEF job
<1>8. Weight(job) = 0 /\ job.pc \notin SettlePcs /\ job.pc \notin OtherPcs
  BY <1>7 DEF Weight, SettlePcs, OtherPcs
<1>9. owed' \in Nat
  BY <1>3, <1>4 DEF KInv, KeeperTypeOK
<1>10. MovesTo(t, job)
  BY <1>1, <1>4, <1>6, <1>7, <1>8, <1>9 DEF MovesTo, KInv, KeeperTypeOK
<1>11. FlagFollows(t, job) /\ JobFresh(job)
  BY <1>4, <1>8 DEF FlagFollows, JobFresh
<1>12. IInv' /\ EpochMoves /\ now' = now
  BY <1>4, VaultAlone DEF KInv
<1>13. QED
  BY <1>10, <1>11, <1>12, TaskStep

(* record_notional_exposure is called: the premium recorded is about to be *)
(* collected, unless the call is thought to have failed.                   *)
LEMMA RollRecordStep ==
  ASSUME KInv, NEW t \in Tasks, RollRecord(t)
  PROVE  KInv'
<1>1. /\ task[t] \in Jobs /\ isRunning \in BOOLEAN
      /\ task[t].stats_seen => vaultStats # NoStats
  BY TaskFacts
<1>2. /\ Rolling(t) /\ Weight(task[t]) = 0
      /\ uncollected' = uncollected + task[t].premium
      /\ UNCHANGED <<vaultStats, restarts, owed>>
  BY DEF RollRecord, SendExposure, At, Rolling, RollPcs, Weight
<1>3. IInv' /\ EpochMoves /\ now' = now
  BY <1>1, RecordStep DEF RollRecord, SendExposure, KInv, Jobs
<1>4. /\ vaultStats \in {NoStats} \cup Stats /\ uncollected \in Int
      /\ task[t].premium \in Nat
  BY <1>1 DEF KInv, KeeperTypeOK, Jobs
<1>5. CASE Become(t, [task[t] EXCEPT !.pc = "roll_collect"]) /\ UNCHANGED isRunning
  <2> DEFINE job == [task[t] EXCEPT !.pc = "roll_collect"]
  <2>1. /\ job \in Jobs /\ job.pc = "roll_collect" /\ job.stats_seen = task[t].stats_seen
        /\ job.premium = task[t].premium /\ Become(t, job)
    BY <1>1, <1>5 DEF Jobs, RollPcs
  <2> HIDE DEF job
  <2>2. Weight(job) = task[t].premium /\ job.pc \notin SettlePcs /\ job.pc \notin OtherPcs
    BY <2>1 DEF Weight, SettlePcs, OtherPcs
  <2>3. /\ uncollected' \in Int
        /\ uncollected' - Weight(job) >= uncollected - Weight(task[t])
    BY <1>2, <1>4, <2>2
  <2>4. MovesTo(t, job)
    BY <1>1, <1>2, <1>4, <1>5, <2>1, <2>3 DEF MovesTo, KInv, KeeperTypeOK
  <2>5. FlagFollows(t, job) /\ JobFresh(job)
    BY <1>2, <1>5, <2>2 DEF FlagFollows, JobFresh
  <2>6. QED
    BY <1>3, <2>4, <2>5, TaskStep
<1>6. CASE EndRoll(t)
  <2>1. PICK job : /\ DoneJob(job) /\ Become(t, job) /\ FlagFollows(t, job)
                   /\ isRunning' \in BOOLEAN
    BY <1>2, <1>6, RollEnd
  <2>2. uncollected' \in Int /\ uncollected' >= uncollected - Weight(task[t])
    BY <1>2, <1>4
  <2>3. MovesTo(t, job) /\ JobFresh(job)
    BY <1>2, <1>4, <2>1, <2>2, DoneMoves
  <2>4. QED
    BY <1>3, <2>1, <2>3, TaskStep
<1>7. QED
  BY <1>5, <1>6 DEF RollRecord, SendExposure

(* collect_premium is called: what is collected was in flight. *)
LEMMA RollCollectStep ==
  ASSUME KInv, NEW t \in Tasks, RollCollect(t)
  PROVE  KInv'
<1>1. task[t] \in Jobs /\ task[t].premium \in Nat /\ task[t].strike \in Nat
  BY TaskFacts DEF Jobs
<1>2. /\ Rolling(t) /\ Weight(task[t]) = task[t].premium /\ EndRoll(t)
      /\ vaultStats' = [WithStats EXCEPT !.strike = task[t].strike]
      /\ UNCHANGED <<restarts, owed>>
      /\ uncollected' \in {uncollected, uncollected - task[t].premium}
  BY DEF RollCollect, SendCollection, At, Rolling, RollPcs, Weight
<1>3. IInv' /\ EpochMoves /\ now' = now
  <2>1. CASE CollectPremium(task[t].premium)
    BY <1>1, <2>1, CollectStep DEF KInv
  <2>2. CASE UNCHANGED vars
    BY <2>2, VaultAlone DEF KInv
  <2>3. QED
    BY <2>1, <2>2 DEF RollCollect, SendCollection
<1>4. /\ vaultStats \in {NoStats} \cup Stats /\ uncollected \in Int
  BY DEF KInv, KeeperTypeOK
<1>5. vaultStats' \in Stats /\ vaultStats' # NoStats
  <2>1. WithStats \in Stats
    BY <1>4, KeeperConstantsOK DEF WithStats, Stats, Wallets
  <2>2. QED
    BY <1>1, <1>2, <2>1, KeeperConstantsOK DEF Stats
<1>6. PICK job : /\ DoneJob(job) /\ Become(t, job) /\ FlagFollows(t, job)
                 /\ isRunning' \in BOOLEAN
  BY <1>2, RollEnd
<1>7. uncollected' \in Int /\ uncollected' >= uncollected - Weight(task[t])
  BY <1>1, <1>2, <1>4
<1>8. MovesTo(t, job) /\ JobFresh(job)
  BY <1>2, <1>4, <1>5, <1>6, <1>7, DoneMoves
<1>9. QED
  BY <1>3, <1>6, <1>8, TaskStep

(* pay_settlement is called: the premium that was read stands. *)
LEMMA SettlePayStep ==
  ASSUME KInv, NEW t \in Tasks, SettlePay(t)
  PROVE  KInv'
<1> DEFINE job == [task[t] EXCEPT !.pc = "settle_advance"]
<1>1. /\ task[t] \in Jobs /\ isRunning \in BOOLEAN /\ FreshOrEnded(t)
      /\ task[t].stats_seen => vaultStats # NoStats
      /\ epoch_premium_earned \in Nat /\ last_roll_timestamp \in Nat /\ now \in Nat
  BY TaskFacts
<1>2. /\ task[t].payoff \in Nat /\ task[t].premium \in Nat /\ task[t].began \in Nat
      /\ job \in Jobs /\ job.pc = "settle_advance" /\ job.stats_seen = task[t].stats_seen
      /\ job.began = task[t].began /\ job.premium = task[t].premium
  BY <1>1 DEF Jobs, SettlePcs
<1>3. /\ Become(t, job) /\ At(t, "settle_pay")
      /\ UNCHANGED <<isRunning, vaultStats, restarts, owed, uncollected>>
  BY DEF SettlePay, SendSettlement, AfterFailedPayment
<1>4. /\ IInv' /\ EpochMoves /\ now' = now
      /\ UNCHANGED <<epoch_premium_earned, last_roll_timestamp>>
  <2>1. CASE PaySettlement(task[t].recipient, task[t].payoff)
    <3>1. IInv' /\ EpochMoves /\ now' = now
      BY <1>2, <2>1, PayStep DEF KInv
    <3>2. UNCHANGED <<epoch_premium_earned, last_roll_timestamp>>
      BY <2>1 DEF PaySettlement, epochVars
    <3>3. QED
      BY <3>1, <3>2
  <2>2. CASE UNCHANGED vars
    <3>1. IInv' /\ EpochMoves /\ now' = now
      BY <2>2, VaultAlone DEF KInv
    <3>2. UNCHANGED <<epoch_premium_earned, last_roll_timestamp>>
      BY <2>2 DEF vars, epochVars
    <3>3. QED
      BY <3>1, <3>2
  <2>3. QED
    BY <2>1, <2>2 DEF SettlePay, SendSettlement
<1> HIDE DEF job
<1>5. Weight(job) = 0 /\ Weight(task[t]) = 0 /\ Settling(t)
  BY <1>2, <1>3 DEF Weight, At, Settling, SettlePcs
<1>6. MovesTo(t, job)
  BY <1>1, <1>2, <1>3, <1>4, <1>5 DEF MovesTo, KInv, KeeperTypeOK
<1>7. FlagFollows(t, job)
  BY <1>2, <1>3 DEF FlagFollows, RollPcs, OtherPcs
<1>8. JobFresh(job)
  BY <1>1, <1>2, <1>3, <1>4, <1>5 DEF JobFresh, FreshOrEnded, At
<1>9. QED
  BY <1>4, <1>6, <1>7, <1>8, TaskStep

(* advance_epoch is called, and the settlement ends. *)
LEMMA SettleAdvanceStep ==
  ASSUME KInv, NEW t \in Tasks, SettleAdvance(t)
  PROVE  KInv'
<1>1. /\ task[t] \in Jobs /\ task[t].then_roll \in BOOLEAN
      /\ task[t].stats_seen => vaultStats # NoStats
      /\ vaultStats \in {NoStats} \cup Stats
  BY TaskFacts DEF Jobs, KInv, KeeperTypeOK
<1>2. /\ At(t, "settle_advance") /\ AdvanceEpoch(NetPremium(task[t]))
      /\ RollOrReturn(t, task[t].then_roll)
      /\ UNCHANGED <<restarts, owed, uncollected>>
      /\ vaultStats' \in {vaultStats, IF task[t].stats_seen
                           THEN [vaultStats EXCEPT !.strike = 0] ELSE vaultStats}
  BY DEF SettleAdvance, SendAdvance
<1>3. IInv' /\ EpochMoves /\ now' = now
  <2>1. NetPremium(task[t]) \in Nat
    BY <1>1, NetPremiumBounds
  <2>2. QED
    BY <1>2, <2>1, AdvanceStep DEF KInv
<1>4. PICK job : /\ DoneJob(job) /\ Become(t, job) /\ FlagFollows(t, job)
                 /\ isRunning' \in BOOLEAN
  BY <1>1, <1>2, RollOrReturnEnd
<1>5. /\ vaultStats' \in {NoStats} \cup Stats
      /\ vaultStats # NoStats => vaultStats' # NoStats
  <2>1. CASE task[t].stats_seen
    <3>1. vaultStats \in Stats
      BY <1>1, <2>1
    <3>2. [vaultStats EXCEPT !.strike = 0] \in Stats
      BY <3>1 DEF Stats
    <3>3. QED
      BY <1>2, <2>1, <3>1, <3>2, KeeperConstantsOK
  <2>2. CASE ~task[t].stats_seen
    BY <1>1, <1>2, <2>2
  <2>3. QED
    BY <2>1, <2>2
<1>6. /\ uncollected' \in Int /\ uncollected' >= uncollected - Weight(task[t])
  <2>1. Weight(task[t]) = 0
    BY <1>2 DEF Weight, At
  <2>2. QED
    BY <1>2, <2>1 DEF KInv, KeeperTypeOK
<1>7. MovesTo(t, job) /\ JobFresh(job)
  BY <1>2, <1>4, <1>5, <1>6, DoneMoves
<1>8. QED
  BY <1>3, <1>4, <1>7, TaskStep

-----------------------------------------------------------------------------
(* Steps of others, and restarts. *)

(* A step that leaves the tasks and the memory alone, no settlement        *)
(* outlasting its timeouts.                                                *)
LEMMA OutsideStep ==
  ASSUME KInv, IInv', EpochMoves, UNCHANGED <<memoryVars, restarts, uncollected>>,
         owed' \in Nat,
         \A t \in Tasks : Settling(t) => now' <= task[t].began + SettleTime
  PROVE  KInv'
<1>1. /\ UNCHANGED <<task, isRunning, vaultStats>>
      /\ UNCHANGED <<restarts, uncollected>>
  BY DEF memoryVars
<1>2. KeeperTypeOK'
  BY <1>1 DEF KInv, KeeperTypeOK
<1>3. ASSUME NEW t \in Tasks
      PROVE  FreshOrEnded(t)'
  <2>1. task[t].premium \in Nat /\ task[t].began \in Nat /\ FreshOrEnded(t)
    BY DEF KInv, KeeperTypeOK, Jobs
  <2>2. /\ epoch_premium_earned \in Nat /\ epoch_premium_earned' \in Nat
        /\ now \in Nat /\ last_roll_timestamp \in Nat
    BY ConstantsOK DEF KInv, IInv, TypeOK, VaultTypeOK, U64
  <2>3. QED
    BY <1>1, <2>1, <2>2 DEF FreshOrEnded, EpochMoves, Settling, At
<1>4. FlagHeld'
  BY <1>1 DEF KInv, FlagHeld, RollsExclusive, Rolling, At
<1>5. (uncollected >= Total(InFlight))'
  BY <1>1 DEF KInv, InFlight, Total, Units, At
<1>6. QED
  BY <1>2, <1>3, <1>4, <1>5 DEF KInv, EpochMoves

(* Nothing is in flight while every task is idle. *)
LEMMA NothingInFlight ==
  ASSUME NEW S
  PROVE  Total([t \in S |-> IF Idle.pc = "roll_collect" THEN Idle.premium ELSE 0]) = 0
<1>1. Idle.pc # "roll_collect"
  BY DEF Idle
<1>2. [t \in S |-> IF Idle.pc = "roll_collect" THEN Idle.premium ELSE 0] = [t \in S |-> 0]
  BY <1>1
<1>3. QED
  BY <1>2, TotalZero

(* The keeper's state with every task idle satisfies the invariant.        *)
LEMMA AllIdle ==
  ASSUME IInv, min_epoch_duration \in InitialDurations,
         task = [t \in Tasks |-> Idle], isRunning = FALSE, vaultStats = NoStats,
         restarts \in 0..MaxRestarts, owed \in Nat, uncollected \in Nat
  PROVE  KInv
<1>1. /\ task \in [Tasks -> Jobs]
      /\ \A t \in Tasks : task[t].pc = "idle" /\ ~task[t].stats_seen
  BY IdleJob
<1>2. KeeperTypeOK
  <2>1. isRunning \in BOOLEAN
    BY Zenon
  <2>2. vaultStats \in {NoStats} \cup Stats /\ uncollected \in Int
    OBVIOUS
  <2>3. QED
    BY <1>1, <2>1, <2>2 DEF KeeperTypeOK
<1>3. FlagHeld /\ \A t \in Tasks : FreshOrEnded(t)
  BY <1>1 DEF FlagHeld, RollsExclusive, FreshOrEnded, Rolling, Settling, At,
              RollPcs, SettlePcs
<1>4. InFlight = [t \in Tasks |-> IF Idle.pc = "roll_collect" THEN Idle.premium ELSE 0]
  BY DEF InFlight, At
<1>5. uncollected >= Total(InFlight)
  BY <1>4, NothingInFlight
<1>6. QED
  BY <1>2, <1>3, <1>5 DEF KInv

(* The keeper starts in the invariant. *)
LEMMA KeeperInitKInv == KeeperInit => KInv
<1> SUFFICES ASSUME KeeperInit PROVE KInv
  OBVIOUS
<1>1. IInv /\ min_epoch_duration \in InitialDurations
  BY InitIInv DEF KeeperInit, Init
<1>2. restarts \in 0..MaxRestarts /\ owed \in Nat /\ uncollected \in Nat
  BY KeeperConstantsOK DEF KeeperInit
<1>3. QED
  BY <1>1, <1>2, AllIdle DEF KeeperInit

(* Each step of the keeper and of those around it preserves the invariant. *)
LEMMA KeeperNextKInv ==
  ASSUME KInv, KeeperNext \/ UNCHANGED allVars
  PROVE  KInv'
<1>1. ASSUME NEW t \in Tasks, TaskNext(t)
      PROVE  KInv'
  <2>1. CASE RollStep(t)
    BY <2>1, RollsQuietly, RollFilledStep, RollRecordStep, RollCollectStep DEF RollStep
  <2>2. CASE SettleStep(t)
    BY <2>2, SettlesQuietly, SettlePayStep, SettleAdvanceStep DEF SettleStep
  <2>3. QED
    BY <1>1, <2>1, <2>2, StartsQuietly DEF TaskNext
<1>2. /\ owed \in Nat /\ now \in Nat /\ SettleTime \in Nat
      /\ \A t \in Tasks : task[t].began \in Nat /\ FreshOrEnded(t)
  BY KeeperConstantsOK DEF KInv, KeeperTypeOK, Jobs, IInv, TypeOK, VaultTypeOK
<1>3. CASE Restart
  <2>1. IInv' /\ min_epoch_duration' \in InitialDurations
    <3>1. IInv' /\ EpochMoves
      BY <1>3, VaultAlone DEF Restart, KInv
    <3>2. QED
      BY <3>1 DEF EpochMoves, KInv
  <2>2. restarts' \in 0..MaxRestarts
    BY <1>3, KeeperConstantsOK DEF Restart, KInv, KeeperTypeOK
  <2>3. uncollected \in Nat
    <3>1. IsFiniteSet(Tasks) /\ InFlight \in [Tasks -> Nat]
      BY KeeperConstantsOK DEF InFlight, KInv, KeeperTypeOK, Jobs
    <3>2. Total(InFlight) \in Nat
      BY <3>1, UnitsFinite
    <3>3. QED
      BY <3>2 DEF KInv, KeeperTypeOK
  <2>4. /\ KeeperTypeOK' /\ FlagHeld' /\ \A t \in Tasks : FreshOrEnded(t)'
    <3>1. /\ task' = [t \in Tasks |-> Idle] /\ isRunning' = FALSE /\ vaultStats' = NoStats
          /\ UNCHANGED <<owed, uncollected>>
      BY <1>3 DEF Restart
    <3>2. /\ task' \in [Tasks -> Jobs]
          /\ \A t \in Tasks : task'[t].pc = "idle" /\ ~task'[t].stats_seen
      BY <3>1, IdleJob
    <3>3. KeeperTypeOK'
      BY <2>2, <3>1, <3>2 DEF KeeperTypeOK, KInv
    <3>4. FlagHeld' /\ \A t \in Tasks : FreshOrEnded(t)'
      BY <3>2 DEF FlagHeld, RollsExclusive, FreshOrEnded, Rolling, Settling, At,
                  RollPcs, SettlePcs
    <3>5. QED
      BY <3>3, <3>4
  <2>5. (uncollected >= Total(InFlight))'
    <3>1. InFlight' = [t \in Tasks |-> IF Idle.pc = "roll_collect" THEN Idle.premium ELSE 0]
      BY <1>3 DEF Restart, InFlight, At
    <3>2. Total(InFlight') = 0
      BY <3>1, NothingInFlight
    <3>3. uncollected' >= Total(InFlight')
      BY <1>3, <2>3, <3>2 DEF Restart
    <3>4. QED
      BY <3>3 DEF InFlight, Total, Units, At
  <2>6. QED
    BY <2>1, <2>4, <2>5 DEF KInv
<1>4. CASE MakerPays
  <2>1. IInv' /\ EpochMoves /\ now' = now
    BY <1>2, <1>4, TransferStep DEF MakerPays, KInv
  <2>2. UNCHANGED <<memoryVars, restarts, uncollected>> /\ owed' \in Nat
    BY <1>4 DEF MakerPays
  <2>3. \A t \in Tasks : Settling(t) => now' <= task[t].began + SettleTime
    BY <1>2, <2>1 DEF FreshOrEnded
  <2>4. QED
    BY <2>1, <2>2, <2>3, OutsideStep
<1>5. CASE Pass
  <2>1. IInv' /\ EpochMoves
    BY <1>5, OthersStep DEF Pass, KInv
  <2>2. UNCHANGED <<memoryVars, restarts, uncollected>> /\ owed' \in Nat
    BY <1>2, <1>5 DEF Pass, keeperVars
  <2>3. \A t \in Tasks : Settling(t) => now' <= task[t].began + SettleTime
    BY <1>2, <1>5 DEF Pass, Tick
  <2>4. QED
    BY <2>1, <2>2, <2>3, OutsideStep
<1>6. CASE Others
  <2>1. IInv' /\ EpochMoves
    BY <1>6, OthersStep, KeeperConstantsOK DEF Others, KInv
  <2>2. UNCHANGED <<memoryVars, restarts, uncollected>> /\ owed' \in Nat
    BY <1>2, <1>6 DEF Others, keeperVars
  <2>3. now' = now
    BY <1>6, UserMoves DEF Others, AddMarketMaker, KInv
  <2>4. \A t \in Tasks : Settling(t) => now' <= task[t].began + SettleTime
    BY <1>2, <2>3 DEF FreshOrEnded
  <2>5. QED
    BY <2>1, <2>2, <2>4, OutsideStep
<1>7. CASE UNCHANGED allVars
  <2>1. IInv' /\ EpochMoves /\ now' = now
    BY <1>7, VaultAlone DEF KInv, allVars
  <2>2. UNCHANGED <<memoryVars, restarts, uncollected>> /\ owed' \in Nat
    BY <1>2, <1>7 DEF allVars, keeperVars
  <2>3. \A t \in Tasks : Settling(t) => now' <= task[t].began + SettleTime
    BY <1>2, <2>1 DEF FreshOrEnded
  <2>4. QED
    BY <2>1, <2>2, <2>3, OutsideStep
<1>8. QED
  BY <1>1, <1>3, <1>4, <1>5, <1>6, <1>7 DEF KeeperNext

-----------------------------------------------------------------------------
(* The invariant holds in every state. *)
THEOREM KeeperInvariant == KeeperSpec => []KInv
<1>1. KInv /\ [KeeperNext]_allVars => KInv'
  BY KeeperNextKInv
<1>2. QED
  BY KeeperInitKInv, <1>1, PTL DEF KeeperSpec

(* The keeper's types, under every interleaving, failure and restart.      *)
THEOREM KeeperTypes == KeeperSpec => []KeeperTypeOK
<1>1. KInv => KeeperTypeOK
  BY DEF KInv
<1>2. QED
  BY <1>1, KeeperInvariant, PTL

(* Whatever the keeper asks of the vault program, and whatever it has      *)
(* computed from: the three counts of shares agree, the reported assets are*)
(* in the token account and the vault never empties.                       *)
THEOREM VaultHoldsUnderKeeper ==
    KeeperSpec => [](SharesAccounted /\ AssetsBacked /\ VaultNeverEmpties)
<1>1. KInv => SharesAccounted /\ AssetsBacked /\ VaultNeverEmpties
  BY DEF KInv, IInv
<1>2. QED
  BY <1>1, KeeperInvariant, PTL

(* runEpochRoll, "Epoch roll already in progress": with one vault, for any *)
(* number of procedures in progress, no two of them roll it.  (With other  *)
(* vaults in the same roll this is false.)                                 *)
THEOREM OneVaultRollsExclusive ==
    KeeperSpec => [](OtherVaults = 0 => RollsExclusive)
<1>1. KInv => (OtherVaults = 0 => RollsExclusive)
  BY DEF KInv, FlagHeld
<1>2. QED
  BY <1>1, KeeperInvariant, PTL

(* Premium is only collected for exposure that the program has accepted:   *)
(* the premium recorded and not collected covers what is in flight.        *)
THEOREM CollectionFollowsRecord == KeeperSpec => []CollectedOnlyIfRecorded
<1>1. ASSUME KInv PROVE CollectedOnlyIfRecorded
  <2>1. IsFiniteSet(Tasks) /\ InFlight \in [Tasks -> Nat]
    BY <1>1, KeeperConstantsOK DEF InFlight, KInv, KeeperTypeOK, Jobs
  <2>2. Total(InFlight) \in Nat
    BY <2>1, UnitsFinite
  <2>3. QED
    BY <1>1, <2>2 DEF KInv, KeeperTypeOK, CollectedOnlyIfRecorded
<1>2. KInv => CollectedOnlyIfRecorded
  BY <1>1
<1>3. QED
  BY <1>2, KeeperInvariant, PTL

-----------------------------------------------------------------------------
(* What advance_epoch credits. *)

(* The timeouts of a settlement are shorter than an epoch. *)
Prompt == \A d \in InitialDurations : SettleTime < d

CreditedOfOwnEpoch ==
    epoch' > epoch =>
      premium_balance_usdc' - premium_balance_usdc <= epoch_premium_earned

(* An epoch that ends now cannot have begun since the settlement did, so   *)
(* the premium that the settlement has read is the epoch's own.            *)
LEMMA AdvanceCreditsOwn ==
  ASSUME KInv, Prompt, NEW t \in Tasks, SettleAdvance(t)
  PROVE  CreditedOfOwnEpoch
<1> DEFINE net == NetPremium(task[t])
<1>1. /\ task[t] \in Jobs /\ FreshOrEnded(t) /\ now \in Nat
      /\ epoch_premium_earned \in Nat /\ last_roll_timestamp \in Nat
  BY TaskFacts
<1>2. net \in Nat /\ net <= task[t].premium
  BY <1>1, NetPremiumBounds
<1> HIDE DEF net
<1>3. At(t, "settle_advance") /\ AdvanceEpoch(net)
  BY DEF SettleAdvance, SendAdvance, net
<1>4. premium_balance_usdc' = premium_balance_usdc + net
  BY <1>3 DEF AdvanceEpoch
<1>5. now >= last_roll_timestamp + min_epoch_duration
  BY <1>3 DEF AdvanceEpoch, AdvanceAllowed
<1>6. /\ min_epoch_duration \in Nat /\ SettleTime \in Nat /\ SettleTime < min_epoch_duration
      /\ premium_balance_usdc \in Nat
  BY ConstantsOK, KeeperConstantsOK DEF KInv, Prompt, IInv, TypeOK, VaultTypeOK
<1>7. task[t].began \in Nat /\ task[t].premium \in Nat
  BY <1>1 DEF Jobs
<1>8. now <= task[t].began + SettleTime
  BY <1>1, <1>3 DEF FreshOrEnded, Settling, SettlePcs, At
<1>9. last_roll_timestamp < task[t].began
  BY <1>1, <1>5, <1>6, <1>7, <1>8
<1>10. task[t].premium <= epoch_premium_earned
  BY <1>1, <1>3, <1>7, <1>9 DEF FreshOrEnded, Settling, SettlePcs, At
<1>11. QED
  BY <1>1, <1>2, <1>4, <1>6, <1>7, <1>10 DEF CreditedOfOwnEpoch

(* No other step ends an epoch that has earned anything: the first deposit *)
(* ends epoch 0, and credits nothing.                                      *)
LEMMA OthersCreditNothing ==
  ASSUME KInv, KeeperNext \/ UNCHANGED allVars,
         \A t \in Tasks : ~SettleAdvance(t)
  PROVE  CreditedOfOwnEpoch
<1>1. /\ epoch \in Nat /\ premium_balance_usdc \in Nat /\ epoch_premium_earned \in Nat
  BY ConstantsOK DEF KInv, IInv, TypeOK, VaultTypeOK, U64
<1>2. CASE epoch' = epoch
  BY <1>1, <1>2 DEF CreditedOfOwnEpoch
<1>3. CASE premium_balance_usdc' = premium_balance_usdc
  BY <1>1, <1>3 DEF CreditedOfOwnEpoch
<1>4. epoch' = epoch \/ premium_balance_usdc' = premium_balance_usdc
  <2>1. CASE UNCHANGED vars
    BY <2>1 DEF vars, epochVars
  <2>2. ASSUME NEW t \in Tasks, TaskNext(t), ~UNCHANGED vars
        PROVE  epoch' = epoch
    <3>1. CASE RollRecord(t)
      BY <3>1 DEF RollRecord, SendExposure, RecordNotionalExposure
    <3>2. CASE RollCollect(t)
      BY <2>2, <3>2 DEF RollCollect, SendCollection, CollectPremium
    <3>3. CASE SettlePay(t)
      BY <2>2, <3>3 DEF SettlePay, SendSettlement, PaySettlement, epochVars
    <3>4. CASE OthersRolled(t) \/ LaterVaultsRolled(t) \/ RollFetch(t)
               \/ RollGivenUp(t) \/ RecordFails(t)
      BY <2>2, <3>4 DEF OthersRolled, LaterVaultsRolled, RollFetch, RollGivenUp, RecordFails
    <3>5. ASSUME NEW s \in OraclePrices, NEW r \in PremiumRates,
                 \/ RollUnfilled(t, s, r)
                 \/ \E m \in Makers, o \in 0..MaxOverbid, heard \in BOOLEAN :
                      RollFilled(t, s, r, m, o, heard)
          PROVE  epoch' = epoch
      BY <2>2, <3>5 DEF RollUnfilled, RollFilled
    <3>6. CASE SettleFetch(t) \/ (\E s \in OraclePrices : SettlePrice(t, s)) \/ SettleFails(t)
      BY <2>2, <3>6 DEF SettleFetch, SettlePrice, SettleFails
    <3>7. CASE StartCheck(t) \/ CheckSettles(t) \/ CheckRolls(t) \/ CheckReturns(t)
               \/ StartSettlement(t)
      BY <2>2, <3>7 DEF StartCheck, CheckSettles, CheckRolls, CheckReturns, StartSettlement
    <3>8. ASSUME NEW b \in 0..OtherVaults, NEW a \in 0..OtherVaults, StartRoll(t, b, a)
          PROVE  epoch' = epoch
      BY <2>2, <3>8 DEF StartRoll
    <3>9. QED
      BY <2>2, <3>1, <3>2, <3>3, <3>4, <3>5, <3>6, <3>7, <3>8
         DEF TaskNext, RollStep, SettleStep
  <2>3. CASE Restart
    BY <2>1, <2>3 DEF Restart
  <2>4. CASE MakerPays
    BY <2>4 DEF MakerPays, TransferPremium
  <2>5. CASE Pass
    BY <2>5 DEF Pass, Tick, epochVars
  <2>6. CASE Others
    <3>1. CASE AddMarketMaker(KeeperWallet)
      BY <3>1 DEF AddMarketMaker, epochVars
    <3>2. ASSUME NEW u \in Users, NEW a \in Amounts, Deposit(u, a)
          PROVE  premium_balance_usdc' = premium_balance_usdc
      BY <3>2 DEF Deposit, usdcVars
    <3>3. ASSUME NEW u \in Users, NEW a \in Amounts, RequestWithdrawal(u, a)
          PROVE  epoch' = epoch
      BY <3>3 DEF RequestWithdrawal, epochVars
    <3>4. ASSUME NEW u \in Users, NEW e \in Nat, NEW m \in Nat, ProcessWithdrawal(u, e, m)
          PROVE  epoch' = epoch
      BY <3>4 DEF ProcessWithdrawal, epochVars
    <3>5. QED
      BY <2>6, <3>1, <3>2, <3>3, <3>4, UserStep DEF Others, KInv
  <2>7. QED
    BY <2>1, <2>2, <2>3, <2>4, <2>5, <2>6 DEF KeeperNext, allVars
<1>5. QED
  BY <1>2, <1>3, <1>4

(* When the timeouts of a settlement are shorter than an epoch, what       *)
(* advance_epoch credits was earned in the epoch that it ends, however the *)
(* interval, the HTTP requests, failures and restarts overlap.             *)
THEOREM CreditsAreOfOwnEpoch ==
  ASSUME Prompt
  PROVE  KeeperSpec => CreditsOwnEpoch
<1>1. KInv /\ [KeeperNext]_allVars => [CreditedOfOwnEpoch]_allVars
  BY AdvanceCreditsOwn, OthersCreditNothing
<1>2. KeeperSpec => [][CreditedOfOwnEpoch]_allVars
  BY <1>1, KeeperInvariant, PTL DEF KeeperSpec
<1>3. QED
  BY <1>2 DEF CreditsOwnEpoch, CreditedOfOwnEpoch

-----------------------------------------------------------------------------
(* What one task does is no business of the fund: epochs, exposure and     *)
(* premium are not shares.                                                 *)
LEMMA TasksLeaveShares ==
  ASSUME NEW t \in Tasks, TaskNext(t)
  PROVE  UNCHANGED shareVars
<1>1. CASE UNCHANGED vars
  BY <1>1 DEF vars
<1>2. CASE RollRecord(t)
  BY <1>2 DEF RollRecord, SendExposure, RecordNotionalExposure
<1>3. CASE RollCollect(t)
  BY <1>3 DEF RollCollect, SendCollection, CollectPremium, vars
<1>4. CASE SettlePay(t)
  BY <1>4 DEF SettlePay, SendSettlement, PaySettlement, vars
<1>5. CASE SettleAdvance(t)
  BY <1>5 DEF SettleAdvance, SendAdvance, AdvanceEpoch
<1>6. SettleStep(t) => SettlePay(t) \/ SettleAdvance(t) \/ UNCHANGED vars
  BY DEF SettleStep, SettleFetch, SettlePrice, SettleFails
<1>7. RollStep(t) => RollRecord(t) \/ RollCollect(t) \/ UNCHANGED vars
  BY DEF RollStep, OthersRolled, LaterVaultsRolled, RollFetch, RollGivenUp, RollUnfilled,
         RollFilled, RecordFails
<1>8. RollStep(t) \/ SettleStep(t) \/ UNCHANGED vars
  BY DEF TaskNext, StartCheck, CheckSettles, CheckRolls, CheckReturns, StartRoll,
         StartSettlement
<1> QED
  BY <1>1, <1>2, <1>3, <1>4, <1>5, <1>6, <1>7, <1>8

(* A step of the keeper or of those around it is one of the fund, or none. *)
LEMMA KeeperStepOfFund ==
  ASSUME KInv, [KeeperNext]_allVars
  PROVE  [Fund!Next]_(Fund!fundVars)
<1>1. ASSUME UNCHANGED shareVars PROVE UNCHANGED Fund!fundVars
  BY <1>1, OthersLeaveFund DEF Fund!fundVars
<1>2. CASE \E t \in Tasks : TaskNext(t)
  BY <1>1, <1>2, TasksLeaveShares
<1>3. CASE Restart \/ UNCHANGED allVars
  BY <1>1, <1>3 DEF Restart, allVars, vars
<1>4. CASE MakerPays \/ Pass
  BY <1>1, <1>4 DEF MakerPays, TransferPremium, Pass, Tick
<1>5. CASE Others
  <2>1. CASE UserNext
    BY <2>1, StepOfFund DEF KInv, Next
  <2>2. CASE AddMarketMaker(KeeperWallet)
    BY <1>1, <2>2 DEF AddMarketMaker
  <2> QED
    BY <1>5, <2>1, <2>2 DEF Others
<1> QED
  BY <1>2, <1>3, <1>4, <1>5 DEF KeeperNext

(* The vault is a fund whatever the keeper computes, and whatever fails or *)
(* overlaps in it: rolls, settlements and restarts leave the shares alone, *)
(* and a share is sold and redeemed at its price in between.               *)
THEOREM FundUnderKeeper == KeeperSpec => ImplementsFund
<1>1. KInv /\ [KeeperNext]_allVars => [Fund!Next]_(Fund!fundVars)
  BY KeeperStepOfFund
<1>2. KeeperInit => Fund!Init
  BY FundInit DEF KeeperInit
<1> QED
  BY <1>1, <1>2, KeeperInvariant, PTL DEF KeeperSpec, ImplementsFund, Fund!Spec
=============================================================================
