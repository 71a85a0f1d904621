----------------------------- MODULE VaultTiming -----------------------------
(***************************************************************************)
(* When the next epoch begins, as the pages count it down: each view keeps *)
(* the vault data it was given and computes anew each second or when it is *)
(* given other data (app/lib/vault-timing.ts, hooks/useVaultTiming.ts).    *)
(***************************************************************************)
EXTENDS Clock

CONSTANTS
    Views,                      \* components that show the same vault
    Second, Minute, Hour, Day,  \* in ticks of the clock
    AlignHours,                 \* 6
    DemoPeriod, ProdPeriod,     \* 900 and 604800 seconds
    RollTimes, Durations,       \* what a vault's fields may be, in seconds
    FirstMoment                 \* Date.now() when the clock is 0

ASSUME TimingOK ==
    /\ {Second, Minute, Hour, Day, AlignHours, DemoPeriod, ProdPeriod} \subseteq Nat \ {0}
    /\ Minute % Second = 0 /\ Hour % Minute = 0 /\ Day % (AlignHours * Hour) = 0
    /\ RollTimes \cup Durations \cup {FirstMoment} \subseteq Nat

VARIABLES
    isDemo,   \* of the vault
    vault,    \* each view's data: None or [lastRollTimestamp, minEpochDuration]
    timing    \* each view's [nextRollTime, epochProgress]

timingVars == <<now, isDemo, vault, timing>>

VaultData == [lastRollTimestamp : RollTimes, minEpochDuration : Durations]

Moment == FirstMoment + now

LargerOf(a, b) == IF a > b THEN a ELSE b
LowerOf(a, b) == IF a < b THEN a ELSE b

-----------------------------------------------------------------------------
MinDuration(v) ==
    Second * (IF v # None /\ v.minEpochDuration # 0 THEN v.minEpochDuration
              ELSE IF isDemo THEN DemoPeriod ELSE ProdPeriod)

PeriodFromNow(last, period) == Moment + period    \* mutant: not aligned

(* The end of the period we are in, counted from the last roll. *)
PeriodEnd(last, period) ==
    last + (LargerOf(0, Moment - last) \div period + 1) * period

(* The next quarter of an hour *)
DemoMark ==
    LET nowSec == Moment \div Second
    IN  Second * (nowSec + DemoPeriod - (nowSec % DemoPeriod))

(* The next six hours: the mark at or after the minute, or the one after. *)
ProdMark ==
    LET minutes == (Moment % Day) \div Minute
        align   == AlignHours * Hour
        perMark == align \div Minute
        mark    == (Moment - (Moment % Day)) + align * ((minutes + perMark - 1) \div perMark)
    IN  IF mark <= Moment THEN mark + align ELSE mark

Percent(elapsed, period) == LowerOf(100, LargerOf(0, (100 * elapsed) \div period))

calculateVaultTiming(v) ==
    LET last == IF v = None THEN 0 ELSE Second * v.lastRollTimestamp
    IN  CASE v = None /\ ~isDemo -> [nextRollTime |-> 0, epochProgress |-> 0]
          [] last > 0 ->
               [nextRollTime  |-> PeriodEnd(last, MinDuration(v)),
                epochProgress |-> Percent(Moment - last, MinDuration(v))]
          [] last = 0 /\ isDemo ->
               [nextRollTime  |-> DemoMark,
                epochProgress |-> Percent(Second * DemoPeriod - (DemoMark - Moment),
                                          Second * DemoPeriod)]
          [] OTHER -> [nextRollTime |-> ProdMark, epochProgress |-> 0]

TimingInit ==
    /\ isDemo \in BOOLEAN
    /\ vault = [w \in Views |-> None]
    /\ timing = [w \in Views |-> calculateVaultTiming(None)]

SetTiming(w, v) == timing' = [timing EXCEPT ![w] = calculateVaultTiming(v)]

(* The view is given what a load read, and its effect runs again. *)
GiveVault(w, v) ==
    /\ vault' = [vault EXCEPT ![w] = v]
    /\ SetTiming(w, v)
    /\ UNCHANGED <<now, isDemo>>

(* The interval; a browser may hold it back. *)
TickView(w) == SetTiming(w, vault[w]) /\ UNCHANGED <<now, isDemo, vault>>

TimingTick == Tick /\ UNCHANGED <<isDemo, vault, timing>>

TimingNext ==
    \/ \E w \in Views : TickView(w) \/ \E v \in VaultData \cup {None} : GiveVault(w, v)
    \/ TimingTick

-----------------------------------------------------------------------------
(* Views that were given the same data count down to the same moment,      *)
(* until that of one has passed ("Ensures consistent countdowns across the *)
(* app", useVaultTiming.ts:9).  A progress of 100 is not shown before      *)
(* advance_epoch's condition on the time holds for that data (lib.rs:375). *)
CountdownsAgree ==
    \A w \in Views :
        /\ \A u \in Views : vault[u] = vault[w] =>
             \/ timing[u].nextRollTime = timing[w].nextRollTime
             \/ LowerOf(timing[u].nextRollTime, timing[w].nextRollTime) <= Moment
        /\ timing[w].epochProgress = 100 =>
             /\ vault[w] # None
             /\ Moment \div Second >= vault[w].lastRollTimestamp + vault[w].minEpochDuration
=============================================================================
