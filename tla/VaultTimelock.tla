---------------------------- MODULE VaultTimelock ----------------------------
(***************************************************************************)
(* The vault program with a history of what its authority announced.  The  *)
(* program keeps one unlock time for the two parameters it can change; the *)
(* history keeps, for each parameter, the value asked for last and when.   *)
(***************************************************************************)
EXTENDS Vault

VARIABLES
    cap_asked,       \* the cap queued and not executed: {} or {<<value, time>>}
    duration_asked   \* the same for the epoch duration

asked == <<cap_asked, duration_asked>>

TInit == Init /\ cap_asked = {} /\ duration_asked = {}

Asked(new, old) == IF new = {} THEN old ELSE {<<x, now>> : x \in new}

TQueue ==
    \E d \in Options(Durations), c \in Options(Caps) :
        /\ QueueParamChange(d, c)
        /\ duration_asked' = Asked(d, duration_asked)
        /\ cap_asked' = Asked(c, cap_asked)

TExecuteOrCancel ==
    /\ ExecuteParamChange \/ CancelParamChange
    /\ cap_asked' = {} /\ duration_asked' = {}

TOther ==
    /\ \/ UserNext \/ EpochNext \/ EnvironmentNext
       \/ \E m \in MarketMakers : AddMarketMaker(m) \/ RemoveMarketMaker(m)
       \/ \E b \in BOOLEAN : SetPause(b)
       \/ CloseVault \/ ForceCloseVault
    /\ UNCHANGED asked

TNext == TQueue \/ TExecuteOrCancel \/ TOther

TSpec == TInit /\ [][TNext]_<<vars, asked>>

-----------------------------------------------------------------------------
(* queue_param_change, execute_param_change: a parameter takes a value only*)
(* if that value was the last one asked for, was not cancelled, and has    *)
(* been pending for the whole timelock, also when the queue was touched in *)
(* between for the other parameter.                                        *)
TimelockRespected ==
    [][/\ utilization_cap_bps' # utilization_cap_bps =>
            \E a \in cap_asked : /\ a[1] = utilization_cap_bps'
                                 /\ now >= a[2] + TimelockDuration
       /\ min_epoch_duration' # min_epoch_duration =>
            \E a \in duration_asked : /\ a[1] = min_epoch_duration'
                                      /\ now >= a[2] + TimelockDuration
      ]_<<vars, asked>>
=============================================================================
