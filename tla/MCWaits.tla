-------------------------------- MODULE MCWaits --------------------------------
(***************************************************************************)
(* What waits for an answer or starts again, small instances for TLC: the  *)
(* router's waits, the pages' list of vaults, and the operators' scripts,  *)
(* which share nothing. The first state says which of them runs.           *)
(***************************************************************************)
EXTENDS RfqRouter, VaultSetup, AllVaults

VARIABLE component

WInit ==
    /\ component \in {"router", "list", "setup"}
    /\ Init /\ ListInit /\ SetupInit
    /\ component # "list" => onChain = {}

WNext ==
    /\ UNCHANGED component
    /\ \/ component = "router" /\ Next /\ UNCHANGED <<listVars, setupVars>>
       \/ component = "list" /\ ListNext /\ UNCHANGED <<vars, setupVars>>
       \/ component = "setup" /\ SetupNext /\ UNCHANGED <<vars, listVars>>

(* Where a component is not the one that runs, nothing of it is enabled:   *)
(* scripts and waits have not begun, and its clock and interval are left   *)
(* out.                                                                    *)
RouterFairness ==
    WF_vars(component = "router" /\ Tick) /\ \A w \in Waiters : WF_vars(Poll(w))
PageFairness == WF_listVars(component = "list" /\ Interval) /\ LoadFairness

WSpec ==
    /\ WInit /\ [][WNext]_<<component, vars, listVars, setupVars>>
    /\ RouterFairness /\ SetupFairness /\ PageFairness
=============================================================================
