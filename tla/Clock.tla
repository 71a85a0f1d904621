-------------------------------- MODULE Clock --------------------------------
(***************************************************************************)
(* Date.now() for the components that watch a clock, up to a bound.        *)
(***************************************************************************)
EXTENDS Integers, Null

CONSTANT MaxTime    \* bound: the last time

ASSUME MaxTimeOK == MaxTime \in Nat

VARIABLE now

Tick == now < MaxTime /\ now' = now + 1
=============================================================================
