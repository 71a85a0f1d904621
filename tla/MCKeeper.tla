------------------------------ MODULE MCKeeper ------------------------------
(***************************************************************************)
(* Small instances of the keeper for TLC.                                  *)
(***************************************************************************)
EXTENDS Keeper, TLC

TaskSymmetry == Permutations(Tasks)
=============================================================================
