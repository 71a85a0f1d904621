---------------------------- MODULE MCRfqRouter ----------------------------
(***************************************************************************)
(* Small instances of the RFQ router for TLC.                              *)
(***************************************************************************)
EXTENDS RfqRouter, TLC

RouterSymmetry == Permutations(Makers) \cup Permutations(Connections)
=============================================================================
