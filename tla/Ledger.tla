------------------------------- MODULE Ledger -------------------------------
(***************************************************************************)
(* Totals over a set of token accounts.  A ledger is a function from       *)
(* account holders to amounts; its units are the pairs <<holder, i>> with  *)
(* i between 1 and the holder's amount, and its total is how many units    *)
(* there are.  Counting units, rather than folding "+" over the holders,   *)
(* makes the total a plain cardinality, so that the facts about finite     *)
(* sets suffice to prove what an update of one account does to it (module  *)
(* VaultProofs).                                                           *)
(***************************************************************************)
EXTENDS Integers, FiniteSets

Units(f) == UNION { {x} \X (1..f[x]) : x \in DOMAIN f }

Total(f) == Cardinality(Units(f))

(* The ledger f with an account k, new or old, that holds v. *)
SetAccount(f, k, v) ==
    [x \in DOMAIN f \cup {k} |-> IF x = k THEN v ELSE f[x]]
=============================================================================
