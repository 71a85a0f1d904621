---------------------------- MODULE AdmissionLimit ----------------------------
(***************************************************************************)
(* What a rate limiter promises, however it counts: of one key's requests  *)
(* at most Limit[key] are admitted in any Window, and none before the time *)
(* until which the key is banned, unless an operator forgives the key.  A  *)
(* request is the time it was admitted and a serial number, for several    *)
(* can come at one time.                                                   *)
(***************************************************************************)
EXTENDS Integers, FiniteSets

CONSTANTS Keys, Window, Limit

VARIABLES now, admitted, banned

admissionVars == <<now, admitted, banned>>

Within(k) == {a \in admitted[k] : now - a.at < Window}

Init == now = 0 /\ admitted = [k \in Keys |-> {}] /\ banned = [k \in Keys |-> 0]

Admit(k) ==
    /\ now >= banned[k]
    /\ Cardinality(Within(k)) < Limit[k]
    /\ \E a \in admitted'[k] \ admitted[k] :
         a.at = now /\ admitted' = [admitted EXCEPT ![k] = @ \cup {a}]
    /\ UNCHANGED <<now, banned>>

Forgive(k) ==
    /\ admitted' = [admitted EXCEPT ![k] = {}]
    /\ banned' = [banned EXCEPT ![k] = 0]
    /\ UNCHANGED now

(* Whom it bans, until when, and whom it lets off is not said here. *)
Ban == UNCHANGED <<now, admitted>> /\ banned' \in [Keys -> Int]

Pass == now' > now /\ UNCHANGED <<admitted, banned>>

Next == Ban \/ Pass \/ \E k \in Keys : Admit(k) \/ Forgive(k)

Spec == Init /\ [][Next]_admissionVars
=============================================================================
