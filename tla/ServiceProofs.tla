----------------------------- MODULE ServiceProofs -----------------------------
(***************************************************************************)
(* Theorems about the components that stand alone: the web application's   *)
(* routes, the clients and the services beside the vault, each for any     *)
(* number of requests, calls or timers under way and any parameters.       *)
(***************************************************************************)
EXTENDS ApiRoutes, RfqClient, PriceSampler, MintRegistry, VaultSetup,
        WalletActivity, VaultTiming, SecurityMonitor, EventLog, Numbers,
        SequenceTheorems, FiniteSetTheorems

(* The routes that keep something, alone and from time 0.                  *)
RoutesSpec == RoutesInit /\ now = 0 /\ [][RoutesNext]_routeVars

RequestRecord == [kind : {"verify", "faucet", "done"}, user : Users \cup {None},
                  read : Nat \cup {None}, begun : Nat]
MintRecord == [user : Users, begun : Nat, done : Nat \cup {None}]

RoutesTypeOK ==
    /\ now \in Nat
    /\ code \in [is_active : BOOLEAN, used_count : Nat]
    /\ mintRequests \in [Users -> Nat \cup {None}]
    /\ request \in [Requests -> RequestRecord \cup {None}]
    /\ minted \subseteq MintRecord
    /\ \A r \in Requests : Under(r, "verify") => request[r].read \in Nat

(* Time has passed every beginning and every end there was.                *)
Past ==
    /\ \A r \in Requests : Under(r, "faucet") => request[r].user \in Users /\ request[r].begun <= now
    /\ \A m \in minted : m.begun <= now /\ (m.done # None => m.done <= now)

(* What was confirmed is recorded, or something later is.                  *)
Recorded ==
    \A m \in minted : m.done # None =>
        mintRequests[m.user] # None /\ mintRequests[m.user] >= m.done

(* A request under way that begins after a confirmed mint has passed the   *)
(* check against it.                                                       *)
Passed ==
    \A r \in Requests, m \in minted :
        Under(r, "faucet") /\ m.user = request[r].user /\ m.done # None /\ request[r].begun > m.done
            => request[r].begun >= m.done + Cooldown

RoutesInv == RoutesTypeOK /\ Past /\ Recorded /\ Passed /\ CooldownKept

LEMMA RoutesInitInv == RoutesInit /\ now = 0 => RoutesInv
  BY RoutesOK DEF RoutesInit, RoutesInv, RoutesTypeOK, Past, Recorded, Passed, CooldownKept, Under

(* Steps that neither begin nor end a request of the faucet.               *)
LEMMA RequestsKept ==
  ASSUME RoutesInv, UNCHANGED <<now, mintRequests, minted>>,
         request' \in [Requests -> RequestRecord \cup {None}],
         \A r \in Requests : request'[r] # None /\ request'[r].kind = "faucet"
             => request'[r] = request[r],
         \A r \in Requests : request'[r] # None /\ request'[r].kind = "verify"
             => request'[r].read \in Nat,
         code' \in [is_active : BOOLEAN, used_count : Nat]
  PROVE  RoutesInv'
  BY DEF RoutesInv, RoutesTypeOK, Past, Recorded, Passed, CooldownKept, Under

LEMMA NewIsOne ==
  ASSUME RoutesInv, NEW r \in Requests, NEW u \in Users, NEW kind \in {"verify", "faucet"},
         NEW goes \in BOOLEAN, NEW read \in Nat \cup {None}, New(r, goes, kind, u, read)
  PROVE  /\ request' \in [Requests -> RequestRecord \cup {None}]
         /\ \A s \in Requests \ {r} : request'[s] = request[s]
         /\ goes => request'[r] = [kind |-> kind, user |-> u, read |-> read, begun |-> now]
         /\ ~goes => request'[r] = Over
  BY DEF RoutesInv, RoutesTypeOK, New, Over, RequestRecord

LEMMA DoneIsOver ==
  ASSUME RoutesInv, NEW r \in Requests, Done(r)
  PROVE  /\ request' \in [Requests -> RequestRecord \cup {None}]
         /\ \A s \in Requests \ {r} : request'[s] = request[s]
         /\ request'[r] = Over /\ Over.kind = "done"
  BY DEF RoutesInv, RoutesTypeOK, Done, Over, RequestRecord

LEMMA VerifyInv ==
  ASSUME RoutesInv, NEW r \in Requests
  PROVE  /\ \A u \in Users : VerifyReads(r, u) => RoutesInv'
         /\ \A b \in BOOLEAN : VerifyGrants(r, b) => RoutesInv'
<1>1. ASSUME NEW u \in Users, VerifyReads(r, u) PROVE RoutesInv'
  <2>1. /\ code.used_count \in Nat
        /\ code \in [is_active : BOOLEAN, used_count : Nat]
    BY DEF RoutesInv, RoutesTypeOK
  <2> DEFINE goes == code.is_active /\ code.used_count < MaxUses
  <2>2. goes \in BOOLEAN
    BY <2>1
  <2>3. New(r, goes, "verify", u, code.used_count)
    BY <1>1 DEF VerifyReads
  <2> HIDE DEF goes
  <2>4. /\ request' \in [Requests -> RequestRecord \cup {None}]
        /\ \A s \in Requests \ {r} : request'[s] = request[s]
        /\ goes => request'[r] = [kind |-> "verify", user |-> u, read |-> code.used_count, begun |-> now]
        /\ ~goes => request'[r] = Over
    BY <2>1, <2>2, <2>3, NewIsOne
  <2>5. \A s \in Requests : Under(s, "verify") => request[s].read \in Nat
    BY DEF RoutesInv, RoutesTypeOK
  <2>6. \A s \in Requests : request'[s] # None /\ request'[s].kind = "faucet"
            => request'[s] = request[s]
    BY <2>4 DEF Over
  <2>7. \A s \in Requests : request'[s] # None /\ request'[s].kind = "verify"
            => request'[s].read \in Nat
    BY <2>1, <2>4, <2>5 DEF Over, Under
  <2>8. UNCHANGED <<now, mintRequests, minted>> /\ code' = code
    BY <1>1 DEF VerifyReads
  <2> QED
    BY <2>1, <2>4, <2>6, <2>7, <2>8, RequestsKept
<1>2. ASSUME NEW b \in BOOLEAN, VerifyGrants(r, b) PROVE RoutesInv'
  <2>1. /\ request' \in [Requests -> RequestRecord \cup {None}]
        /\ \A s \in Requests \ {r} : request'[s] = request[s]
        /\ request'[r] = Over /\ Over.kind = "done"
    BY <1>2, DoneIsOver DEF VerifyGrants
  <2>2. \A s \in Requests : Under(s, "verify") => request[s].read \in Nat
    BY DEF RoutesInv, RoutesTypeOK
  <2>3. code' \in [is_active : BOOLEAN, used_count : Nat]
    BY <1>2, <2>2 DEF VerifyGrants, RoutesInv, RoutesTypeOK
  <2>4. UNCHANGED <<now, mintRequests, minted>>
    BY <1>2 DEF VerifyGrants
  <2>5. \A s \in Requests : request'[s] # None /\ request'[s].kind = "faucet"
            => request'[s] = request[s]
    BY <2>1
  <2>6. \A s \in Requests : request'[s] # None /\ request'[s].kind = "verify"
            => request'[s].read \in Nat
    BY <2>1, <2>2 DEF Under
  <2> QED
    BY <2>1, <2>3, <2>4, <2>5, <2>6, RequestsKept
<1> QED
  BY <1>1, <1>2

(* A request of the faucet begins: the record it looked at is no older     *)
(* than any confirmed mint.                                                *)
LEMMA FaucetChecksInv ==
  ASSUME RoutesInv, NEW r \in Requests, NEW u \in Users, FaucetChecks(r, u)
  PROVE  RoutesInv'
<1> DEFINE goes == mintRequests[u] = None \/ now - mintRequests[u] >= Cooldown
<1>1. mintRequests[u] \in Nat \cup {None} /\ now \in Nat
  BY DEF RoutesInv, RoutesTypeOK
<1>2. goes \in BOOLEAN
  OBVIOUS
<1>3. New(r, goes, "faucet", u, None)
  BY DEF FaucetChecks
<1>4. UNCHANGED <<now, code, mintRequests, minted>>
  BY DEF FaucetChecks
<1> HIDE DEF goes
<1>5. /\ request' \in [Requests -> RequestRecord \cup {None}]
      /\ \A s \in Requests \ {r} : request'[s] = request[s]
      /\ goes => request'[r] = [kind |-> "faucet", user |-> u, read |-> None, begun |-> now]
      /\ ~goes => request'[r] = Over
  BY <1>2, <1>3, NewIsOne
<1>6. RoutesTypeOK'
  BY <1>4, <1>5 DEF RoutesInv, RoutesTypeOK, Under, Over
<1>7. Past'
  BY <1>1, <1>4, <1>5 DEF RoutesInv, Past, Under, Over
<1>8. Recorded' /\ CooldownKept'
  BY <1>4 DEF RoutesInv, Recorded, CooldownKept
<1>9. Passed'
  <2> SUFFICES ASSUME NEW s \in Requests, NEW m \in minted, Under(s, "faucet")',
                      m.user = request'[s].user, m.done # None, request'[s].begun > m.done
               PROVE  request'[s].begun >= m.done + Cooldown
    BY <1>4 DEF Passed, Under
  <2>1. CASE s # r
    BY <2>1, <1>5 DEF RoutesInv, Passed, Under
  <2>2. CASE s = r
    <3>1. goes /\ request'[r].begun = now /\ request'[r].user = u
      BY <2>2, <1>5 DEF Under, Over
    <3>2. m.done \in Nat
      BY DEF RoutesInv, RoutesTypeOK, MintRecord
    <3>3. mintRequests[u] \in Nat /\ mintRequests[u] >= m.done
      BY <1>1, <2>2, <3>1 DEF RoutesInv, Recorded
    <3>4. now - mintRequests[u] >= Cooldown
      BY <3>1, <3>3, RoutesOK DEF goes
    <3> QED
      BY <1>1, <2>2, <3>1, <3>2, <3>3, <3>4, RoutesOK
  <2> QED
    BY <2>1, <2>2
<1> QED
  BY <1>6, <1>7, <1>8, <1>9 DEF RoutesInv

(* The mint is confirmed now, after whatever is under way began.           *)
LEMMA FaucetMintsInv ==
  ASSUME RoutesInv, NEW r \in Requests, FaucetMints(r)
  PROVE  RoutesInv'
<1> DEFINE u == request[r].user
           n == [user |-> u, begun |-> request[r].begun, done |-> now]
<1>1. u \in Users /\ request[r].begun \in Nat /\ request[r].begun <= now /\ now \in Nat
  BY DEF FaucetMints, RoutesInv, RoutesTypeOK, Past, Under, RequestRecord
<1>2. /\ request' \in [Requests -> RequestRecord \cup {None}]
      /\ \A s \in Requests \ {r} : request'[s] = request[s]
      /\ request'[r] = Over /\ Over.kind = "done"
  BY DoneIsOver DEF FaucetMints
<1>3. UNCHANGED <<now, code>> /\ Under(r, "faucet")
  BY DEF FaucetMints
<1>4. minted' = minted \cup {n} /\ n \in MintRecord
  BY <1>1 DEF FaucetMints, MintRecord
<1>5. /\ n.user = u /\ n.begun = request[r].begun /\ n.done = now
  OBVIOUS
<1>6. /\ mintRequests' \in [Users -> Nat \cup {None}]
      /\ mintRequests'[u] = now
      /\ \A v \in Users \ {u} : mintRequests'[v] = mintRequests[v]
  BY <1>1 DEF FaucetMints, RoutesInv, RoutesTypeOK
<1> HIDE DEF n, u
<1>7. RoutesTypeOK'
  BY <1>2, <1>3, <1>4, <1>6 DEF RoutesInv, RoutesTypeOK, Under
<1>8. \A m \in minted : m \in MintRecord
  BY DEF RoutesInv, RoutesTypeOK
<1>9. Past'
  BY <1>1, <1>2, <1>3, <1>4, <1>5 DEF RoutesInv, Past, Under
<1>10. Recorded'
  <2>1. \A m \in minted : m.user \in Users /\ (m.done # None => m.done <= now)
    BY <1>8 DEF MintRecord, RoutesInv, Past
  <2> QED
    BY <1>1, <1>4, <1>5, <1>6, <2>1, RoutesOK DEF RoutesInv, Recorded
<1>11. Passed'
  <2>1. \A s \in Requests : Under(s, "faucet")' => Under(s, "faucet") /\ request'[s] = request[s]
    BY <1>2 DEF Under
  <2>2. \A s \in Requests : Under(s, "faucet") => request[s].begun <= now /\ request[s].begun \in Nat
    BY DEF RoutesInv, Past, RoutesTypeOK, RequestRecord, Under
  <2> QED
    BY <1>1, <1>4, <1>5, <2>1, <2>2 DEF RoutesInv, Passed
<1>12. CooldownKept'
  <2>1. \A m \in minted : m.user = u /\ m.done # None /\ n.begun > m.done
            => n.begun >= m.done + Cooldown
    BY <1>3, <1>5 DEF RoutesInv, Passed, u
  <2>2. \A m \in minted \cup {n} : ~(m.begun > now)
    BY <1>1, <1>5, <1>8 DEF RoutesInv, Past, MintRecord
  <2> QED
    BY <1>4, <1>5, <2>1, <2>2 DEF RoutesInv, CooldownKept
<1> QED
  BY <1>7, <1>9, <1>10, <1>11, <1>12 DEF RoutesInv

(* A mint whose confirmation is lost is not recorded, and binds nobody.    *)
LEMMA FaucetThrowsInv ==
  ASSUME RoutesInv, NEW r \in Requests, NEW landed \in BOOLEAN, FaucetThrows(r, landed)
  PROVE  RoutesInv'
<1> DEFINE u == request[r].user
           n == [user |-> u, begun |-> request[r].begun, done |-> None]
<1>1. u \in Users /\ request[r].begun \in Nat /\ request[r].begun <= now /\ now \in Nat
  BY DEF FaucetThrows, RoutesInv, RoutesTypeOK, Past, Under, RequestRecord
<1>2. /\ request' \in [Requests -> RequestRecord \cup {None}]
      /\ \A s \in Requests \ {r} : request'[s] = request[s]
      /\ request'[r] = Over /\ Over.kind = "done"
  BY DoneIsOver DEF FaucetThrows
<1>3. UNCHANGED <<now, code, mintRequests>> /\ Under(r, "faucet")
  BY DEF FaucetThrows
<1>4. minted' \subseteq minted \cup {n} /\ n \in MintRecord
  BY <1>1 DEF FaucetThrows, MintRecord
<1>5. /\ n.user = u /\ n.begun = request[r].begun /\ n.done = None
  OBVIOUS
<1> HIDE DEF n, u
<1>6. RoutesTypeOK'
  BY <1>2, <1>3, <1>4 DEF RoutesInv, RoutesTypeOK, Under
<1>7. Past' /\ Recorded' /\ Passed'
  BY <1>1, <1>2, <1>3, <1>4, <1>5 DEF RoutesInv, Past, Recorded, Passed, Under
<1>8. CooldownKept'
  <2>1. \A m \in minted : m.user = u /\ m.done # None /\ n.begun > m.done
            => n.begun >= m.done + Cooldown
    BY <1>3, <1>5 DEF RoutesInv, Passed, u
  <2> QED
    BY <1>4, <1>5, <2>1 DEF RoutesInv, CooldownKept
<1> QED
  BY <1>6, <1>7, <1>8 DEF RoutesInv

LEMMA RestartInv == RoutesInv /\ Restart => RoutesInv'
<1> SUFFICES ASSUME RoutesInv, Restart PROVE RoutesInv'
  OBVIOUS
<1>1. now' = now /\ code' = code
  BY DEF Restart
<1>2. mintRequests' \in [Users -> Nat \cup {None}]
  BY DEF Restart
<1>3. \A r \in Requests : request'[r] = None \/ request'[r] = Over
  BY DEF Restart
<1>4. request' \in [Requests -> RequestRecord \cup {None}]
  BY DEF Restart, Over, RequestRecord
<1>5. \A m \in minted' : m \in MintRecord /\ m.done = None /\ m.begun <= now
  <2> SUFFICES ASSUME NEW k \in minted, NEW m, m = [k EXCEPT !.done = None]
               PROVE  m \in MintRecord /\ m.done = None /\ m.begun <= now
    BY DEF Restart
  <2> QED
    BY DEF RoutesInv, RoutesTypeOK, Past, MintRecord
<1>6. \A r \in Requests : ~Under(r, "faucet")' /\ ~Under(r, "verify")'
  BY <1>3 DEF Under, Over
<1> QED
  BY <1>1, <1>2, <1>4, <1>5, <1>6
  DEF RoutesInv, RoutesTypeOK, Past, Recorded, Passed, CooldownKept

LEMMA OthersInv ==
  ASSUME RoutesInv
  PROVE  /\ RoutesTick => RoutesInv'
         /\ Deactivate => RoutesInv'
         /\ \A u \in Users : Logout(u) => RoutesInv'
         /\ \A u \in Users, fails \in BOOLEAN : Subscribe(u, fails) => RoutesInv'
<1>1. ASSUME RoutesTick PROVE RoutesInv'
  <2>1. now \in Nat /\ now' = now + 1 /\ UNCHANGED <<code, mintRequests, request, minted>>
    BY <1>1 DEF RoutesTick, Tick, RoutesInv, RoutesTypeOK
  <2>2. RoutesTypeOK' /\ Recorded' /\ Passed' /\ CooldownKept'
    BY <2>1 DEF RoutesInv, RoutesTypeOK, Recorded, Passed, CooldownKept, Under
  <2>3. /\ \A m \in minted : m.begun \in Nat /\ (m.done # None => m.done \in Nat)
        /\ \A r \in Requests : Under(r, "faucet") => request[r].begun \in Nat
    BY DEF RoutesInv, RoutesTypeOK, MintRecord, RequestRecord, Under
  <2>4. Past'
    BY <2>1, <2>3 DEF RoutesInv, Past, Under
  <2> QED
    BY <2>2, <2>4 DEF RoutesInv
<1>2. ASSUME Deactivate \/ UNCHANGED <<now, code, mintRequests, request, minted>> PROVE RoutesInv'
  <2>1. UNCHANGED <<now, mintRequests, minted>> /\ request' = request
    BY <1>2 DEF Deactivate
  <2>2. code' \in [is_active : BOOLEAN, used_count : Nat]
    BY <1>2 DEF Deactivate, RoutesInv, RoutesTypeOK
  <2>3. request' \in [Requests -> RequestRecord \cup {None}]
    BY <2>1 DEF RoutesInv, RoutesTypeOK
  <2>4. \A r \in Requests : request'[r] # None /\ request'[r].kind = "verify"
            => request'[r].read \in Nat
    BY <2>1 DEF RoutesInv, RoutesTypeOK, Under
  <2> QED
    BY <2>1, <2>2, <2>3, <2>4, RequestsKept
<1> QED
  BY <1>1, <1>2 DEF Logout, Subscribe

LEMMA RoutesNextInv == RoutesInv /\ [RoutesNext]_routeVars => RoutesInv'
<1> SUFFICES ASSUME RoutesInv, [RoutesNext]_routeVars PROVE RoutesInv'
  OBVIOUS
<1>1. CASE RoutesNext
  BY <1>1, VerifyInv, FaucetChecksInv, FaucetMintsInv, FaucetThrowsInv, RestartInv, OthersInv
  DEF RoutesNext
<1>2. CASE UNCHANGED routeVars
  BY <1>2 DEF routeVars, RoutesInv, RoutesTypeOK, Past, Recorded, Passed, CooldownKept, Under
<1> QED
  BY <1>1, <1>2

(* The faucet (faucet/route.ts): a confirmed mint keeps every request that *)
(* comes later away until the cooldown is over, for any number of requests *)
(* under way, of users and of restarts.                                    *)
THEOREM CooldownHolds == RoutesSpec => []CooldownKept
<1>1. RoutesInv => CooldownKept
  BY DEF RoutesInv
<1> QED
  BY RoutesInitInv, RoutesNextInv, <1>1, PTL DEF RoutesSpec

-----------------------------------------------------------------------------
(* The registry of mints. *)

RegistrySpec == RegistryInit /\ now = 0 /\ [][RegistryNext]_registryVars

Tiers4 == {"trusted", "suspicious", "standard", "banned"}
MintEntry == [tier : Tiers4, lastVerified : Nat \cup {None}]

(* A mint that is banned has an entry that says so, and an entry that a    *)
(* refresh goes on with is still in the map.                               *)
RegistryInv ==
    /\ now \in Nat
    /\ whitelistedMints \in [Mints -> MintEntry \cup {None}]
    /\ answer = [v \in Callers |-> answer[v]]
    /\ validation = [v \in Callers |-> validation[v]]
    /\ \A m \in ban : m \in Mints => Entry(m) \in MintEntry /\ Entry(m).tier = "banned"
    /\ \A v \in Callers : validation[v] # None =>
         /\ validation[v] = [mint |-> validation[v].mint, held |-> validation[v].held]
         /\ validation[v].mint \in Mints
         /\ validation[v].held # None => Entry(validation[v].mint) \in MintEntry

SeesBan == \A v \in Callers :
    answer'[v] # answer[v] /\ answer'[v] # None /\ answer'[v].valid /\ answer'[v].held = "entry" =>
        answer'[v].mint \notin ban

LEMMA RegistryInitInv == RegistryInit /\ now = 0 => RegistryInv
<1> SUFFICES ASSUME RegistryInit, now = 0 PROVE RegistryInv
  OBVIOUS
<1>1. whitelistedMints \in [Mints -> MintEntry \cup {None}]
  BY DEF RegistryInit, MintEntry, Tiers4
<1> QED
  BY <1>1 DEF RegistryInit, RegistryInv

(* The entries of the mints change, all but by losing one.                 *)
LEMMA EntriesGrow ==
  ASSUME RegistryInv, now' \in Nat,
         whitelistedMints' \in [Mints -> MintEntry \cup {None}],
         \A m \in Mints : Entry(m) \in MintEntry => whitelistedMints'[m] \in MintEntry,
         \A m \in ban' : m \in Mints => whitelistedMints'[m] \in MintEntry /\ whitelistedMints'[m].tier = "banned",
         answer' = [v \in Callers |-> answer'[v]],
         validation' = [v \in Callers |-> validation'[v]],
         \A v \in Callers : validation'[v] # None =>
           /\ validation'[v] = [mint |-> validation'[v].mint, held |-> validation'[v].held]
           /\ validation'[v].mint \in Mints
           /\ validation'[v].held # None =>
                \/ /\ validation[v] # None /\ validation[v].held # None
                   /\ validation'[v].mint = validation[v].mint
                \/ whitelistedMints'[validation'[v].mint] \in MintEntry
  PROVE  RegistryInv'
BY DEF RegistryInv, Entry

LEMMA SaidOne ==
  ASSUME RegistryInv, NEW v \in Callers, NEW m, NEW valid, NEW held, Said(v, m, valid, held)
  PROVE  /\ answer' = [u \in Callers |-> answer'[u]]
         /\ \A u \in Callers \ {v} : answer'[u] = answer[u]
         /\ answer'[v] = [mint |-> m, valid |-> valid, held |-> held]
  BY DEF RegistryInv, Said

LEMMA ValidateStep ==
  ASSUME RegistryInv, NEW v \in Callers, NEW m \in Mints, Validate(v, m)
  PROVE  RegistryInv' /\ SeesBan
<1>1. UNCHANGED <<now, whitelistedMints, ban>>
  BY DEF Validate
<1>2. CASE validation' = validation /\ \E b \in BOOLEAN :
             Said(v, m, b, "entry") /\ (b => Entry(m) # None /\ Entry(m).tier # "banned")
  <2>1. PICK b \in BOOLEAN :
             Said(v, m, b, "entry") /\ (b => Entry(m) # None /\ Entry(m).tier # "banned")
    BY <1>2
  <2>2. /\ answer' = [u \in Callers |-> answer'[u]]
        /\ \A u \in Callers \ {v} : answer'[u] = answer[u]
        /\ answer'[v] = [mint |-> m, valid |-> b, held |-> "entry"]
    BY <2>1, SaidOne
  <2>3. SeesBan
    BY <2>1, <2>2 DEF SeesBan, RegistryInv
  <2>4. RegistryInv'
    BY <1>1, <1>2, <2>2 DEF RegistryInv, Entry
  <2> QED
    BY <2>3, <2>4
<1>3. CASE /\ validation' = [validation EXCEPT ![v] =
                  [mint |-> m, held |-> IF Entry(m) = None THEN None ELSE "entry"]]
           /\ answer' = [answer EXCEPT ![v] = None]
  <2>1. SeesBan
    BY <1>3 DEF SeesBan, RegistryInv
  <2>2. RegistryInv'
    <3> DEFINE n == [mint |-> m, held |-> IF Entry(m) = None THEN None ELSE "entry"]
    <3>1. n = [mint |-> n.mint, held |-> n.held] /\ n.mint = m
          /\ (n.held # None => Entry(m) \in MintEntry)
      BY DEF RegistryInv, Entry
    <3>2. validation' = [validation EXCEPT ![v] = n]
      BY <1>3
    <3> HIDE DEF n
    <3> QED
      BY <1>1, <1>3, <3>1, <3>2 DEF RegistryInv, Entry
  <2> QED
    BY <2>1, <2>2
<1> QED
  BY <1>2, <1>3 DEF Validate, RegistryInv

(* Detached entries are those of mints that have one.                      *)
LEMMA DetachedKept ==
  ASSUME RegistryInv, NEW m \in Mints, NEW v \in Callers, Detached(m)[v] # None
  PROVE  /\ Detached(m)[v] = [mint |-> Detached(m)[v].mint, held |-> Detached(m)[v].held]
         /\ Detached(m)[v].mint \in Mints
         /\ Detached(m)[v].held # None =>
              /\ validation[v] # None /\ validation[v].held # None
              /\ Detached(m)[v].mint = validation[v].mint
<1> DEFINE d == Detached(m)[v]
           p == validation[v]
<1>1. CASE p # None /\ p.mint = m /\ p.held = "entry"
  <2>1. d = [p EXCEPT !.held = Entry(m).tier] /\ p = [mint |-> p.mint, held |-> p.held]
        /\ p.mint \in Mints /\ p.held # None
    BY <1>1, RegistryOK DEF RegistryInv, Detached
  <2> HIDE DEF d, p
  <2>2. d = [mint |-> p.mint, held |-> Entry(m).tier]
    BY <2>1
  <2> QED
    BY <1>1, <2>1, <2>2 DEF d, p
<1>2. CASE ~(p # None /\ p.mint = m /\ p.held = "entry")
  <2>1. d = p
    BY <1>2 DEF Detached
  <2> QED
    BY <2>1 DEF RegistryInv
<1> QED
  BY <1>1, <1>2

LEMMA ReplaceStep ==
  ASSUME RegistryInv, NEW m \in Mints, NEW e \in MintEntry, Replace(m, e),
         UNCHANGED now, answer' = [v \in Callers |-> answer'[v]], ban' = ban \ {m}
  PROVE  RegistryInv'
<1>1. whitelistedMints' = [whitelistedMints EXCEPT ![m] = e] /\ validation' = Detached(m)
  BY DEF Replace
<1>2. /\ whitelistedMints' \in [Mints -> MintEntry \cup {None}]
      /\ whitelistedMints'[m] = e /\ \A n \in Mints \ {m} : whitelistedMints'[n] = Entry(n)
  BY <1>1 DEF RegistryInv, Entry
<1>3. validation' = [v \in Callers |-> validation'[v]]
  BY <1>1 DEF Detached
<1>4. ASSUME NEW v \in Callers, validation'[v] # None
      PROVE  /\ validation'[v] = [mint |-> validation'[v].mint, held |-> validation'[v].held]
             /\ validation'[v].mint \in Mints
             /\ validation'[v].held # None =>
                  /\ validation[v] # None /\ validation[v].held # None
                  /\ validation'[v].mint = validation[v].mint
  BY <1>1, <1>4, DetachedKept DEF RegistryInv, Entry
<1>5. \A n \in ban' : n \in Mints => whitelistedMints'[n] \in MintEntry /\ whitelistedMints'[n].tier = "banned"
  BY <1>2 DEF RegistryInv
<1> QED
  BY <1>2, <1>3, <1>4, <1>5, EntriesGrow DEF RegistryInv

LEMMA ClassifyStep ==
  ASSUME RegistryInv, NEW v \in Callers, NEW o \in {"unreadable", "suspicious", "standard"},
         Classify(v, o)
  PROVE  RegistryInv' /\ SeesBan
<1> DEFINE m == validation[v].mint
<1>1. /\ answer' = [u \in Callers |-> answer'[u]]
      /\ \A u \in Callers \ {v} : answer'[u] = answer[u]
      /\ answer'[v] = [mint |-> m, valid |-> o = "standard", held |-> None]
  BY SaidOne DEF Classify
<1>2. SeesBan
  BY <1>1, RegistryOK DEF SeesBan
<1>3. m \in Mints /\ now' = now
  BY DEF Classify, Waiting, RegistryInv
<1>4. CASE o = "unreadable"
  <2>1. validation' = [validation EXCEPT ![v] = None] /\ UNCHANGED <<whitelistedMints, ban>>
    BY <1>4 DEF Classify
  <2> QED
    BY <1>1, <1>2, <1>3, <2>1 DEF RegistryInv, Entry
<1>5. CASE o # "unreadable"
  <2> DEFINE e == [tier |-> o, lastVerified |-> now]
  <2>1. e \in MintEntry
    BY <1>5 DEF MintEntry, Tiers4, RegistryInv
  <2>2. /\ whitelistedMints' = [whitelistedMints EXCEPT ![m] = e]
        /\ validation' = [Detached(m) EXCEPT ![v] = None]
        /\ ban' = ban \ {m}
    BY <1>5 DEF Classify
  <2> HIDE DEF e
  <2>3. /\ whitelistedMints' \in [Mints -> MintEntry \cup {None}]
        /\ whitelistedMints'[m] = e /\ \A n \in Mints \ {m} : whitelistedMints'[n] = Entry(n)
    BY <1>3, <2>1, <2>2 DEF RegistryInv, Entry
  <2>4. /\ validation' = [u \in Callers |-> validation'[u]] /\ validation'[v] = None
        /\ \A u \in Callers \ {v} : validation'[u] = Detached(m)[u]
    BY <2>2 DEF Detached
  <2>5. ASSUME NEW u \in Callers, validation'[u] # None
        PROVE  /\ validation'[u] = [mint |-> validation'[u].mint, held |-> validation'[u].held]
               /\ validation'[u].mint \in Mints
               /\ validation'[u].held # None =>
                    /\ validation[u] # None /\ validation[u].held # None
                    /\ validation'[u].mint = validation[u].mint
    <3>1. validation'[u] = Detached(m)[u]
      BY <2>4, <2>5
    <3> QED
      BY <1>3, <2>5, <3>1, DetachedKept
  <2>6. \A n \in ban' : n \in Mints => whitelistedMints'[n] \in MintEntry /\ whitelistedMints'[n].tier = "banned"
    BY <2>2, <2>3 DEF RegistryInv
  <2>7. \A n \in Mints : Entry(n) \in MintEntry => whitelistedMints'[n] \in MintEntry
    BY <2>1, <2>3
  <2>8. now' \in Nat
    BY <1>3 DEF RegistryInv
  <2> QED
    BY <1>1, <1>2, <2>3, <2>4, <2>5, <2>6, <2>7, <2>8, EntriesGrow
<1> QED
  BY <1>4, <1>5

LEMMA RefreshedStep ==
  ASSUME RegistryInv, NEW v \in Callers, NEW read \in BOOLEAN, Refreshed(v, read)
  PROVE  RegistryInv' /\ SeesBan
<1> DEFINE m    == validation[v].mint
           held == validation[v].held
           tier == IF held = "entry" THEN Entry(m).tier ELSE held
<1>1. /\ answer' = [u \in Callers |-> answer'[u]]
      /\ \A u \in Callers \ {v} : answer'[u] = answer[u]
      /\ answer'[v] = [mint |-> m, valid |-> tier # "banned", held |-> held]
  BY SaidOne DEF Refreshed
<1>2. m \in Mints /\ Entry(m) \in MintEntry /\ UNCHANGED <<now, ban>>
      /\ validation' = [validation EXCEPT ![v] = None]
  <2>1. validation[v] # None /\ held # None
    BY DEF Refreshed, Waiting
  <2> QED
    BY <2>1 DEF Refreshed, RegistryInv
<1>3. SeesBan
  <2> SUFFICES ASSUME NEW u \in Callers, answer'[u] # answer[u], answer'[u].valid,
                      answer'[u].held = "entry"
               PROVE  answer'[u].mint \notin ban
    BY DEF SeesBan
  <2>1. u = v /\ held = "entry" /\ answer'[u].mint = m
    BY <1>1
  <2> DEFINE ok == tier # "banned"
  <2>2. answer'[v] = [mint |-> m, valid |-> ok, held |-> held]
    BY <1>1
  <2> HIDE DEF ok
  <2>3. ok
    BY <2>1, <2>2
  <2>4. Entry(m).tier # "banned"
    BY <2>1, <2>3 DEF ok
  <2> QED
    BY <1>2, <2>1, <2>4 DEF RegistryInv
<1>4. /\ whitelistedMints' \in [Mints -> MintEntry \cup {None}]
      /\ whitelistedMints'[m] \in MintEntry /\ whitelistedMints'[m].tier = Entry(m).tier
      /\ \A n \in Mints \ {m} : whitelistedMints'[n] = Entry(n)
  BY <1>2 DEF Refreshed, RegistryInv, MintEntry, Entry
<1>5. RegistryInv'
  BY <1>1, <1>2, <1>4 DEF RegistryInv, Entry
<1> QED
  BY <1>3, <1>5

LEMMA BanStep ==
  ASSUME RegistryInv, NEW m \in Mints, BanMint(m) \/ UnbanMint(m)
  PROVE  RegistryInv'
<1>1. UNCHANGED <<now, validation, answer>>
  BY DEF BanMint, UnbanMint
<1>2. /\ whitelistedMints' \in [Mints -> MintEntry \cup {None}]
      /\ Entry(m) \in MintEntry => whitelistedMints'[m] \in MintEntry
      /\ \A n \in Mints \ {m} : whitelistedMints'[n] = Entry(n)
  BY DEF BanMint, UnbanMint, RegistryInv, Entry, MintEntry, Tiers4
<1>3. CASE BanMint(m)
  <2>1. whitelistedMints'[m] \in MintEntry /\ whitelistedMints'[m].tier = "banned" /\ ban' = ban \cup {m}
    BY <1>3 DEF BanMint, RegistryInv, Entry, MintEntry, Tiers4
  <2> QED
    BY <1>1, <1>2, <2>1 DEF RegistryInv, Entry
<1>4. CASE UnbanMint(m)
  <2>1. ban' = ban \ {m}
    BY <1>4 DEF UnbanMint
  <2> QED
    BY <1>1, <1>2, <2>1 DEF RegistryInv, Entry
<1> QED
  BY <1>3, <1>4

LEMMA RegistryStep == RegistryInv /\ [RegistryNext]_registryVars => RegistryInv' /\ SeesBan
<1> SUFFICES ASSUME RegistryInv, [RegistryNext]_registryVars PROVE RegistryInv' /\ SeesBan
  OBVIOUS
<1>1. ASSUME NEW v \in Callers, NEW m \in Mints, Validate(v, m) PROVE RegistryInv' /\ SeesBan
  BY <1>1, ValidateStep
<1>2. ASSUME NEW v \in Callers, NEW o \in Outcomes, Classify(v, o)
      PROVE  RegistryInv' /\ SeesBan
  <2>1. o \in {"unreadable", "suspicious", "standard"}
    BY DEF Outcomes, ClassifyMint
  <2> QED
    BY <1>2, <2>1, ClassifyStep
<1>3. ASSUME NEW v \in Callers, NEW read \in BOOLEAN, Refreshed(v, read)
      PROVE  RegistryInv' /\ SeesBan
  BY <1>3, RefreshedStep
<1>4. ASSUME NEW m \in Mints, BanMint(m) \/ UnbanMint(m) PROVE RegistryInv' /\ SeesBan
  BY <1>4, BanStep DEF BanMint, UnbanMint, SeesBan
<1>5. ASSUME NEW m \in Mints, NEW tier \in OperatorTiers,
             AddMint(m, tier) \/ \E b \in SUBSET Mints : ImportRegistry(m, tier, b)
      PROVE  RegistryInv' /\ SeesBan
  <2> DEFINE e == [tier |-> tier, lastVerified |-> None]
  <2>1. e \in MintEntry
    BY DEF MintEntry, Tiers4, OperatorTiers
  <2>2. Replace(m, e) /\ UNCHANGED <<now, answer>> /\ ban' = ban \ {m}
    BY <1>5 DEF AddMint, ImportRegistry
  <2> HIDE DEF e
  <2>3. answer' = [v \in Callers |-> answer'[v]]
    BY <2>2 DEF RegistryInv
  <2> QED
    BY <2>1, <2>2, <2>3, ReplaceStep DEF SeesBan
<1>6. CASE RegistryTick
  BY <1>6 DEF RegistryTick, Tick, RegistryInv, SeesBan, Entry
<1>7. CASE UNCHANGED registryVars
  BY <1>7 DEF registryVars, RegistryInv, SeesBan, Entry
<1> QED
  BY <1>1, <1>2, <1>3, <1>4, <1>5, <1>6, <1>7 DEF RegistryNext

(* The registry (mint-registry.ts): a ban is seen by validations that took *)
(* the entry before it, for any callers, mints and outcomes under way.     *)
THEOREM BansAlwaysSeen == RegistrySpec => BanSeen
<1>1. RegistryInv /\ [RegistryNext]_registryVars => [SeesBan]_registryVars
  BY RegistryStep
<1>2. RegistryInv /\ [RegistryNext]_registryVars => RegistryInv'
  BY RegistryStep
<1> QED
  BY <1>1, <1>2, RegistryInitInv, PTL DEF RegistrySpec, BanSeen, SeesBan

-----------------------------------------------------------------------------
(* The SDK's client. *)

TradeSpec == ClientInit /\ [][ClientNext]_clientVars

ExecutionRecord == [rfq : Rfqs, quote : Quotes,
                    step : {"building", "sent", "processed", "done"}]

Trade(x) == [rfq |-> execution[x].rfq, quote |-> execution[x].quote]

(* An execution is of a request that is kept, and one that the chain has   *)
(* processed is there; what is filled by an execution stays filled.        *)
TradeInv ==
    /\ activeRFQs \in [Rfqs -> RfqRecord \cup {None}]
    /\ execution \in [Executions -> ExecutionRecord \cup {None}]
    /\ \A x \in Executions : execution[x] # None =>
         /\ activeRFQs[execution[x].rfq] \in RfqRecord
         /\ execution[x].quote \in activeRFQs[execution[x].rfq].quotes
         /\ execution[x].step = "processed" => Trade(x) \in onChain
    /\ FillProcessed

LEMMA TradeInitInv == ClientInit => TradeInv
  BY DEF ClientInit, TradeInv, FillProcessed

(* One request changes.                                                    *)
LEMMA RfqStep ==
  ASSUME TradeInv, NEW r \in Rfqs, NEW a \in RfqRecord,
         activeRFQs' = [activeRFQs EXCEPT ![r] = a], UNCHANGED <<execution, onChain>>,
         activeRFQs[r] # None => activeRFQs[r].quotes \subseteq a.quotes,
         a.fill # None => a.fill \in a.quotes,
         a.fill # None => a.status = "filled" /\ [rfq |-> r, quote |-> a.fill] \in onChain
  PROVE  TradeInv'
<1>1. /\ activeRFQs'[r] = a /\ activeRFQs' \in [Rfqs -> RfqRecord \cup {None}]
      /\ \A s \in Rfqs \ {r} : activeRFQs'[s] = activeRFQs[s]
  BY DEF TradeInv
<1>2. FillProcessed'
  BY <1>1 DEF TradeInv, FillProcessed
<1>3. ASSUME NEW x \in Executions, execution[x] # None
      PROVE  /\ activeRFQs'[execution[x].rfq] \in RfqRecord
             /\ execution[x].quote \in activeRFQs'[execution[x].rfq].quotes
  <2>1. /\ execution[x].rfq \in Rfqs /\ activeRFQs[execution[x].rfq] \in RfqRecord
        /\ execution[x].quote \in activeRFQs[execution[x].rfq].quotes
    BY <1>3 DEF TradeInv, ExecutionRecord
  <2>2. CASE execution[x].rfq = r
    <3>1. activeRFQs[r] # None
      BY <2>1, <2>2, ClientOK DEF ClientOK
    <3> QED BY <1>1, <2>1, <2>2, <3>1
  <2>3. CASE execution[x].rfq # r
    BY <1>1, <2>1, <2>3
  <2> QED BY <2>2, <2>3
<1> QED
  BY <1>1, <1>2, <1>3 DEF TradeInv, Trade

(* One execution changes.                                                  *)
LEMMA ExecutionStep ==
  ASSUME TradeInv, NEW x \in Executions, NEW e \in ExecutionRecord,
         execution' = [execution EXCEPT ![x] = e], UNCHANGED activeRFQs,
         onChain \subseteq onChain', activeRFQs[e.rfq] \in RfqRecord,
         e.quote \in activeRFQs[e.rfq].quotes,
         e.step = "processed" => [rfq |-> e.rfq, quote |-> e.quote] \in onChain'
  PROVE  TradeInv'
  BY DEF TradeInv, FillProcessed, Trade

LEMMA RequestStepInv ==
  ASSUME TradeInv, NEW r \in Rfqs
  PROVE  /\ CreateRFQ(r) => TradeInv'
         /\ FillReceived(r) => TradeInv'
         /\ CancelRFQ(r) => TradeInv'
         /\ \A q \in Quotes : QuoteReceived(r, q) => TradeInv'
<1>1. ASSUME CreateRFQ(r) PROVE TradeInv'
  <2> DEFINE a == [status |-> "open", quotes |-> {}, fill |-> None]
  <2>1. a \in RfqRecord /\ a.fill = None
    BY DEF RfqRecord
  <2>2. /\ activeRFQs' = [activeRFQs EXCEPT ![r] = a] /\ UNCHANGED <<execution, onChain>>
        /\ activeRFQs[r] = None
    BY <1>1 DEF CreateRFQ
  <2> HIDE DEF a
  <2> QED
    BY <2>1, <2>2, RfqStep
<1>2. ASSUME FillReceived(r) PROVE TradeInv'
  <2> DEFINE a == [activeRFQs[r] EXCEPT !.status = "filled"]
  <2>1. a \in RfqRecord /\ a.fill = activeRFQs[r].fill /\ a.status = "filled"
        /\ a.quotes = activeRFQs[r].quotes
    BY <1>2 DEF FillReceived, TradeInv, RfqRecord
  <2>2. activeRFQs' = [activeRFQs EXCEPT ![r] = a] /\ UNCHANGED <<execution, onChain>>
    BY <1>2 DEF FillReceived
  <2>3. activeRFQs[r].fill # None =>
           activeRFQs[r].fill \in activeRFQs[r].quotes /\ [rfq |-> r, quote |-> activeRFQs[r].fill] \in onChain
    BY <1>2 DEF FillReceived, TradeInv, FillProcessed
  <2> HIDE DEF a
  <2> QED
    BY <2>1, <2>2, <2>3, RfqStep
<1>3. ASSUME CancelRFQ(r) PROVE TradeInv'
  <2> DEFINE a == [activeRFQs[r] EXCEPT !.status = "cancelled"]
  <2>1. a \in RfqRecord /\ a.fill = activeRFQs[r].fill /\ a.quotes = activeRFQs[r].quotes
    BY <1>3 DEF CancelRFQ, TradeInv, RfqRecord
  <2>2. activeRFQs' = [activeRFQs EXCEPT ![r] = a] /\ UNCHANGED <<execution, onChain>>
    BY <1>3 DEF CancelRFQ
  <2>3. activeRFQs[r].fill = None
    BY <1>3 DEF CancelRFQ, TradeInv, FillProcessed
  <2> HIDE DEF a
  <2> QED
    BY <2>1, <2>2, <2>3, RfqStep
<1>4. ASSUME NEW q \in Quotes, QuoteReceived(r, q) PROVE TradeInv'
  <2> DEFINE a == [activeRFQs[r] EXCEPT !.quotes = @ \cup {q}]
  <2>1. a \in RfqRecord /\ a.fill = activeRFQs[r].fill /\ activeRFQs[r].quotes \subseteq a.quotes
    BY <1>4 DEF QuoteReceived, TradeInv, RfqRecord
  <2>2. activeRFQs' = [activeRFQs EXCEPT ![r] = a] /\ UNCHANGED <<execution, onChain>>
    BY <1>4 DEF QuoteReceived
  <2>3. activeRFQs[r].fill = None
    BY <1>4 DEF QuoteReceived, TradeInv, FillProcessed
  <2> HIDE DEF a
  <2> QED
    BY <2>1, <2>2, <2>3, RfqStep
<1> QED
  BY <1>1, <1>2, <1>3, <1>4

LEMMA ExecutionStepInv ==
  ASSUME TradeInv, NEW x \in Executions
  PROVE  /\ \A r \in Rfqs, q \in Quotes : ExecuteOption(x, r, q) => TradeInv'
         /\ Sent(x) => TradeInv'
         /\ Processed(x) => TradeInv'
         /\ Confirmed(x) => TradeInv'
         /\ ExecutionThrows(x) => TradeInv'
<1> DEFINE Next(step) == [execution[x] EXCEPT !.step = step]
<1>1. ASSUME NEW r \in Rfqs, NEW q \in Quotes, ExecuteOption(x, r, q) PROVE TradeInv'
  <2> DEFINE e == [rfq |-> r, quote |-> q, step |-> "building"]
  <2>1. e \in ExecutionRecord /\ e.rfq = r /\ e.quote = q /\ e.step = "building"
    BY DEF ExecutionRecord
  <2>2. execution' = [execution EXCEPT ![x] = e] /\ UNCHANGED <<activeRFQs, onChain>>
        /\ activeRFQs[r] \in RfqRecord /\ q \in activeRFQs[r].quotes
    BY <1>1 DEF ExecuteOption, TradeInv
  <2> HIDE DEF e
  <2> QED
    BY <2>1, <2>2, ExecutionStep
<1>2. ASSUME NEW step \in {"building", "sent", "processed", "done"}, execution[x] # None
      PROVE  /\ Next(step) \in ExecutionRecord /\ Next(step).step = step
             /\ Next(step).rfq = execution[x].rfq /\ Next(step).quote = execution[x].quote
             /\ activeRFQs[execution[x].rfq] \in RfqRecord
             /\ execution[x].quote \in activeRFQs[execution[x].rfq].quotes
             /\ execution[x].rfq \in Rfqs /\ execution[x].quote \in Quotes
  BY <1>2 DEF TradeInv, ExecutionRecord
<1>3. ASSUME Sent(x) PROVE TradeInv'
  <2>1. execution[x] # None /\ execution' = [execution EXCEPT ![x] = Next("sent")]
        /\ UNCHANGED <<activeRFQs, onChain>>
    BY <1>3 DEF Sent, AtStep
  <2> HIDE DEF Next
  <2> QED
    BY <1>2, <2>1, ExecutionStep
<1>4. ASSUME Processed(x) PROVE TradeInv'
  <2>1. execution[x] # None /\ execution' = [execution EXCEPT ![x] = Next("processed")]
        /\ UNCHANGED activeRFQs /\ onChain' = onChain \cup {Trade(x)}
    BY <1>4 DEF Processed, AtStep, Trade
  <2> HIDE DEF Next
  <2> QED
    BY <1>2, <2>1, ExecutionStep DEF Trade
<1>5. ASSUME ExecutionThrows(x) PROVE TradeInv'
  <2>1. execution[x] # None /\ execution' = [execution EXCEPT ![x] = Next("done")]
        /\ UNCHANGED <<activeRFQs, onChain>>
    BY <1>5 DEF ExecutionThrows
  <2> HIDE DEF Next
  <2> QED
    BY <1>2, <2>1, ExecutionStep
<1>6. ASSUME Confirmed(x) PROVE TradeInv'
  <2> DEFINE r == execution[x].rfq
             a == [activeRFQs[r] EXCEPT !.status = "filled", !.fill = execution[x].quote]
  <2>1. execution[x] # None /\ execution' = [execution EXCEPT ![x] = Next("done")]
        /\ UNCHANGED onChain /\ activeRFQs' = [activeRFQs EXCEPT ![r] = a]
        /\ execution[x].step = "processed"
    BY <1>6 DEF Confirmed, AtStep
  <2>2. r \in Rfqs /\ activeRFQs[r] \in RfqRecord /\ execution[x].quote \in Quotes
    BY <1>2, <2>1
  <2>3. /\ a \in RfqRecord /\ a.status = "filled" /\ a.fill = execution[x].quote
        /\ a.quotes = activeRFQs[r].quotes /\ a.fill \in a.quotes
    BY <1>2, <2>1, <2>2 DEF RfqRecord
  <2>4. Trade(x) \in onChain
    BY <2>1 DEF TradeInv
  <2>5. Next("done") \in ExecutionRecord /\ Next("done").step = "done" /\ Next("done").rfq = r
    BY <1>2, <2>1
  <2> HIDE DEF Next, a
  <2>6. activeRFQs'[r] = a /\ \A s \in Rfqs \ {r} : activeRFQs'[s] = activeRFQs[s]
    BY <2>1, <2>2 DEF TradeInv
  <2>7. activeRFQs' \in [Rfqs -> RfqRecord \cup {None}] /\ execution' \in [Executions -> ExecutionRecord \cup {None}]
    BY <2>1, <2>2, <2>3, <2>5 DEF TradeInv
  <2>8. [rfq |-> r, quote |-> a.fill] \in onChain
    BY <2>3, <2>4 DEF Trade, r
  <2>9. FillProcessed'
    BY <2>1, <2>3, <2>6, <2>8 DEF TradeInv, FillProcessed
  <2>10. ASSUME NEW y \in Executions, execution'[y] # None
         PROVE  /\ activeRFQs'[execution'[y].rfq] \in RfqRecord
                /\ execution'[y].quote \in activeRFQs'[execution'[y].rfq].quotes
                /\ execution'[y].step = "processed" => Trade(y)' \in onChain
    <3>1. /\ execution[y] # None /\ execution'[y].rfq = execution[y].rfq
          /\ execution'[y].quote = execution[y].quote
          /\ execution'[y].step = "processed" => execution'[y] = execution[y]
      BY <1>2, <2>1, <2>5, <2>10 DEF TradeInv
    <3>2. /\ execution[y].rfq \in Rfqs /\ activeRFQs[execution[y].rfq] \in RfqRecord
          /\ execution[y].quote \in activeRFQs[execution[y].rfq].quotes
          /\ execution[y].step = "processed" => Trade(y) \in onChain
      BY <3>1 DEF TradeInv, ExecutionRecord
    <3>3. execution'[y].step = "processed" => Trade(y)' \in onChain
      BY <3>1, <3>2 DEF Trade
    <3>4. CASE execution[y].rfq = r
      BY <2>3, <2>6, <3>1, <3>2, <3>3, <3>4
    <3>5. CASE execution[y].rfq # r
      BY <2>6, <3>1, <3>2, <3>3, <3>5
    <3> QED BY <3>4, <3>5
  <2> QED
    BY <2>1, <2>7, <2>9, <2>10 DEF TradeInv
<1> QED
  BY <1>1, <1>3, <1>4, <1>5, <1>6

LEMMA TradeNextInv == TradeInv /\ [ClientNext]_clientVars => TradeInv'
<1> SUFFICES ASSUME TradeInv, [ClientNext]_clientVars PROVE TradeInv'
  OBVIOUS
<1>1. CASE ConnNext \/ UNCHANGED clientVars
  <2>1. UNCHANGED tradeVars
    BY <1>1 DEF ConnNext, clientVars, Disconnect, Connect, SocketOpens, SocketFails, SocketClosed,
                TimerFires
  <2> QED
    BY <2>1 DEF tradeVars, TradeInv, FillProcessed, Trade
<1>2. CASE TradeNext
  BY <1>2, RequestStepInv, ExecutionStepInv DEF TradeNext
<1> QED
  BY <1>1, <1>2 DEF ClientNext

(* The SDK's client (RFQClient.ts): a fill it records is of a quote its    *)
(* request has, and of a transaction the chain has processed (successfully *)
(* or not), for any quotes, fill messages, cancellations and executions of *)
(* the same request in between.                                            *)
THEOREM FillsAlwaysProcessed == TradeSpec => []FillProcessed
<1>1. TradeInv => FillProcessed
  BY DEF TradeInv
<1> QED
  BY <1>1, TradeInitInv, TradeNextInv, PTL DEF TradeSpec

-----------------------------------------------------------------------------
(* The accounts of a vault. *)

(* An instruction may take the vault away, but creates one only together   *)
(* with a share mint that was not there.                                   *)
StaysClosed == "share_mint" \in existing /\ "vault" \notin existing => "vault" \notin existing'

LEMMA InstructionsStayClosed ==
  ASSUME NEW i, Instruction(i) PROVE StaysClosed
<1>1. CASE i = "initialize_vault"
  BY <1>1 DEF Instruction, InitializeVault, Creates, CreatedWithVault, StaysClosed
<1>2. CASE i = "create_share_metadata"
  BY <1>2 DEF Instruction, CreateShareMetadata, Creates, StaysClosed
<1>3. CASE i = "initialize_whitelist"
  BY <1>3 DEF Instruction, InitializeWhitelist, NewWhitelist, Creates, StaysClosed
<1>4. CASE i = "add_market_maker"
  BY <1>4 DEF Instruction, AddMarketMaker, StaysClosed
<1>5. CASE i = "force_close_vault"
  BY <1>5 DEF Instruction, ForceCloseVault, StaysClosed
<1>6. CASE i \notin {"initialize_vault", "create_share_metadata", "initialize_whitelist",
                     "add_market_maker", "force_close_vault"}
  <2>1. CloseOrphanedTokenAccount(i)
    BY <1>6 DEF Instruction
  <2> QED
    BY <2>1 DEF CloseOrphanedTokenAccount, StaysClosed
<1> QED
  BY <1>1, <1>2, <1>3, <1>4, <1>5, <1>6

LEMMA ScriptsStayClosed ==
  ASSUME NEW s, ScriptStep(s) PROVE StaysClosed
<1>1. ASSUME NEW at, NEW a, NEW f, NEW m, Reads(s, at, a, f, m) PROVE StaysClosed
  BY <1>1 DEF Reads, chainState, StaysClosed
<1>2. ASSUME NEW at, NEW i, NEW n, NEW f, Sends(s, at, i, n, f) PROVE StaysClosed
  BY <1>2, InstructionsStayClosed DEF Sends, Confirms, GivesUp, chainState, StaysClosed
<1> QED
  BY <1>1, <1>2 DEF ScriptStep, CreateVaultCheck, CreateVaultInit, CreateMetadata, SetupDemoReset,
     SetupDemoInit, ForceClose, CloseOrphan, SetupWhitelist, WhitelistCheck, WhitelistInit,
     WhitelistAdd

LEMMA SetupStaysClosed == [SetupNext]_setupVars => StaysClosed
<1> SUFFICES ASSUME [SetupNext]_setupVars PROVE StaysClosed
  OBVIOUS
<1>1. ASSUME NEW s \in Processes, StartWhitelist(s) \/ StartOther(s) \/ Dies(s) PROVE StaysClosed
  BY <1>1 DEF StartWhitelist, StartOther, Starts, Dies, chainState, StaysClosed
<1>2. ASSUME NEW i \in outstanding, Lands(i) \/ Expires(i) PROVE StaysClosed
  BY <1>2, InstructionsStayClosed DEF Lands, Expires, chainState, StaysClosed
<1>3. ASSUME NEW a \in TokenAccounts, TokensArrive(a) \/ TokensLeave(a) PROVE StaysClosed
  BY <1>3 DEF TokensArrive, TokensLeave, StaysClosed
<1>4. CASE ByHand
  BY <1>4 DEF ByHand, CloseVault, ForceCloseVault, AddMarketMaker, RemoveMarketMaker, StaysClosed
<1>5. CASE UNCHANGED setupVars
  BY <1>5 DEF setupVars, StaysClosed
<1> QED
  BY <1>1, <1>2, <1>3, <1>4, <1>5, ScriptsStayClosed DEF SetupNext

(* Against "enabling reuse of asset IDs" (lib.rs:887) and the reset of     *)
(* setup-demo.ts: an asset id whose vault was closed and whose share mint  *)
(* is there has no vault again, by no order of scripts, late instructions  *)
(* and closings, for any number of processes.                              *)
THEOREM ClosedStaysClosed == SetupSpec => [][StaysClosed]_setupVars
<1>1. [SetupNext]_setupVars => [StaysClosed]_setupVars
  BY SetupStaysClosed
<1> QED
  BY <1>1, PTL DEF SetupSpec

-----------------------------------------------------------------------------
(* The price sampler. *)

SamplerSpec == SamplerInit /\ [][SamplerNext]_samplerVars

(* A timer belongs to the key whose function stops it; one that is being   *)
(* started is its asset's Pyth timer.                                      *)
SamplerInv ==
    /\ interval \in [Intervals -> Timer \cup {None}]
    /\ stopFunctions \in [Keys -> Intervals \cup {None}]
    /\ starting \in [Assets -> SUBSET Intervals]
    /\ \A k \in Keys : stopFunctions[k] # None =>
         /\ interval[stopFunctions[k]] \in Timer
         /\ interval[stopFunctions[k]].key = k
    /\ \A a \in Assets : \A i \in starting[a] :
         interval[i] \in Timer /\ interval[i].key = <<a, "pyth">>
    /\ TimersCanStop

LEMMA SamplerInitInv == SamplerInit => SamplerInv
  BY DEF SamplerInit, SamplerInv, TimersCanStop, Runs

(* A new timer. *)
LEMMA NewTimer ==
  ASSUME SamplerInv, NEW i, NEW k \in Keys, i \in Intervals, SetInterval(i, k)
  PROVE  /\ interval' \in [Intervals -> Timer \cup {None}]
         /\ interval'[i].key = k /\ interval'[i].runs /\ interval'[i] \in Timer
         /\ interval[i] = None
         /\ \A j \in Intervals \ {i} : interval'[j] = interval[j]
  BY DEF SamplerInv, SetInterval, Timer

LEMMA StartPythStep ==
  ASSUME SamplerInv, NEW a \in Assets, NEW i \in Intervals, StartPyth(a, i)
  PROVE  SamplerInv'
<1> DEFINE k == <<a, "pyth">>
<1>1. k \in Keys
  BY DEF Keys
<1>2. /\ interval' \in [Intervals -> Timer \cup {None}]
      /\ interval'[i].key = k /\ interval'[i].runs /\ interval'[i] \in Timer
      /\ interval[i] = None
      /\ \A j \in Intervals \ {i} : interval'[j] = interval[j]
  BY <1>1, NewTimer DEF StartPyth
<1>3. starting' = [starting EXCEPT ![a] = @ \cup {i}] /\ UNCHANGED <<stopFunctions, replaced>>
  BY DEF StartPyth
<1>4. /\ \A b \in Keys : stopFunctions[b] # i
      /\ \A b \in Assets : i \notin starting[b]
  BY <1>2, FeedsOK DEF SamplerInv
<1>5. /\ starting' \in [Assets -> SUBSET Intervals] /\ i \in starting'[a]
      /\ \A b \in Assets : starting'[b] = starting[b] \/ (b = a /\ starting'[b] = starting[b] \cup {i})
  BY <1>3 DEF SamplerInv
<1>6. \A b \in Keys : stopFunctions'[b] # None =>
         interval'[stopFunctions'[b]] \in Timer /\ interval'[stopFunctions'[b]].key = b
  BY <1>2, <1>3, <1>4 DEF SamplerInv
<1>7. \A b \in Assets : \A j \in starting'[b] :
         interval'[j] \in Timer /\ interval'[j].key = <<b, "pyth">>
  BY <1>2, <1>4, <1>5 DEF SamplerInv
<1>8. TimersCanStop'
  BY <1>2, <1>3, <1>5 DEF SamplerInv, TimersCanStop, Runs
<1> QED
  BY <1>2, <1>3, <1>5, <1>6, <1>7, <1>8 DEF SamplerInv

(* What a function that is set, or not, does to the timers that run.       *)
LEMMA StartYahooStep ==
  ASSUME SamplerInv, NEW a \in Assets, NEW i \in Intervals, StartWithoutPyth(a, i)
  PROVE  SamplerInv'
<1> DEFINE k == <<a, "yahoo">>
<1>1. k \in Keys
  BY DEF Keys
<1>2. /\ interval' \in [Intervals -> Timer \cup {None}]
      /\ interval'[i].key = k /\ interval'[i].runs /\ interval'[i] \in Timer
      /\ interval[i] = None
      /\ \A j \in Intervals \ {i} : interval'[j] = interval[j]
  BY <1>1, NewTimer DEF StartWithoutPyth, StartYahoo
<1>3. /\ stopFunctions' = [stopFunctions EXCEPT ![k] = i]
      /\ replaced' = replaced \cup ({stopFunctions[k]} \ {None}) /\ UNCHANGED starting
  BY DEF StartWithoutPyth, StartYahoo, SetStop
<1> HIDE DEF k
<1>4. /\ \A b \in Keys : stopFunctions[b] # i
      /\ \A b \in Assets : i \notin starting[b]
  BY <1>2, FeedsOK DEF SamplerInv
<1>5. /\ stopFunctions' \in [Keys -> Intervals \cup {None}] /\ stopFunctions'[k] = i
      /\ \A b \in Keys \ {k} : stopFunctions'[b] = stopFunctions[b]
  BY <1>1, <1>3 DEF SamplerInv
<1>6. \A b \in Keys : stopFunctions'[b] # None =>
         interval'[stopFunctions'[b]] \in Timer /\ interval'[stopFunctions'[b]].key = b
  BY <1>2, <1>4, <1>5 DEF SamplerInv
<1>7. \A b \in Assets : \A j \in starting'[b] :
         interval'[j] \in Timer /\ interval'[j].key = <<b, "pyth">>
  BY <1>2, <1>3, <1>4 DEF SamplerInv
<1>8. TimersCanStop'
  <2> SUFFICES ASSUME NEW j \in Intervals, Runs(j)'
               PROVE  \/ stopFunctions'[interval'[j].key] = j
                      \/ \E b \in Assets : j \in starting'[b]
                      \/ j \in replaced'
    BY DEF TimersCanStop
  <2>1. CASE j = i
    BY <1>2, <1>5, <2>1
  <2>2. CASE j # i
    <3>1. Runs(j) /\ interval'[j] = interval[j] /\ interval[j].key \in Keys
      BY <1>2, <2>2 DEF Runs, SamplerInv, Timer
    <3>2. stopFunctions[interval[j].key] = j =>
             stopFunctions'[interval[j].key] = j \/ j \in replaced'
      BY <1>3, <1>5, <3>1, FeedsOK
    <3> QED
      BY <1>3, <3>1, <3>2 DEF SamplerInv, TimersCanStop
  <2> QED
    BY <2>1, <2>2
<1> QED
  BY <1>2, <1>3, <1>5, <1>6, <1>7, <1>8 DEF SamplerInv

LEMMA PythStartedStep ==
  ASSUME SamplerInv, NEW a \in Assets, NEW i \in Intervals, NEW j \in Intervals, PythStarted(a, i, j)
  PROVE  SamplerInv'
<1> DEFINE pyth  == <<a, "pyth">>
           yahoo == <<a, "yahoo">>
           both  == "yahoo" \in Feeds[a]
<1>1. pyth \in Keys /\ yahoo \in Keys /\ pyth # yahoo /\ i \in starting[a]
      /\ interval[i] \in Timer /\ interval[i].key = pyth
  BY DEF Keys, PythStarted, SamplerInv
<1>2. CASE both
  <2>1. /\ interval' \in [Intervals -> Timer \cup {None}]
        /\ interval'[j].key = yahoo /\ interval'[j].runs /\ interval'[j] \in Timer
        /\ interval[j] = None
        /\ \A l \in Intervals \ {j} : interval'[l] = interval[l]
    BY <1>1, <1>2, NewTimer DEF PythStarted
  <2>2. /\ \A b \in Keys : stopFunctions[b] # j
        /\ \A b \in Assets : j \notin starting[b]
    BY <2>1, FeedsOK DEF SamplerInv
  <2>3. /\ stopFunctions' = [k \in Keys |-> IF k = pyth THEN i
                                ELSE IF k = yahoo THEN j ELSE stopFunctions[k]]
        /\ replaced' = replaced \cup ({stopFunctions[k] : k \in {pyth, yahoo}} \ {None})
        /\ starting' = [starting EXCEPT ![a] = @ \ {i}]
    BY <1>2 DEF PythStarted
  <2> HIDE DEF pyth, yahoo, both
  <2>4. /\ stopFunctions' \in [Keys -> Intervals \cup {None}]
        /\ stopFunctions'[pyth] = i /\ stopFunctions'[yahoo] = j
        /\ \A b \in Keys \ {pyth, yahoo} : stopFunctions'[b] = stopFunctions[b]
    BY <1>1, <2>3 DEF SamplerInv
  <2>5. /\ starting' \in [Assets -> SUBSET Intervals]
        /\ \A b \in Assets : starting'[b] \subseteq starting[b]
        /\ \A b \in Assets : starting[b] \subseteq starting'[b] \cup {i}
    BY <2>3 DEF SamplerInv
  <2>6. \A b \in Keys : stopFunctions'[b] # None =>
         interval'[stopFunctions'[b]] \in Timer /\ interval'[stopFunctions'[b]].key = b
    <3> SUFFICES ASSUME NEW b \in Keys, stopFunctions'[b] # None
                 PROVE  interval'[stopFunctions'[b]] \in Timer /\ interval'[stopFunctions'[b]].key = b
      OBVIOUS
    <3>1. CASE b = pyth
      BY <1>1, <2>1, <2>2, <2>4, <3>1
    <3>2. CASE b = yahoo
      BY <2>1, <2>4, <3>2
    <3>3. CASE b \notin {pyth, yahoo}
      BY <2>1, <2>2, <2>4, <3>3 DEF SamplerInv
    <3> QED
      BY <3>1, <3>2, <3>3
  <2>7. \A b \in Assets : \A l \in starting'[b] :
         interval'[l] \in Timer /\ interval'[l].key = <<b, "pyth">>
    BY <2>1, <2>2, <2>5 DEF SamplerInv
  <2>8. TimersCanStop'
    <3> SUFFICES ASSUME NEW l \in Intervals, Runs(l)'
                 PROVE  \/ stopFunctions'[interval'[l].key] = l
                        \/ \E b \in Assets : l \in starting'[b]
                        \/ l \in replaced'
      BY DEF TimersCanStop
    <3>1. CASE l = j
      BY <2>1, <2>4, <3>1
    <3>2. CASE l = i
      BY <1>1, <2>1, <2>2, <2>4, <3>2
    <3>3. CASE l # i /\ l # j
      <4>1. Runs(l) /\ interval'[l] = interval[l] /\ interval[l].key \in Keys
        BY <2>1, <3>3 DEF Runs, SamplerInv, Timer
      <4>2. stopFunctions[interval[l].key] = l =>
               stopFunctions'[interval[l].key] = l \/ l \in replaced'
        BY <2>3, <2>4, <4>1, FeedsOK
      <4>3. \A b \in Assets : l \in starting[b] => l \in starting'[b]
        BY <2>5, <3>3
      <4> QED
        BY <2>3, <4>1, <4>2, <4>3 DEF SamplerInv, TimersCanStop
    <3> QED
      BY <3>1, <3>2, <3>3
  <2> QED
    BY <2>1, <2>4, <2>5, <2>6, <2>7, <2>8 DEF SamplerInv
<1>3. CASE ~both
  <2>1. /\ stopFunctions' = [k \in Keys |-> IF k = pyth THEN i ELSE stopFunctions[k]]
        /\ replaced' = replaced \cup ({stopFunctions[k] : k \in {pyth}} \ {None})
        /\ starting' = [starting EXCEPT ![a] = @ \ {i}] /\ UNCHANGED interval
    BY <1>3 DEF PythStarted
  <2> HIDE DEF pyth, yahoo, both
  <2>2. /\ stopFunctions' \in [Keys -> Intervals \cup {None}] /\ stopFunctions'[pyth] = i
        /\ \A b \in Keys \ {pyth} : stopFunctions'[b] = stopFunctions[b]
    BY <1>1, <2>1 DEF SamplerInv
  <2>3. /\ starting' \in [Assets -> SUBSET Intervals]
        /\ \A b \in Assets : starting'[b] \subseteq starting[b]
        /\ \A b \in Assets : starting[b] \subseteq starting'[b] \cup {i}
    BY <2>1 DEF SamplerInv
  <2>4. \A b \in Keys : stopFunctions'[b] # None =>
         interval'[stopFunctions'[b]] \in Timer /\ interval'[stopFunctions'[b]].key = b
    BY <1>1, <2>1, <2>2 DEF SamplerInv
  <2>5. \A b \in Assets : \A l \in starting'[b] :
         interval'[l] \in Timer /\ interval'[l].key = <<b, "pyth">>
    BY <2>1, <2>3 DEF SamplerInv
  <2>6. TimersCanStop'
    <3> SUFFICES ASSUME NEW l \in Intervals, Runs(l)'
                 PROVE  \/ stopFunctions'[interval'[l].key] = l
                        \/ \E b \in Assets : l \in starting'[b]
                        \/ l \in replaced'
      BY DEF TimersCanStop
    <3>1. CASE l = i
      BY <1>1, <2>1, <2>2, <3>1
    <3>2. CASE l # i
      <4>1. Runs(l) /\ interval'[l] = interval[l] /\ interval[l].key \in Keys
        BY <2>1 DEF Runs, SamplerInv, Timer
      <4>2. stopFunctions[interval[l].key] = l =>
               stopFunctions'[interval[l].key] = l \/ l \in replaced'
        BY <2>1, <2>2, <4>1, FeedsOK
      <4>3. \A b \in Assets : l \in starting[b] => l \in starting'[b]
        BY <2>3, <3>2
      <4> QED
        BY <2>1, <4>1, <4>2, <4>3 DEF SamplerInv, TimersCanStop
    <3> QED
      BY <3>1, <3>2
  <2> QED
    BY <2>1, <2>2, <2>3, <2>4, <2>5, <2>6 DEF SamplerInv
<1> QED
  BY <1>2, <1>3

(* A timer that still runs after its function was called was not its key's.*)
LEMMA StopStep ==
  ASSUME SamplerInv, NEW keys \in SUBSET Keys, Stop(keys)
  PROVE  SamplerInv'
<1> DEFINE stopped == {stopFunctions[k] : k \in keys}
<1>1. /\ interval' = [i \in Intervals |->
               IF i \in stopped THEN [interval[i] EXCEPT !.runs = FALSE] ELSE interval[i]]
      /\ stopFunctions' = [k \in Keys |-> IF k \in keys THEN None ELSE stopFunctions[k]]
      /\ UNCHANGED <<starting, replaced>>
  BY DEF Stop
<1>2. \A i \in Intervals : i \in stopped => interval[i] \in Timer
  BY FeedsOK DEF SamplerInv
<1> HIDE DEF stopped
<1>3. ASSUME NEW i \in Intervals
      PROVE  /\ interval'[i] \in Timer \cup {None}
             /\ interval[i] \in Timer => interval'[i] \in Timer /\ interval'[i].key = interval[i].key
             /\ i \in stopped => ~interval'[i].runs
             /\ i \notin stopped => interval'[i] = interval[i]
  BY <1>1, <1>2 DEF SamplerInv, Timer
<1>4. interval' \in [Intervals -> Timer \cup {None}]
  BY <1>1, <1>3
<1>5. stopFunctions' \in [Keys -> Intervals \cup {None}]
  BY <1>1 DEF SamplerInv
<1>6. \A b \in Keys : stopFunctions'[b] # None =>
         interval'[stopFunctions'[b]] \in Timer /\ interval'[stopFunctions'[b]].key = b
  BY <1>1, <1>3 DEF SamplerInv
<1>7. \A b \in Assets : \A l \in starting'[b] :
         interval'[l] \in Timer /\ interval'[l].key = <<b, "pyth">>
  BY <1>1, <1>3 DEF SamplerInv
<1>8. TimersCanStop'
  <2> SUFFICES ASSUME NEW l \in Intervals, Runs(l)'
               PROVE  \/ stopFunctions'[interval'[l].key] = l
                      \/ \E b \in Assets : l \in starting'[b]
                      \/ l \in replaced'
    BY DEF TimersCanStop
  <2>1. l \notin stopped /\ interval'[l] = interval[l] /\ Runs(l) /\ interval[l].key \in Keys
    BY <1>3, <1>4 DEF Runs, Timer
  <2>2. stopFunctions[interval[l].key] = l => stopFunctions'[interval[l].key] = l
    BY <1>1, <2>1 DEF stopped
  <2> QED
    BY <1>1, <2>1, <2>2 DEF SamplerInv, TimersCanStop
<1> QED
  BY <1>1, <1>4, <1>5, <1>6, <1>7, <1>8 DEF SamplerInv

LEMMA SamplerNextInv == SamplerInv /\ [SamplerNext]_samplerVars => SamplerInv'
<1> SUFFICES ASSUME SamplerInv, [SamplerNext]_samplerVars PROVE SamplerInv'
  OBVIOUS
<1>1. ASSUME NEW a \in Assets, StopSampling(a) PROVE SamplerInv'
  <2>1. {a} \X {"pyth", "yahoo"} \in SUBSET Keys
    BY DEF Keys
  <2> QED
    BY <1>1, <2>1, StopStep DEF StopSampling
<1>2. CASE StopAll
  BY <1>2, StopStep DEF StopAll
<1>3. CASE UNCHANGED <<interval, starting, stopFunctions, replaced>>
  BY <1>3 DEF SamplerInv, TimersCanStop, Runs
<1>4. ASSUME NEW i \in Intervals, Fires(i) \/ \E price \in BOOLEAN : Sampled(i, price)
      PROVE  SamplerInv'
  BY <1>3, <1>4 DEF Fires, Sampled
<1>5. CASE UNCHANGED samplerVars
  BY <1>3, <1>5 DEF samplerVars
<1> QED
  BY <1>1, <1>2, <1>4, <1>5, StartPythStep, StartYahooStep, PythStartedStep DEF SamplerNext

(* The price sampler (price-sampler.ts): no timer is lost, for any assets  *)
(* and any number of samplings started and stopped at any time, but by     *)
(* starting an asset again before it was stopped.                          *)
THEOREM TimersAlwaysStoppable == SamplerSpec => []TimersCanStop
<1>1. SamplerInv => TimersCanStop
  BY DEF SamplerInv
<1> QED
  BY <1>1, SamplerInitInv, SamplerNextInv, PTL DEF SamplerSpec

-----------------------------------------------------------------------------
(* The wallet's history, alone and from time 0.                            *)
ActivitySpec == ActivityInit /\ now = 0 /\ [][ActivityNext]_activityVars

Transaction == [vault : BOOLEAN, blockTime : Nat]

(* A list of a wallet's activities, be it the cache's or one that a fetch  *)
(* took from it, passes nothing over but what stored fetches left out.     *)
EntryFine(e, txs, left) ==
    /\ e.activities \in SUBSET (1..Len(txs))
    /\ e.lastSignature \in e.activities
    /\ \A i \in 1..e.lastSignature : txs[i].vault => i \in e.activities \cup left

(* What a fetch took was known before it asked how far the chain goes.     *)
FetchFine(r, txs, left) ==
    /\ r = [wallet |-> r.wallet, cached |-> r.cached, upto |-> r.upto]
    /\ r.cached # None => EntryFine(r.cached, txs, left)
    /\ r.upto # None =>
         /\ r.upto \in 0..Len(txs)
         /\ r.cached # None => r.cached.activities \in SUBSET (1..r.upto)

EntriesFine == \A w \in Wallets : cache[w] # None => EntryFine(cache[w], chain[w], skipped[w])

FetchesFine ==
    \A f \in Fetches : fetch[f] # None =>
        /\ fetch[f].wallet \in Wallets
        /\ FetchFine(fetch[f], chain[fetch[f].wallet], skipped[fetch[f].wallet])

ActivityInv ==
    /\ now \in Nat
    /\ chain \in [Wallets -> Seq(Transaction)]
    /\ \A w \in Wallets : \A i \in 1..Len(chain[w]) : chain[w][i].blockTime <= now + 1
    /\ publicKey \in Wallets \cup {None}
    /\ cache = [w \in Wallets |-> cache[w]]
    /\ fetch = [f \in Fetches |-> fetch[f]]
    /\ skipped = [w \in Wallets |-> skipped[w]]
    /\ EntriesFine /\ FetchesFine

LEMMA ActivityInitInv == ActivityInit /\ now = 0 => ActivityInv
<1> SUFFICES ASSUME ActivityInit, now = 0 PROVE ActivityInv
  OBVIOUS
<1>1. chain \in [Wallets -> Seq(Transaction)]
  BY DEF ActivityInit
<1> QED
  BY <1>1 DEF ActivityInit, ActivityInv, EntriesFine, FetchesFine

(* Chains only grow, and so does what was left out.                        *)
LEMMA EntryStays ==
  ASSUME NEW e, NEW txs \in Seq(Transaction), NEW more \in Seq(Transaction), NEW left, NEW also,
         Len(txs) <= Len(more), \A i \in 1..Len(txs) : more[i] = txs[i],
         \A i \in left : i \in also, EntryFine(e, txs, left)
  PROVE  EntryFine(e, more, also)
<1>1. Len(txs) \in Nat /\ Len(more) \in Nat
  OBVIOUS
<1>2. e.lastSignature \in 1..Len(txs)
  BY DEF EntryFine
<1>3. \A i \in 1..e.lastSignature : i \in 1..Len(txs)
  BY <1>1, <1>2
<1>4. e.activities \in SUBSET (1..Len(more))
  BY <1>1 DEF EntryFine
<1> QED
  BY <1>3, <1>4 DEF EntryFine

LEMMA FetchStays ==
  ASSUME NEW r, NEW txs \in Seq(Transaction), NEW more \in Seq(Transaction), NEW left, NEW also,
         Len(txs) <= Len(more), \A i \in 1..Len(txs) : more[i] = txs[i],
         \A i \in left : i \in also, FetchFine(r, txs, left)
  PROVE  FetchFine(r, more, also)
<1>1. r.cached # None => EntryFine(r.cached, more, also)
  BY EntryStays DEF FetchFine
<1>2. Len(txs) \in Nat /\ Len(more) \in Nat
  OBVIOUS
<1> QED
  BY <1>1, <1>2 DEF FetchFine

LEMMA TransactStep ==
  ASSUME ActivityInv, NEW w \in Wallets, NEW seen \in BOOLEAN, NEW timed \in BOOLEAN,
         Transact(w, seen, timed)
  PROVE  ActivityInv'
<1> DEFINE x == [vault |-> seen, blockTime |-> IF timed THEN now + 1 ELSE 0]
<1>1. x \in Transaction /\ x.blockTime <= now + 1
  BY DEF ActivityInv, Transaction
<1>2. chain' = [chain EXCEPT ![w] = Append(@, x)]
  BY DEF Transact
<1> HIDE DEF x
<1>3. chain[w] \in Seq(Transaction) /\ chain'[w] = Append(chain[w], x)
  BY <1>2 DEF ActivityInv
<1>4. chain' \in [Wallets -> Seq(Transaction)]
  <2>1. Append(chain[w], x) \in Seq(Transaction)
    BY <1>1, <1>3
  <2> QED
    BY <1>2, <2>1 DEF ActivityInv
<1>5. \A v \in Wallets : /\ chain[v] \in Seq(Transaction) /\ chain'[v] \in Seq(Transaction)
                         /\ Len(chain[v]) <= Len(chain'[v])
                         /\ \A i \in 1..Len(chain[v]) : chain'[v][i] = chain[v][i]
  <2> SUFFICES ASSUME NEW v \in Wallets
               PROVE  /\ chain[v] \in Seq(Transaction) /\ chain'[v] \in Seq(Transaction)
                      /\ Len(chain[v]) <= Len(chain'[v])
                      /\ \A i \in 1..Len(chain[v]) : chain'[v][i] = chain[v][i]
    OBVIOUS
  <2>2. chain[v] \in Seq(Transaction) /\ chain'[v] \in Seq(Transaction)
    BY <1>4 DEF ActivityInv
  <2>3. CASE v = w
    BY <1>1, <1>3, <2>2, <2>3
  <2>4. CASE v # w
    <3>1. chain'[v] = chain[v]
      BY <1>2, <2>4 DEF ActivityInv
    <3> QED
      BY <2>2, <3>1
  <2> QED
    BY <2>3, <2>4
<1>6. \A v \in Wallets : \A i \in 1..Len(chain'[v]) : chain'[v][i].blockTime <= now + 1
  <2> SUFFICES ASSUME NEW v \in Wallets, NEW i \in 1..Len(chain'[v])
               PROVE  chain'[v][i].blockTime <= now + 1
    OBVIOUS
  <2>1. CASE v = w
    BY <1>1, <1>3, <2>1 DEF ActivityInv
  <2>2. CASE v # w
    BY <1>2, <2>2 DEF ActivityInv
  <2> QED
    BY <2>1, <2>2
<1>7. EntriesFine'
  BY <1>5, EntryStays DEF ActivityInv, EntriesFine, Transact
<1>8. FetchesFine'
  <2> SUFFICES ASSUME NEW f \in Fetches, fetch[f] # None
               PROVE  /\ fetch[f].wallet \in Wallets
                      /\ FetchFine(fetch[f], chain'[fetch[f].wallet], skipped[fetch[f].wallet])
    BY DEF FetchesFine, Transact
  <2>1. /\ fetch[f].wallet \in Wallets
        /\ FetchFine(fetch[f], chain[fetch[f].wallet], skipped[fetch[f].wallet])
    BY DEF ActivityInv, FetchesFine
  <2> QED
    BY <1>5, <2>1, FetchStays
<1> QED
  BY <1>4, <1>6, <1>7, <1>8 DEF ActivityInv, Transact

(* The steps of a fetch that store nothing.                                *)
LEMMA FetchStep ==
  ASSUME ActivityInv, NEW f \in Fetches, NEW r,
         fetch' = [fetch EXCEPT ![f] = r],
         r # None => r.wallet \in Wallets /\ FetchFine(r, chain[r.wallet], skipped[r.wallet]),
         UNCHANGED <<now, chain, cache, publicKey, skipped>>
  PROVE  ActivityInv'
<1>1. FetchesFine'
  BY DEF ActivityInv, FetchesFine
<1>2. EntriesFine'
  BY DEF ActivityInv, EntriesFine
<1> QED
  BY <1>1, <1>2 DEF ActivityInv

LEMMA BeginStep ==
  ASSUME ActivityInv, NEW f \in Fetches, Begin(f)
  PROVE  ActivityInv'
<1> DEFINE r == [wallet |-> publicKey, cached |-> cache[publicKey], upto |-> None]
<1>1. publicKey \in Wallets
  BY DEF Begin, ActivityInv
<1>2. FetchFine(r, chain[publicKey], skipped[publicKey])
  BY <1>1 DEF FetchFine, ActivityInv, EntriesFine
<1>3. fetch' = [fetch EXCEPT ![f] = r]
  BY DEF Begin
<1>4. UNCHANGED <<now, chain, cache, publicKey, skipped>>
  BY DEF Begin
<1>5. r.wallet = publicKey
  OBVIOUS
<1> HIDE DEF r
<1> QED
  BY <1>1, <1>2, <1>3, <1>4, <1>5, FetchStep

LEMMA SignaturesStep ==
  ASSUME ActivityInv, NEW f \in Fetches, Signatures(f)
  PROVE  ActivityInv'
<1> DEFINE w == fetch[f].wallet
           r == [wallet |-> w, cached |-> fetch[f].cached, upto |-> Len(chain[w])]
<1>1. w \in Wallets /\ FetchFine(fetch[f], chain[w], skipped[w])
  BY DEF Signatures, ActivityInv, FetchesFine
<1>2. FetchFine(r, chain[w], skipped[w])
  <2>1. Len(chain[w]) \in Nat
    BY <1>1 DEF ActivityInv
  <2> QED
    BY <1>1, <2>1 DEF FetchFine, EntryFine
<1>3. fetch' = [fetch EXCEPT ![f] = None] \/ fetch' = [fetch EXCEPT ![f] = r]
  BY <1>1 DEF Signatures, FetchFine, ActivityInv
<1>4. UNCHANGED <<now, chain, cache, publicKey, skipped>>
  BY DEF Signatures
<1>5. r.wallet = w
  OBVIOUS
<1> HIDE DEF r, w
<1> QED
  BY <1>1, <1>2, <1>3, <1>4, <1>5, FetchStep

(* Of some transactions one is the newest.                                 *)
LEMMA NewestIn ==
  ASSUME ActivityInv, NEW w \in Wallets, NEW txs \in SUBSET (1..Len(chain[w])), txs # {}
  PROVE  Newest(w, txs) \in txs
<1> DEFINE c == chain[w]
           times == {c[i].blockTime : i \in txs}
<1>1. c \in Seq(Transaction) /\ Len(c) \in Nat
  BY DEF ActivityInv
<1>2. ASSUME NEW i \in txs PROVE c[i].blockTime \in 0..(now + 1) /\ i \in 0..Len(c)
  <2>1. i \in 1..Len(c)
    OBVIOUS
  <2>2. c[i] \in Transaction
    <3> HIDE DEF c
    <3> QED
      BY <1>1, <2>1
  <2>3. c[i].blockTime <= now + 1 /\ now \in Nat
    BY <2>1 DEF ActivityInv
  <2> QED
    BY <1>1, <2>1, <2>2, <2>3 DEF Transaction
<1>3. times \in SUBSET (0..(now + 1)) /\ times # {} /\ now + 1 \in Nat
  <2>1. now + 1 \in Nat
    BY DEF ActivityInv
  <2> HIDE DEF c
  <2> QED
    BY <1>2, <2>1
<1>4. PICK b \in times : \A y \in times : y <= b
  <2> HIDE DEF times
  <2> QED BY <1>3, SomeGreatest
<1> DEFINE last == {i \in txs : c[i].blockTime = b}
<1>5. last # {}
  BY <1>4
<1>6. last \in SUBSET (0..Len(c))
  BY <1>2
<1>7. PICK i \in last : \A j \in last : j <= i
  <2> HIDE DEF last, c
  <2> QED
    BY <1>1, <1>5, <1>6, SomeGreatest
<1>8. \A u \in txs : \/ c[u].blockTime < c[i].blockTime
                     \/ c[u].blockTime = c[i].blockTime /\ u <= i
  <2> SUFFICES ASSUME NEW u \in txs, ~(c[u].blockTime < c[i].blockTime)
               PROVE  c[u].blockTime = c[i].blockTime /\ u <= i
    OBVIOUS
  <2>1. c[u].blockTime \in times /\ c[i].blockTime = b
    BY <1>7
  <2>2. c[u].blockTime = b
    <3>1. c[u].blockTime <= b
      BY <1>4, <2>1
    <3>2. c[u].blockTime \in Int /\ b \in Int
      BY <1>2, <1>3
    <3> HIDE DEF c
    <3> QED BY <2>1, <3>1, <3>2
  <2> QED
    BY <1>7, <2>1, <2>2
<1> QED
  BY <1>7, <1>8, Zenon DEF Newest

LEMMA StoreStep ==
  ASSUME ActivityInv, NEW f \in Fetches, NEW missed, Store(f, missed)
  PROVE  ActivityInv'
<1> DEFINE w == fetch[f].wallet
           new == {i \in Fetched(f) \ missed : chain[w][i].vault}
           all == new \cup Known(f)
           left == skipped[w] \cup missed \cup (Covered(f) \ Fetched(f))
           e == [lastSignature |-> Newest(w, all), activities |-> all]
<1>1. w \in Wallets /\ FetchFine(fetch[f], chain[w], skipped[w])
  BY DEF Store, ActivityInv, FetchesFine
<1>2. fetch[f].upto \in 0..Len(chain[w]) /\ Len(chain[w]) \in Nat
  BY <1>1 DEF Store, FetchFine, ActivityInv
<1>3. /\ Until(f) \in Nat
      /\ Known(f) \in SUBSET (1..fetch[f].upto)
      /\ \A i \in 1..Until(f) : chain[w][i].vault => i \in Known(f) \cup skipped[w]
  BY <1>1, <1>2 DEF Store, FetchFine, EntryFine, Until, Known
<1>4. all \in SUBSET (1..fetch[f].upto)
  BY <1>2, <1>3 DEF Fetched, Covered
<1>5. CASE all = {}
  <2>1. fetch' = [fetch EXCEPT ![f] = None]
    BY DEF Store
  <2>2. UNCHANGED <<now, chain, cache, publicKey, skipped>>
    BY <1>5 DEF Store
  <2> QED
    BY <2>1, <2>2, FetchStep
<1>6. CASE all # {}
  <2>1. Newest(w, all) \in all
    <3>1. all \in SUBSET (1..Len(chain[w]))
      BY <1>2, <1>4
    <3> HIDE DEF all, w
    <3> QED
      BY <1>1, <1>6, <3>1, NewestIn
  <2>2. \A i \in 1..Newest(w, all) : chain[w][i].vault => i \in all \cup left
    <3> SUFFICES ASSUME NEW i \in 1..Newest(w, all), chain[w][i].vault PROVE i \in all \cup left
      OBVIOUS
    <3>1. i \in 1..fetch[f].upto
      <4>1. Newest(w, all) \in 1..fetch[f].upto
        BY <1>4, <2>1
      <4> QED
        BY <1>2, <4>1
    <3>2. CASE i <= Until(f)
      BY <1>3, <3>1, <3>2
    <3>3. CASE ~(i <= Until(f))
      <4>1. i \in Covered(f)
        BY <1>2, <1>3, <3>1, <3>3 DEF Covered
      <4> QED
        BY <4>1 DEF Fetched
    <3> QED
      BY <3>2, <3>3
  <2>3. EntryFine(e, chain[w], left)
    <3>1. e.lastSignature = Newest(w, all) /\ e.activities = all
      OBVIOUS
    <3>2. all \in SUBSET (1..Len(chain[w]))
      BY <1>2, <1>4
    <3> HIDE DEF e, all, left, w
    <3> QED
      BY <2>1, <2>2, <3>1, <3>2 DEF EntryFine
  <2>4. /\ cache' = [cache EXCEPT ![w] = e] /\ skipped' = [skipped EXCEPT ![w] = left]
        /\ fetch' = [fetch EXCEPT ![f] = None] /\ UNCHANGED <<now, chain, publicKey>>
    BY <1>1, <1>6 DEF Store, ActivityInv
  <2> HIDE DEF left, e, all, new
  <2>5. \A v \in Wallets : \A i \in skipped[v] : i \in skipped'[v]
    <3>1. \A i \in skipped[w] : i \in left
      BY DEF left
    <3> QED
      BY <1>1, <2>4, <3>1 DEF ActivityInv
  <2>6. \A v \in Wallets : chain[v] \in Seq(Transaction) /\ Len(chain[v]) \in Nat
    BY DEF ActivityInv
  <2>7. EntriesFine'
    <3> SUFFICES ASSUME NEW v \in Wallets, cache'[v] # None
                 PROVE  EntryFine(cache'[v], chain[v], skipped'[v])
      BY <2>4 DEF EntriesFine
    <3>1. CASE v = w
      BY <1>1, <2>3, <2>4, <3>1 DEF ActivityInv
    <3>2. CASE v # w
      <4>1. cache'[v] = cache[v]
        BY <2>4, <3>2 DEF ActivityInv
      <4>2. EntryFine(cache[v], chain[v], skipped[v])
        BY <4>1 DEF ActivityInv, EntriesFine
      <4> QED
        BY <2>5, <2>6, <4>1, <4>2, EntryStays
    <3> QED
      BY <3>1, <3>2
  <2>8. FetchesFine'
    <3> SUFFICES ASSUME NEW g \in Fetches, fetch'[g] # None
                 PROVE  /\ fetch'[g].wallet \in Wallets
                        /\ FetchFine(fetch'[g], chain[fetch'[g].wallet], skipped'[fetch'[g].wallet])
      BY <2>4 DEF FetchesFine
    <3>1. fetch'[g] = fetch[g]
      BY <2>4 DEF ActivityInv
    <3>2. fetch[g].wallet \in Wallets
          /\ FetchFine(fetch[g], chain[fetch[g].wallet], skipped[fetch[g].wallet])
      BY <3>1 DEF ActivityInv, FetchesFine
    <3> QED
      BY <2>5, <2>6, <3>1, <3>2, FetchStays
  <2> QED
    BY <1>1, <2>4, <2>7, <2>8 DEF ActivityInv
<1> QED
  BY <1>5, <1>6

LEMMA ActivityNextInv == ActivityInv /\ [ActivityNext]_activityVars => ActivityInv'
<1> SUFFICES ASSUME ActivityInv, [ActivityNext]_activityVars PROVE ActivityInv'
  OBVIOUS
<1>1. ASSUME NEW w \in Wallets \cup {None}, SetWallet(w) PROVE ActivityInv'
  BY <1>1 DEF SetWallet, ActivityInv, EntriesFine, FetchesFine
<1>2. ASSUME NEW f \in Fetches, FetchFails(f) PROVE ActivityInv'
  BY <1>2, FetchStep DEF FetchFails
<1>3. CASE ActivityTick
  <2>1. now' = now + 1 /\ UNCHANGED <<chain, cache, publicKey, fetch, skipped>>
    BY <1>3 DEF ActivityTick, Tick
  <2>2. \A w \in Wallets : \A i \in 1..Len(chain[w]) : chain[w][i].blockTime \in Nat
    <3> SUFFICES ASSUME NEW w \in Wallets, NEW i \in 1..Len(chain[w])
                 PROVE  chain[w][i].blockTime \in Nat
      OBVIOUS
    <3>1. chain[w] \in Seq(Transaction)
      BY DEF ActivityInv
    <3>2. chain[w][i] \in Transaction
      BY <3>1
    <3> QED
      BY <3>2 DEF Transaction
  <2> QED
    BY <2>1, <2>2 DEF ActivityInv, EntriesFine, FetchesFine
<1>4. CASE UNCHANGED activityVars
  BY <1>4 DEF activityVars, ActivityInv, EntriesFine, FetchesFine
<1> QED
  BY <1>1, <1>2, <1>3, <1>4, TransactStep, BeginStep, SignaturesStep, StoreStep DEF ActivityNext

(* The wallet's history (useWalletActivity.ts): what comes before the      *)
(* signature the next fetch begins after is shown or was left out by a     *)
(* fetch that got to it, for any wallets, limits and overlapping fetches.  *)
THEOREM NothingEverPassedOver == ActivitySpec => []NothingPassedOver
<1>1. ActivityInv => NothingPassedOver
  BY DEF ActivityInv, EntriesFine, EntryFine, NothingPassedOver
<1> QED
  BY <1>1, ActivityInitInv, ActivityNextInv, PTL DEF ActivitySpec

-----------------------------------------------------------------------------
(* The countdowns, alone and from time 0.                                  *)
TimingSpec == now = 0 /\ TimingInit /\ [][TimingNext]_timingVars

Origin(v) == IF v = None THEN 0 ELSE Second * v.lastRollTimestamp

(* From one mark to the next.                                              *)
Stride(v) ==
    IF Origin(v) > 0 THEN MinDuration(v) ELSE IF isDemo THEN Second * DemoPeriod ELSE AlignHours * Hour

(* What is counted down to is a mark that is not far away: none but the    *)
(* first is more than a stride ahead.                                      *)
CountdownFine(v, shown) ==
    /\ v = None /\ ~isDemo => shown.nextRollTime = 0
    /\ v # None \/ isDemo =>
         \E k \in Nat \ {0} :
            /\ shown.nextRollTime = Origin(v) + k * Stride(v)
            /\ k = 1 \/ shown.nextRollTime - Stride(v) <= Moment
    /\ shown.epochProgress = 100 => v # None /\ Origin(v) + MinDuration(v) <= Moment

TimingInv ==
    /\ now \in Nat /\ isDemo \in BOOLEAN
    /\ vault \in [Views -> VaultData \cup {None}]
    /\ timing = [w \in Views |-> timing[w]]
    /\ \A w \in Views : CountdownFine(vault[w], timing[w])

LEMMA UnitsAre ==
  /\ Second \in Nat \ {0} /\ Minute \in Nat \ {0} /\ Hour \in Nat \ {0} /\ Day \in Nat \ {0}
  /\ AlignHours \in Nat \ {0} /\ DemoPeriod \in Nat \ {0} /\ ProdPeriod \in Nat \ {0}
  /\ FirstMoment \in Nat
  BY TimingOK

LEMMA StrideIs ==
  ASSUME NEW v \in VaultData \cup {None}
  PROVE  /\ Origin(v) \in Nat /\ MinDuration(v) \in Nat \ {0} /\ Stride(v) \in Nat \ {0}
         /\ v # None => Origin(v) + Second * v.minEpochDuration <= Origin(v) + MinDuration(v)
<1>1. v # None => v.lastRollTimestamp \in Nat /\ v.minEpochDuration \in Nat
  BY TimingOK DEF VaultData
<1>2. Origin(v) \in Nat
  BY <1>1, UnitsAre DEF Origin
<1>3. MinDuration(v) \in Nat \ {0}
  BY <1>1, UnitsAre, TimesPositive DEF MinDuration
<1>4. Stride(v) \in Nat \ {0}
  BY <1>3, UnitsAre, TimesPositive DEF Stride
<1>5. v # None => Second * v.minEpochDuration <= MinDuration(v)
  <2>1. CASE v # None /\ v.minEpochDuration # 0
    <3>1. MinDuration(v) = Second * v.minEpochDuration
      BY <2>1 DEF MinDuration
    <3> QED
      BY <1>1, <2>1, <3>1, UnitsAre
  <2>2. CASE v # None /\ v.minEpochDuration = 0
    BY <1>3, <2>2, UnitsAre
  <2> QED
    BY <2>1, <2>2
<1>6. v # None => Second * v.minEpochDuration \in Nat
  BY <1>1, UnitsAre
<1> QED
  BY <1>2, <1>3, <1>4, <1>5, <1>6

(* A full bar means that the period is over.                               *)
LEMMA PercentFull ==
  ASSUME NEW elapsed \in Int, NEW period \in Nat \ {0}, Percent(elapsed, period) = 100
  PROVE  period <= elapsed
<1>1. (100 * elapsed) \div period \in Int
      /\ (100 <= (100 * elapsed) \div period <=> 100 * period <= 100 * elapsed)
  BY DivLeast
<1>2. 100 <= (100 * elapsed) \div period
  <2> DEFINE d == (100 * elapsed) \div period
  <2>1. d \in Int
    BY <1>1
  <2>2. Percent(elapsed, period) = LowerOf(100, LargerOf(0, d))
    BY DEF Percent
  <2> HIDE DEF d
  <2>3. 100 <= d
    BY <2>1, <2>2 DEF LowerOf, LargerOf
  <2> QED
    BY <2>3 DEF d
<1> QED
  BY <1>1, <1>2

LEMMA PeriodEndIs ==
  ASSUME NEW last \in Nat, NEW period \in Nat \ {0}, Moment \in Nat
  PROVE  \E k \in Nat \ {0} :
            /\ PeriodEnd(last, period) = last + k * period
            /\ k = 1 \/ PeriodEnd(last, period) - period <= Moment
<1> DEFINE e == LargerOf(0, Moment - last)
           q == e \div period
<1>1. e \in Nat /\ (e = 0 \/ e = Moment - last)
  BY DEF LargerOf
<1>2. q \in Nat /\ q * period <= e
  <2> HIDE DEF e
  <2> QED BY <1>1, DivBounds
<1>3. PeriodEnd(last, period) = last + (q + 1) * period
  BY DEF PeriodEnd
<1> HIDE DEF q, e
<1>4. (q + 1) * period = q * period + period /\ q * period \in Nat
  BY <1>2, TimesMonotonic
<1>5. CASE e = 0
  <2>1. q = 0
    <3>1. q # 0 => 1 * period <= q * period
      BY <1>2, TimesMonotonic
    <3> QED
      BY <1>2, <1>4, <1>5, <3>1
  <2> QED
    BY <1>3, <2>1
<1>6. CASE e = Moment - last
  BY <1>2, <1>3, <1>4, <1>6
<1> QED
  BY <1>1, <1>5, <1>6

LEMMA DemoMarkIs ==
  ASSUME Moment \in Nat
  PROVE  /\ DemoMark \in Nat /\ Moment < DemoMark
         /\ \E k \in Nat \ {0} :
               DemoMark = k * (Second * DemoPeriod) /\ DemoMark - Second * DemoPeriod <= Moment
<1> DEFINE s == Moment \div Second
           q == s \div DemoPeriod
<1>1. s \in Nat /\ s * Second <= Moment /\ Moment < (s + 1) * Second
  BY UnitsAre, DivBounds
<1>2. q \in Nat /\ q * DemoPeriod <= s /\ s < (q + 1) * DemoPeriod
  <2> HIDE DEF s
  <2> QED BY <1>1, UnitsAre, DivBounds
<1>3. s - (s % DemoPeriod) = q * DemoPeriod /\ s % DemoPeriod \in Nat
  <2> HIDE DEF s
  <2> QED BY <1>1, UnitsAre, ModIs
<1>4. DemoMark = Second * (s + DemoPeriod - (s % DemoPeriod))
  BY DEF DemoMark
<1> HIDE DEF q, s
<1>5. s + DemoPeriod - (s % DemoPeriod) = (q + 1) * DemoPeriod
  <2>1. (q + 1) * DemoPeriod = q * DemoPeriod + DemoPeriod /\ q * DemoPeriod \in Nat
    BY <1>2, UnitsAre, TimesMonotonic
  <2> QED
    BY <1>1, <1>3, <2>1, UnitsAre
<1>6. DemoMark = (q + 1) * (Second * DemoPeriod)
  BY <1>2, <1>4, <1>5, UnitsAre
<1>7. (q * DemoPeriod) * Second <= s * Second
  <2>1. q * DemoPeriod \in Int
    BY <1>2, UnitsAre
  <2> QED
    BY <1>1, <1>2, <2>1, UnitsAre, TimesMonotonic
<1>8. (q * DemoPeriod) * Second = q * (Second * DemoPeriod)
  BY <1>2, UnitsAre
<1>9. (q + 1) * (Second * DemoPeriod) = q * (Second * DemoPeriod) + Second * DemoPeriod
  <2>1. Second * DemoPeriod \in Nat
    BY UnitsAre
  <2> QED
    BY <1>2, <2>1, TimesMonotonic
<1>10. (s + 1) * Second <= ((q + 1) * DemoPeriod) * Second
  <2>1. (q + 1) * DemoPeriod \in Int /\ s + 1 \in Int /\ s + 1 <= (q + 1) * DemoPeriod
    BY <1>1, <1>2, UnitsAre
  <2> QED
    BY <2>1, UnitsAre, TimesMonotonic
<1>11. ((q + 1) * DemoPeriod) * Second = (q + 1) * (Second * DemoPeriod)
  BY <1>2, UnitsAre
<1>12. q * (Second * DemoPeriod) \in Nat /\ Second * DemoPeriod \in Nat /\ s * Second \in Nat
       /\ (s + 1) * Second \in Nat /\ (q + 1) * (Second * DemoPeriod) \in Nat
  BY <1>1, <1>2, UnitsAre
<1>13. DemoMark \in Nat /\ Moment < DemoMark
  BY <1>1, <1>6, <1>10, <1>11, <1>12
<1>14. DemoMark - Second * DemoPeriod <= Moment
  BY <1>1, <1>6, <1>7, <1>8, <1>9, <1>12
<1> QED
  BY <1>2, <1>6, <1>13, <1>14

(* The minutes of the code add up: six hours divide the day.               *)
LEMMA ProdMarkIs ==
  ASSUME Moment \in Nat
  PROVE  \E k \in Nat \ {0} : /\ ProdMark = k * (AlignHours * Hour)
                              /\ ProdMark - AlignHours * Hour <= Moment
<1> DEFINE minutes == (Moment % Day) \div Minute
           align   == AlignHours * Hour
           perMark == align \div Minute
           c       == (minutes + perMark - 1) \div perMark
           d       == Moment \div Day
           r       == Moment % Day
           h       == Hour \div Minute
           mark    == (Moment - r) + align * c
<1>1. align \in Nat \ {0}
  BY UnitsAre, TimesPositive
<1>2. r \in Nat /\ d \in Nat /\ Moment - r = d * Day
  BY UnitsAre, ModIs, DivBounds
<1>3. minutes \in Nat /\ minutes * Minute <= r
  <2> HIDE DEF r
  <2>1. minutes = r \div Minute
    BY DEF r
  <2> QED BY <1>2, <2>1, UnitsAre, DivBounds
<1>4. Hour = h * Minute /\ h \in Nat
  <2>1. Hour - (Hour % Minute) = h * Minute /\ h \in Nat
    BY UnitsAre, ModIs, DivBounds
  <2> QED
    BY <2>1, UnitsAre, TimingOK
<1>5. perMark \in Nat \ {0} /\ align = perMark * Minute
  <2>1. align = (AlignHours * h) * Minute
    <3> HIDE DEF h
    <3> QED BY <1>4, UnitsAre
  <2>2. AlignHours * h \in Nat
    BY <1>4, UnitsAre
  <2>3. perMark \in Nat /\ perMark * Minute <= align /\ align < (perMark + 1) * Minute
    <3> HIDE DEF align
    <3> QED BY <1>1, UnitsAre, DivBounds
  <2> HIDE DEF h, perMark, align
  <2>4. ~(perMark + 1 <= AlignHours * h) /\ ~(AlignHours * h + 1 <= perMark)
    <3>1. perMark + 1 <= AlignHours * h => (perMark + 1) * Minute <= (AlignHours * h) * Minute
      BY <2>2, <2>3, UnitsAre, TimesMonotonic
    <3>2. AlignHours * h + 1 <= perMark => (AlignHours * h + 1) * Minute <= perMark * Minute
      BY <2>2, <2>3, UnitsAre, TimesMonotonic
    <3>3. (AlignHours * h + 1) * Minute = (AlignHours * h) * Minute + Minute
      BY <2>2, UnitsAre, TimesMonotonic
    <3>4. (perMark + 1) * Minute \in Int /\ perMark * Minute \in Int /\ (AlignHours * h) * Minute \in Int
      BY <2>2, <2>3, UnitsAre
    <3> QED
      BY <2>1, <2>3, <3>1, <3>2, <3>3, <3>4, UnitsAre
  <2>5. perMark = AlignHours * h
    BY <2>2, <2>3, <2>4
  <2>6. perMark # 0
    BY <1>1, <2>1, <2>5, UnitsAre
  <2> QED
    BY <2>1, <2>3, <2>5, <2>6
<1> HIDE DEF perMark, minutes, align, h
<1>6. c \in Nat /\ c * perMark <= minutes + perMark - 1
  <2>1. minutes + perMark - 1 \in Nat
    BY <1>3, <1>5
  <2> QED
    BY <1>5, <2>1, DivBounds
<1> HIDE DEF c, r
<1>7. c * align <= r + align
  <2>1. c * perMark \in Int /\ (c * perMark) * Minute <= (minutes + perMark) * Minute
    BY <1>3, <1>5, <1>6, UnitsAre, TimesMonotonic
  <2>2. (c * perMark) * Minute = c * align
    BY <1>5, <1>6, UnitsAre
  <2>3. (minutes + perMark) * Minute = minutes * Minute + align
    BY <1>3, <1>5, UnitsAre
  <2>4. c * align \in Int /\ minutes * Minute \in Int
    BY <1>1, <1>3, <1>6, UnitsAre
  <2> QED
    BY <1>1, <1>2, <1>3, <2>1, <2>2, <2>3, <2>4
<1>8. Day = (Day \div align) * align /\ Day \div align \in Nat
  <2>1. Day % align = 0
    BY TimingOK DEF align
  <2>2. Day - (Day % align) = (Day \div align) * align /\ Day \div align \in Nat
    BY <1>1, UnitsAre, ModIs, DivBounds
  <2> QED
    BY <2>1, <2>2, UnitsAre
<1> DEFINE g == Day \div align
           n == d * g + c
<1> HIDE DEF g, d
<1>9. n \in Nat /\ mark = n * align
  <2>1. d * Day = (d * g) * align
    <3>1. Day = g * align /\ g \in Nat
      BY <1>8 DEF g
    <3> QED
      BY <1>1, <1>2, <3>1, UnitsAre
  <2>2. d * g \in Nat
    BY <1>2, <1>8 DEF g
  <2>3. mark = (d * g) * align + align * c
    BY <1>2, <2>1
  <2> HIDE DEF mark
  <2> QED
    BY <1>1, <1>6, <2>2, <2>3
<1>10. ProdMark = IF mark <= Moment THEN mark + align ELSE mark
  BY DEF ProdMark, minutes, align, perMark, c, r
<1>11. mark - align <= Moment /\ mark \in Nat
  <2>1. align * c = c * align /\ c * align \in Int
    BY <1>1, <1>6
  <2>2. mark \in Nat
    <3> HIDE DEF n, mark
    <3>1. n * align \in Nat
      BY <1>1, <1>9
    <3> QED BY <1>9, <3>1
  <2> HIDE DEF n
  <2> QED
    BY <1>1, <1>2, <1>7, <2>1, <2>2
<1> HIDE DEF n, mark
<1>12. CASE mark <= Moment
  <2>1. ProdMark = (n + 1) * align
    BY <1>1, <1>9, <1>10, <1>12, TimesMonotonic
  <2>2. ProdMark - align <= Moment
    BY <1>1, <1>10, <1>11, <1>12
  <2> QED
    BY <1>9, <2>1, <2>2 DEF align
<1>13. CASE ~(mark <= Moment)
  <2>1. ProdMark = n * align /\ ProdMark - align <= Moment
    BY <1>9, <1>10, <1>11, <1>13
  <2>2. n # 0
    BY <1>1, <1>9, <1>11, <1>13
  <2> QED
    BY <1>9, <2>1, <2>2 DEF align
<1> QED
  BY <1>12, <1>13

(* What a view computes is fine at that moment.                            *)
LEMMA CalculatedFine ==
  ASSUME now \in Nat, isDemo \in BOOLEAN, NEW v \in VaultData \cup {None}
  PROVE  CountdownFine(v, calculateVaultTiming(v))
<1> DEFINE shown == calculateVaultTiming(v)
           last  == Origin(v)
<1>1. Moment \in Nat
  BY UnitsAre DEF Moment
<1>2. last \in Nat /\ MinDuration(v) \in Nat \ {0}
  BY StrideIs
<1>3. CASE v = None /\ ~isDemo
  <2>1. shown = [nextRollTime |-> 0, epochProgress |-> 0]
    BY <1>3 DEF calculateVaultTiming
  <2> QED
    BY <1>3, <2>1 DEF CountdownFine
<1>4. CASE ~(v = None /\ ~isDemo) /\ last > 0
  <2>1. shown = [nextRollTime |-> PeriodEnd(last, MinDuration(v)),
                 epochProgress |-> Percent(Moment - last, MinDuration(v))]
    BY <1>4 DEF calculateVaultTiming, Origin
  <2>2. Stride(v) = MinDuration(v) /\ v # None
    BY <1>4 DEF Stride, Origin
  <2>3. shown.epochProgress = 100 => last + MinDuration(v) <= Moment
    <3>1. Moment - last \in Int
      BY <1>1, <1>2
    <3>2. shown.epochProgress = 100 => MinDuration(v) <= Moment - last
      BY <1>2, <2>1, <3>1, PercentFull
    <3> QED
      BY <1>1, <1>2, <3>2
  <2>5. shown.nextRollTime = PeriodEnd(last, MinDuration(v))
    BY <2>1
  <2> HIDE DEF last, shown
  <2>4. PICK k \in Nat \ {0} :
            /\ shown.nextRollTime = last + k * MinDuration(v)
            /\ k = 1 \/ shown.nextRollTime - MinDuration(v) <= Moment
    BY <1>1, <1>2, <2>5, PeriodEndIs
  <2> HIDE DEF shown
  <2> QED
    BY <2>2, <2>3, <2>4 DEF CountdownFine, last, shown
<1>5. CASE ~(v = None /\ ~isDemo) /\ ~(last > 0)
  <2>1. last = 0
    BY <1>2, <1>5
  <2>2. CASE isDemo
    <3>1. shown = [nextRollTime  |-> DemoMark,
                   epochProgress |-> Percent(Second * DemoPeriod - (DemoMark - Moment),
                                             Second * DemoPeriod)]
      BY <2>1, <2>2 DEF calculateVaultTiming, Origin
    <3>2. Stride(v) = Second * DemoPeriod
      BY <1>5, <2>2 DEF Stride
    <3>3. shown.epochProgress # 100
      <4>1. Second * DemoPeriod \in Nat \ {0}
        BY UnitsAre, TimesPositive
      <4>2. DemoMark \in Nat /\ Moment < DemoMark
        BY <1>1, DemoMarkIs
      <4>3. Second * DemoPeriod - (DemoMark - Moment) \in Int
            /\ ~(Second * DemoPeriod <= Second * DemoPeriod - (DemoMark - Moment))
        BY <1>1, <4>1, <4>2
      <4> QED
        BY <3>1, <4>1, <4>3, PercentFull
    <3>4. PICK k \in Nat \ {0} :
              /\ shown.nextRollTime = k * Stride(v)
              /\ shown.nextRollTime - Stride(v) <= Moment
      BY <1>1, <3>1, <3>2, DemoMarkIs
    <3>5. k * Stride(v) \in Nat
      BY StrideIs
    <3>6. shown.nextRollTime = last + k * Stride(v)
      BY <2>1, <3>4, <3>5
    <3> HIDE DEF shown
    <3> QED
      BY <2>2, <3>3, <3>4, <3>6 DEF CountdownFine, shown
  <2>3. CASE ~isDemo
    <3>1. shown = [nextRollTime |-> ProdMark, epochProgress |-> 0]
      BY <1>5, <2>1, <2>3 DEF calculateVaultTiming, Origin
    <3>2. Stride(v) = AlignHours * Hour
      BY <1>5, <2>3 DEF Stride
    <3>4. PICK k \in Nat \ {0} :
              /\ shown.nextRollTime = k * Stride(v)
              /\ shown.nextRollTime - Stride(v) <= Moment
      BY <1>1, <3>1, <3>2, ProdMarkIs
    <3>5. k * Stride(v) \in Nat
      BY StrideIs
    <3>6. shown.nextRollTime = last + k * Stride(v)
      BY <2>1, <3>4, <3>5
    <3>7. shown.epochProgress # 100
      BY <3>1
    <3> HIDE DEF shown
    <3> QED
      BY <1>5, <2>3, <3>4, <3>6, <3>7 DEF CountdownFine, shown
  <2> QED
    BY <2>2, <2>3
<1> QED
  BY <1>3, <1>4, <1>5

LEMMA TimingInitInv == TimingInit /\ now = 0 => TimingInv
<1> SUFFICES ASSUME TimingInit, now = 0 PROVE TimingInv
  OBVIOUS
<1>1. CountdownFine(None, calculateVaultTiming(None))
  BY CalculatedFine DEF TimingInit
<1> QED
  BY <1>1 DEF TimingInit, TimingInv

(* It stays so as time goes on, whenever a view computes anew.             *)
LEMMA FineStays ==
  ASSUME NEW v, NEW shown, CountdownFine(v, shown), now \in Nat, now' \in Nat, now <= now',
         UNCHANGED isDemo, v \in VaultData \cup {None}
  PROVE  CountdownFine(v, shown)'
<1>1. Stride(v)' = Stride(v) /\ MinDuration(v)' = MinDuration(v) /\ Origin(v)' = Origin(v)
  BY DEF Stride, MinDuration, Origin
<1>2. Moment \in Nat /\ Moment' \in Nat /\ Moment <= Moment'
  <2>1. FirstMoment \in Nat /\ now \in Nat /\ now' \in Nat /\ now <= now'
    BY UnitsAre
  <2>2. \A m, x, y \in Nat : x <= y => m + x \in Nat /\ m + y \in Nat /\ m + x <= m + y
    OBVIOUS
  <2>3. Moment = FirstMoment + now /\ Moment' = FirstMoment + now'
    BY DEF Moment
  <2> QED
    BY <2>1, <2>2, <2>3
<1>3. Stride(v) \in Nat /\ Origin(v) \in Nat /\ MinDuration(v) \in Nat
  BY StrideIs
<1>4. \A k \in Nat : k * Stride(v) \in Nat
  BY <1>3
<1> QED
  BY <1>1, <1>2, <1>3, <1>4 DEF CountdownFine

LEMMA TimingStep ==
  ASSUME TimingInv, NEW w \in Views, NEW v \in VaultData \cup {None},
         vault' = [vault EXCEPT ![w] = v], SetTiming(w, v), UNCHANGED <<now, isDemo>>
  PROVE  TimingInv'
<1>1. CountdownFine(v, calculateVaultTiming(v))
  BY CalculatedFine DEF TimingInv
<1>2. timing' = [timing EXCEPT ![w] = calculateVaultTiming(v)]
  BY DEF SetTiming
<1>3. \A u \in Views : CountdownFine(vault'[u], timing'[u])
  <2> SUFFICES ASSUME NEW u \in Views PROVE CountdownFine(vault'[u], timing'[u])
    OBVIOUS
  <2>1. CASE u = w
    BY <1>1, <1>2, <2>1 DEF TimingInv
  <2>2. CASE u # w
    BY <1>2, <2>2 DEF TimingInv
  <2> QED
    BY <2>1, <2>2
<1>4. (\A u \in Views : CountdownFine(vault[u], timing[u]))'
  BY <1>3 DEF CountdownFine, Stride, MinDuration, Origin, Moment
<1> QED
  BY <1>2, <1>4 DEF TimingInv

LEMMA TimingNextInv == TimingInv /\ [TimingNext]_timingVars => TimingInv'
<1> SUFFICES ASSUME TimingInv, [TimingNext]_timingVars PROVE TimingInv'
  OBVIOUS
<1>1. ASSUME NEW w \in Views, TickView(w) PROVE TimingInv'
  <2>1. vault' = [vault EXCEPT ![w] = vault[w]] /\ vault[w] \in VaultData \cup {None}
    BY <1>1 DEF TickView, TimingInv
  <2> QED
    BY <1>1, <2>1, TimingStep DEF TickView
<1>2. ASSUME NEW w \in Views, NEW v \in VaultData \cup {None}, GiveVault(w, v) PROVE TimingInv'
  BY <1>2, TimingStep DEF GiveVault
<1>3. ASSUME now' \in Nat, now <= now', UNCHANGED <<isDemo, vault, timing>> PROVE TimingInv'
  <2>1. \A w \in Views : CountdownFine(vault[w], timing[w])'
    <3> SUFFICES ASSUME NEW w \in Views PROVE CountdownFine(vault[w], timing[w])'
      OBVIOUS
    <3>1. PICK v, shown : v = vault[w] /\ shown = timing[w]
      OBVIOUS
    <3>2. v \in VaultData \cup {None} /\ CountdownFine(v, shown)
      BY <3>1 DEF TimingInv
    <3>3. now \in Nat /\ now' \in Nat /\ now <= now' /\ UNCHANGED isDemo
      BY <1>3 DEF TimingInv
    <3>4. CountdownFine(v, shown)'
      BY <3>2, <3>3, FineStays
    <3>5. vault'[w] = v /\ timing'[w] = shown
      BY <1>3, <3>1
    <3> QED
      BY <3>4, <3>5
  <2> QED
    BY <1>3, <2>1 DEF TimingInv
<1>4. CASE TimingTick
  BY <1>3, <1>4 DEF TimingTick, Tick, TimingInv
<1>5. CASE UNCHANGED timingVars
  BY <1>3, <1>5 DEF timingVars, TimingInv
<1> QED
  BY <1>1, <1>2, <1>4, <1>5 DEF TimingNext

(* Two views of the same data count to the same mark, or the earlier one   *)
(* has passed.                                                             *)
LEMMA MarksAgree ==
  ASSUME now \in Nat, NEW v \in VaultData \cup {None}, NEW one, NEW other,
         CountdownFine(v, one), CountdownFine(v, other)
  PROVE  \/ other.nextRollTime = one.nextRollTime
         \/ LowerOf(other.nextRollTime, one.nextRollTime) <= Moment
<1>1. CASE v = None /\ ~isDemo
  BY <1>1 DEF CountdownFine
<1>2. CASE v # None \/ isDemo
  <2> DEFINE p == Stride(v)
             o == Origin(v)
             a == one.nextRollTime
             b == other.nextRollTime
  <2>1. PICK k \in Nat \ {0} : a = o + k * p /\ (k = 1 \/ a - p <= Moment)
    BY <1>2 DEF CountdownFine
  <2>2. PICK l \in Nat \ {0} : b = o + l * p /\ (l = 1 \/ b - p <= Moment)
    BY <1>2 DEF CountdownFine
  <2>3. p \in Nat /\ o \in Nat /\ Moment \in Nat
    BY StrideIs, UnitsAre DEF Moment
  <2> HIDE DEF p, o, a, b
  <2>4. k * p \in Nat /\ l * p \in Nat /\ a \in Nat /\ b \in Nat
    BY <2>1, <2>2, <2>3
  <2>5. CASE k = l
    BY <2>1, <2>2, <2>5 DEF a, b
  <2>6. ASSUME k < l PROVE a <= Moment
    <3>1. (k + 1) * p <= l * p /\ (k + 1) * p = k * p + p
      BY <2>3, <2>6, TimesMonotonic
    <3>2. b - p <= Moment
      BY <2>2, <2>6
    <3> QED
      BY <2>1, <2>2, <2>3, <2>4, <3>1, <3>2
  <2>7. ASSUME l < k PROVE b <= Moment
    <3>1. (l + 1) * p <= k * p /\ (l + 1) * p = l * p + p
      BY <2>3, <2>7, TimesMonotonic
    <3>2. a - p <= Moment
      BY <2>1, <2>7
    <3> QED
      BY <2>1, <2>2, <2>3, <2>4, <3>1, <3>2
  <2>8. LowerOf(b, a) <= a /\ LowerOf(b, a) <= b
    BY <2>4 DEF LowerOf
  <2>9. LowerOf(b, a) \in Nat
    BY <2>4 DEF LowerOf
  <2>10. CASE k < l
    BY <2>3, <2>4, <2>6, <2>8, <2>9, <2>10 DEF a, b
  <2>11. CASE l < k
    BY <2>3, <2>4, <2>7, <2>8, <2>9, <2>11 DEF a, b
  <2> QED
    BY <2>5, <2>10, <2>11
<1> QED
  BY <1>1, <1>2

LEMMA InvAgrees == TimingInv => CountdownsAgree
<1> SUFFICES ASSUME TimingInv, NEW w \in Views
             PROVE  /\ \A u \in Views : vault[u] = vault[w] =>
                         \/ timing[u].nextRollTime = timing[w].nextRollTime
                         \/ LowerOf(timing[u].nextRollTime, timing[w].nextRollTime) <= Moment
                    /\ timing[w].epochProgress = 100 =>
                         /\ vault[w] # None
                         /\ Moment \div Second >= vault[w].lastRollTimestamp + vault[w].minEpochDuration
  BY DEF CountdownsAgree
<1>1. now \in Nat /\ \A u \in Views : vault[u] \in VaultData \cup {None} /\ CountdownFine(vault[u], timing[u])
  BY DEF TimingInv
<1>2. ASSUME NEW u \in Views, vault[u] = vault[w]
      PROVE  \/ timing[u].nextRollTime = timing[w].nextRollTime
             \/ LowerOf(timing[u].nextRollTime, timing[w].nextRollTime) <= Moment
  BY <1>1, <1>2, MarksAgree
<1>3. ASSUME timing[w].epochProgress = 100
      PROVE  /\ vault[w] # None
             /\ Moment \div Second >= vault[w].lastRollTimestamp + vault[w].minEpochDuration
  <2> DEFINE v == vault[w]
             due == v.lastRollTimestamp + v.minEpochDuration
  <2>1. v \in VaultData /\ Origin(v) + MinDuration(v) <= Moment /\ v # None
    BY <1>1, <1>3 DEF CountdownFine
  <2>2. v.lastRollTimestamp \in Nat /\ v.minEpochDuration \in Nat
    BY <2>1, TimingOK DEF VaultData
  <2>3. Origin(v) = Second * v.lastRollTimestamp
    BY <2>1 DEF Origin
  <2>4. Moment \in Nat /\ Origin(v) \in Nat /\ MinDuration(v) \in Nat
        /\ Origin(v) + Second * v.minEpochDuration <= Origin(v) + MinDuration(v)
    BY <1>1, <2>1, StrideIs, UnitsAre DEF Moment
  <2>5. due * Second = Second * v.lastRollTimestamp + Second * v.minEpochDuration
    BY <2>2, UnitsAre
  <2>6. Second * v.minEpochDuration \in Nat
    BY <2>2, UnitsAre
  <2>7. due * Second <= Moment
    <3> HIDE DEF v, due
    <3> QED BY <2>1, <2>3, <2>4, <2>5, <2>6
  <2>8. due \in Nat
    BY <2>2
  <2> HIDE DEF v, due
  <2>9. Moment \div Second \in Int /\ due <= Moment \div Second
    BY <2>4, <2>7, <2>8, UnitsAre, DivLeast
  <2> QED
    BY <2>1, <2>8, <2>9 DEF v, due
<1> QED
  BY <1>2, <1>3

(* The countdowns (vault-timing.ts): views given the same data agree until *)
(* a mark passes, and none is full early, for any data, any units that     *)
(* divide each other and any time the intervals are held back.             *)
THEOREM CountdownsAlwaysAgree == TimingSpec => []CountdownsAgree
  BY TimingInitInv, TimingNextInv, InvAgrees, PTL DEF TimingSpec

-----------------------------------------------------------------------------
(* The security monitor, alone and from time 0.                            *)
MonitorSpec == MonitorInit /\ now = 0 /\ [][MonitorNext]_monitorVars

EventRecord == [source : Sources, at : Int]

(* The places of a log that are a source's.                                *)
Places(log, s) == {i \in 1..Len(log) : log[i].source = s}

(* One sequence has what another has at some of its first n places, in     *)
(* that order.                                                             *)
TakenBy(part, log, n) ==
    \E p \in [1..Len(part) -> 1..n] :
        /\ \A k \in 1..Len(part) : part[k] = log[p[k]]
        /\ \A j, k \in 1..Len(part) : j < k => p[j] < p[k]

Taken(part, log) == TakenBy(part, log, Len(log))

MonitorInv ==
    /\ now \in Int
    /\ events \in Seq(EventRecord)
    /\ sourceEventCounts \in [Sources -> Nat]
    /\ CountsCoverEvents

LEMMA PlacesFinite ==
  ASSUME NEW S, NEW log \in Seq(S), NEW s
  PROVE  IsFiniteSet(Places(log, s)) /\ Cardinality(Places(log, s)) \in Nat
<1>1. IsFiniteSet(1..Len(log))
  BY FS_Interval
<1>2. Places(log, s) \in SUBSET (1..Len(log))
  BY DEF Places
<1> QED
  BY <1>1, <1>2, FS_Subset, FS_CardinalityType

(* What is taken from a log is not more of any source.                     *)
LEMMA TakenIsLess ==
  ASSUME NEW S, NEW log \in Seq(S), NEW part \in Seq(S), Taken(part, log), NEW s
  PROVE  Cardinality(Places(part, s)) <= Cardinality(Places(log, s))
<1>1. PICK p \in [1..Len(part) -> 1..Len(log)] :
        /\ \A k \in 1..Len(part) : part[k] = log[p[k]]
        /\ \A j, k \in 1..Len(part) : j < k => p[j] < p[k]
  BY DEF Taken, TakenBy
<1>2. Len(part) \in Nat /\ Len(log) \in Nat
  OBVIOUS
<1> DEFINE f == [k \in Places(part, s) |-> p[k]]
<1>3. f \in [Places(part, s) -> Places(log, s)]
  BY <1>1 DEF Places
<1>4. IsInjective(f)
  <2> SUFFICES ASSUME NEW j \in Places(part, s), NEW k \in Places(part, s), f[j] = f[k]
               PROVE  j = k
    BY DEF IsInjective
  <2>1. j \in 1..Len(part) /\ k \in 1..Len(part) /\ p[j] = p[k]
    BY DEF Places
  <2>2. p[j] \in 1..Len(log) /\ p[k] \in 1..Len(log)
    BY <1>1, <2>1
  <2>3. j \in Int /\ k \in Int /\ p[j] \in Int /\ p[k] \in Int
    BY <1>2, <2>1, <2>2
  <2> QED
    BY <1>1, <2>1, <2>3
<1>5. f \in Injection(Places(part, s), Places(log, s))
  BY <1>3, <1>4 DEF Injection
<1> HIDE DEF f
<1> QED
  BY <1>5, PlacesFinite, FS_Injection

(* Of an appended event at most one more.                                  *)
LEMMA PlacesAppended ==
  ASSUME NEW log \in Seq(EventRecord), NEW n \in Nat, NEW e \in EventRecord, NEW s,
         NEW more, more = log \o [i \in 1..n |-> e]
  PROVE  /\ more \in Seq(EventRecord)
         /\ Cardinality(Places(more, s))
              <= Cardinality(Places(log, s)) + (IF s = e.source THEN n ELSE 0)
<1> DEFINE new == [i \in 1..n |-> e]
<1>1. new \in Seq(EventRecord) /\ Len(new) = n /\ Len(log) \in Nat
  OBVIOUS
<1>7. more = log \o new
  OBVIOUS
<1>2. more \in Seq(EventRecord) /\ Len(more) = Len(log) + n
  <2> HIDE DEF new
  <2> QED BY <1>1, <1>7
<1>3. \A i \in 1..Len(log) : more[i] = log[i]
  <2> HIDE DEF new
  <2> QED BY <1>1, <1>7
<1>4. \A i \in (Len(log) + 1)..(Len(log) + n) : more[i] = e
  <2> SUFFICES ASSUME NEW i \in (Len(log) + 1)..(Len(log) + n) PROVE more[i] = e
    OBVIOUS
  <2>1. i - Len(log) \in 1..n
    BY <1>1
  <2>2. more[i] = new[i - Len(log)]
    <3> HIDE DEF new
    <3> QED BY <1>1, <1>7, <2>1
  <2> QED
    BY <2>1, <2>2
<1> HIDE DEF new
<1>5. CASE s = e.source
  <2> DEFINE a == Len(log) + 1
             b == Len(log) + n
  <2>1. a \in Int /\ b \in Int /\ (a > b => n = 0) /\ b - a + 1 = n
    BY <1>1
  <2> HIDE DEF a, b
  <2>2. IsFiniteSet(a..b) /\ Cardinality(a..b) = n
    BY <2>1, FS_Interval
  <2>3. Places(more, s) \in SUBSET (Places(log, s) \cup (a..b))
    BY <1>1, <1>2, <1>3 DEF Places, a, b
  <2>4. IsFiniteSet(Places(log, s) \cup (a..b))
        /\ Cardinality(Places(log, s) \cup (a..b)) =
             Cardinality(Places(log, s)) + n - Cardinality(Places(log, s) \cap (a..b))
    BY <2>2, PlacesFinite, FS_Union
  <2>5. Cardinality(Places(log, s) \cap (a..b)) \in Nat
    <3>1. Places(log, s) \cap (a..b) \in SUBSET (a..b)
      OBVIOUS
    <3> QED
      BY <2>2, <3>1, FS_Subset, FS_CardinalityType
  <2>6. Cardinality(Places(more, s)) <= Cardinality(Places(log, s) \cup (a..b))
    BY <2>3, <2>4, FS_Subset
  <2>7. Cardinality(Places(more, s)) \in Nat /\ Cardinality(Places(log, s)) \in Nat
    BY <1>2, PlacesFinite
  <2> QED
    BY <1>2, <1>5, <2>4, <2>5, <2>6, <2>7
<1>6. CASE s # e.source
  <2>1. Places(more, s) = Places(log, s)
    <3>1. \A i \in 1..Len(more) : i \in 1..Len(log) \/ i \in (Len(log) + 1)..(Len(log) + n)
      BY <1>1, <1>2
    <3>2. \A i \in 1..Len(log) : i \in 1..Len(more)
      BY <1>1, <1>2
    <3> QED
      BY <1>3, <1>4, <1>6, <3>1, <3>2 DEF Places
  <2>2. Cardinality(Places(log, s)) \in Nat
    BY PlacesFinite
  <2> QED
    BY <1>2, <1>6, <2>1, <2>2
<1> QED
  BY <1>5, <1>6

LEMMA LastTaken ==
  ASSUME NEW log \in Seq(EventRecord), Len(log) > MaxEvents
  PROVE  LastOf(log) \in Seq(EventRecord) /\ Taken(LastOf(log), log)
<1> DEFINE from == Len(log) - MaxEvents + 1
           part == SubSeq(log, from, Len(log))
           p == [k \in 1..Len(part) |-> k + Len(log) - MaxEvents]
<1>1. MaxEvents \in Nat /\ Len(log) \in Nat /\ from \in 1..(Len(log) + 1)
  BY MonitorOK
<1>2. part \in Seq(EventRecord) /\ Len(part) = MaxEvents
      /\ \A k \in 1..Len(part) : part[k] = log[k + Len(log) - MaxEvents]
  BY <1>1
<1>3. LastOf(log) = part
  BY DEF LastOf
<1> HIDE DEF part, from
<1>4. p \in [1..Len(part) -> 1..Len(log)] /\ \A k \in 1..Len(part) : p[k] = k + Len(log) - MaxEvents
  BY <1>1, <1>2
<1> HIDE DEF p
<1>5. \A j, k \in 1..Len(part) : j < k => p[j] < p[k]
  BY <1>1, <1>2, <1>4
<1>6. Taken(part, log)
  BY <1>2, <1>4, <1>5 DEF Taken, TakenBy
<1> QED
  BY <1>2, <1>3, <1>6

(* The filter, place by place.                                             *)
Keeps(f, log, o, n) ==
    f = [i \in 0..n |->
            IF i = 0 THEN <<>>
            ELSE IF log[i].at >= o THEN Append(f[i - 1], log[i]) ELSE f[i - 1]]

LEMMA KeepsExists ==
  ASSUME NEW log, NEW o, NEW n \in Nat
  PROVE  \E f : Keeps(f, log, o, n)
<1> DEFINE Good(k) == \E f : Keeps(f, log, o, k)
           S == {k \in 0..n : ~Good(k)}
<1> SUFFICES ASSUME ~Good(n) PROVE FALSE
  OBVIOUS
<1>1. S \in SUBSET Nat /\ S # {}
  <2> HIDE DEF Good
  <2> QED OBVIOUS
<1>2. PICK k \in S : \A j \in S : k <= j
  <2> HIDE DEF S
  <2> QED BY <1>1, SomeSmallest
<1>3. Good(0)
  <2> DEFINE f == [i \in 0..0 |-> <<>>]
  <2>1. f = [i \in 0..0 |->
            IF i = 0 THEN <<>>
            ELSE IF log[i].at >= o THEN Append(f[i - 1], log[i]) ELSE f[i - 1]]
    OBVIOUS
  <2> QED
    BY <2>1 DEF Keeps
<1>4. k - 1 \in 0..n /\ k \in 1..n
  <2> HIDE DEF Good
  <2> QED BY <1>2, <1>3
<1>5. Good(k - 1)
  <2> HIDE DEF Good
  <2> QED BY <1>2, <1>4
<1>6. PICK g : Keeps(g, log, o, k - 1)
  BY <1>5
<1> DEFINE f == [i \in 0..k |->
                   IF i = 0 THEN <<>>
                   ELSE IF log[i].at >= o THEN Append(g[i - 1], log[i]) ELSE g[i - 1]]
<1>7. \A i \in 0..(k - 1) : f[i] = g[i]
  <2>1. \A i \in 0..(k - 1) :
           g[i] = IF i = 0 THEN <<>>
                  ELSE IF log[i].at >= o THEN Append(g[i - 1], log[i]) ELSE g[i - 1]
    BY <1>6, Zenon DEF Keeps
  <2>2. \A i \in 0..(k - 1) : i \in 0..k
    BY <1>4
  <2> QED
    BY <2>1, <2>2, Zenon
<1>8. \A i \in 0..k : i = 0 \/ i - 1 \in 0..(k - 1)
  BY <1>4
<1>9. \A i \in 0..k : f[i] = IF i = 0 THEN <<>>
                   ELSE IF log[i].at >= o THEN Append(f[i - 1], log[i]) ELSE f[i - 1]
  BY <1>7, <1>8
<1>10. f = [i \in 0..k |-> f[i]]
  OBVIOUS
<1> HIDE DEF f
<1>11. Keeps(f, log, o, k)
  BY <1>9, <1>10, Zenon DEF Keeps
<1> QED
  BY <1>2, <1>11

LEMMA AppendTaken ==
  ASSUME NEW S, NEW log \in Seq(S), NEW n \in Nat, n + 1 <= Len(log),
         NEW part \in Seq(S), NEW e, e = log[n + 1], TakenBy(part, log, n)
  PROVE  Append(part, e) \in Seq(S) /\ TakenBy(Append(part, e), log, n + 1)
<1>9. PICK p \in [1..Len(part) -> 1..n] :
         /\ \A k \in 1..Len(part) : part[k] = log[p[k]]
         /\ \A j, k \in 1..Len(part) : j < k => p[j] < p[k]
  BY DEF TakenBy
<1> DEFINE m == Len(part)
           q == [k \in 1..(m + 1) |-> IF k = m + 1 THEN n + 1 ELSE p[k]]
           longer == Append(part, e)
<1>1. m \in Nat /\ Len(log) \in Nat /\ n + 1 \in 1..Len(log)
  OBVIOUS
<1>2. e \in S
  BY <1>1
<1>3. longer \in Seq(S) /\ Len(longer) = m + 1 /\ longer[m + 1] = e
      /\ \A k \in 1..m : longer[k] = part[k]
  BY <1>2
<1>4. \A k \in 1..(m + 1) : k = m + 1 \/ k \in 1..m
  BY <1>1
<1>5. \A k \in 1..m : p[k] \in 1..n /\ k # m + 1
  BY <1>1, <1>9
<1>6. q \in [1..(m + 1) -> 1..(n + 1)] /\ q[m + 1] = n + 1 /\ \A k \in 1..m : q[k] = p[k]
  BY <1>1, <1>4, <1>5
<1> HIDE DEF q, longer
<1>7. \A k \in 1..(m + 1) : longer[k] = log[q[k]]
  BY <1>3, <1>4, <1>6, <1>9
<1>8. \A j, k \in 1..(m + 1) : j < k => q[j] < q[k]
  <2> SUFFICES ASSUME NEW j \in 1..(m + 1), NEW k \in 1..(m + 1), j < k PROVE q[j] < q[k]
    OBVIOUS
  <2>1. j \in 1..m
    BY <1>1
  <2>2. CASE k = m + 1
    <3>1. q[j] \in 1..n
      BY <1>5, <1>6, <2>1
    <3> QED
      BY <1>6, <2>2, <3>1
  <2>3. CASE k \in 1..m
    BY <1>6, <1>9, <2>1, <2>3
  <2> QED
    BY <1>4, <2>2, <2>3
<1>10. TakenBy(longer, log, n + 1)
  <2> HIDE DEF m
  <2> QED
    BY <1>3, <1>6, <1>7, <1>8, Zenon DEF TakenBy
<1> QED
  BY <1>3, <1>10 DEF longer

LEMMA SinceTaken ==
  ASSUME NEW S, NEW log \in Seq(S), NEW o
  PROVE  Since(log, o) \in Seq(S) /\ Taken(Since(log, o), log)
<1> DEFINE len == Len(log)
           kept == CHOOSE f : Keeps(f, log, o, len)
           Good(k) == kept[k] \in Seq(S) /\ TakenBy(kept[k], log, k)
           B == {k \in 0..len : ~Good(k)}
<1>1. len \in Nat
  OBVIOUS
<1>2. Since(log, o) = kept[len]
  BY DEF Since, Keeps
<1>3. Keeps(kept, log, o, len)
  BY <1>1, KeepsExists
<1> HIDE DEF kept
<1>4. \A i \in 0..len : kept[i] = IF i = 0 THEN <<>>
            ELSE IF log[i].at >= o THEN Append(kept[i - 1], log[i]) ELSE kept[i - 1]
  BY <1>3, Zenon DEF Keeps
<1>5. Good(0)
  <2>1. kept[0] = <<>> /\ Len(<<>>) = 0 /\ <<>> \in Seq(S)
    BY <1>1, <1>4
  <2>2. [i \in 1..0 |-> 0] \in [1..0 -> 1..0]
    OBVIOUS
  <2>3. \A i \in 1..0 : FALSE
    OBVIOUS
  <2> QED
    BY <2>1, <2>2, <2>3 DEF TakenBy
<1>6. Good(len)
  <2> SUFFICES ASSUME ~Good(len) PROVE FALSE
    OBVIOUS
  <2>1. B \in SUBSET Nat /\ B # {}
    <3> HIDE DEF Good
    <3> QED BY <1>1
  <2>2. PICK k \in B : \A j \in B : k <= j
    <3> HIDE DEF B
    <3> QED BY <2>1, SomeSmallest
  <2>3. k \in 0..len /\ ~Good(k)
    <3> HIDE DEF Good
    <3> QED BY <2>2
  <2>4. k # 0
    <3> HIDE DEF Good
    <3> QED BY <1>5, <2>3
  <2>5. k - 1 \in 0..len /\ k - 1 \in Nat /\ k \in 1..len /\ k - 1 + 1 = k
    BY <1>1, <2>3, <2>4
  <2>6. Good(k - 1)
    <3> HIDE DEF Good
    <3> QED BY <2>2, <2>5
  <2>7. CASE log[k].at >= o
    <3>1. kept[k] = Append(kept[k - 1], log[k])
      BY <1>4, <2>3, <2>4, <2>7
    <3>2. \A n \in Nat : n + 1 = k /\ TakenBy(kept[k - 1], log, n) =>
             Append(kept[k - 1], log[k]) \in Seq(S) /\ TakenBy(Append(kept[k - 1], log[k]), log, k)
      BY <1>1, <2>5, <2>6, AppendTaken
    <3> QED
      BY <2>3, <2>5, <2>6, <3>1, <3>2
  <2>8. CASE ~(log[k].at >= o)
    <3>1. kept[k] = kept[k - 1]
      BY <1>4, <2>3, <2>4, <2>8
    <3>2. \A i \in 1..(k - 1) : i \in 1..k
      BY <2>5
    <3>3. TakenBy(kept[k - 1], log, k)
      BY <2>6, <3>2 DEF TakenBy
    <3> QED
      BY <2>3, <2>6, <3>1, <3>3
  <2> QED
    BY <2>7, <2>8
<1> QED
  BY <1>2, <1>6 DEF Taken

LEMMA SameEvents ==
  ASSUME MonitorInv
  PROVE  \A s \in Sources : EventsOf(s) = Places(events, s)
  BY DEF MonitorInv, EventsOf, Places

LEMMA PrimedEvents ==
  ASSUME events' \in Seq(EventRecord)
  PROVE  \A s \in Sources : EventsOf(s)' = Places(events', s)
<1>1. DOMAIN events' = 1..Len(events')
  OBVIOUS
<1> QED
  BY <1>1 DEF EventsOf, Places

LEMMA RecordStep ==
  ASSUME MonitorInv, NEW source \in Sources, NEW n \in Nat, Record(source, n), UNCHANGED now
  PROVE  MonitorInv'
<1> DEFINE e == [source |-> source, at |-> now]
           log == events \o [i \in 1..n |-> e]
<1>1. e \in EventRecord /\ e.source = source /\ events \in Seq(EventRecord)
  BY DEF MonitorInv, EventRecord
<1>2. events' = IF Len(log) > MaxEvents THEN LastOf(log) ELSE log
  BY DEF Record
<1>3. sourceEventCounts' = [sourceEventCounts EXCEPT ![source] = @ + n]
  BY DEF Record
<1> HIDE DEF e
<1>4. log \in Seq(EventRecord)
      /\ \A s : Cardinality(Places(log, s))
              <= Cardinality(Places(events, s)) + (IF s = e.source THEN n ELSE 0)
  BY <1>1, PlacesAppended
<1> HIDE DEF log
<1>5. events' \in Seq(EventRecord)
      /\ \A s : Cardinality(Places(events', s)) <= Cardinality(Places(log, s))
  <2>1. CASE Len(log) > MaxEvents
    BY <1>2, <1>4, <2>1, LastTaken, TakenIsLess
  <2>2. CASE ~(Len(log) > MaxEvents)
    <3>1. events' = log
      BY <1>2, <2>2
    <3>2. \A s : Cardinality(Places(log, s)) \in Nat
      BY <1>4, PlacesFinite
    <3> QED
      BY <1>4, <3>1, <3>2
  <2> QED
    BY <2>1, <2>2
<1>6. sourceEventCounts' \in [Sources -> Nat]
  BY <1>3 DEF MonitorInv
<1>7. ASSUME NEW s \in Sources
      PROVE  Cardinality(Places(events', s)) <= sourceEventCounts'[s]
  <2>1. Cardinality(Places(events, s)) <= sourceEventCounts[s] /\ sourceEventCounts[s] \in Nat
    BY SameEvents DEF MonitorInv, CountsCoverEvents
  <2>2. sourceEventCounts'[s] = sourceEventCounts[s] + (IF s = source THEN n ELSE 0)
    BY <1>3, <2>1 DEF MonitorInv
  <2>3. /\ Cardinality(Places(events, s)) \in Nat /\ Cardinality(Places(log, s)) \in Nat
        /\ Cardinality(Places(events', s)) \in Nat
    BY <1>1, <1>4, <1>5, PlacesFinite
  <2> QED
    BY <1>1, <1>4, <1>5, <2>1, <2>2, <2>3
<1>8. CountsCoverEvents'
  BY <1>5, <1>7, PrimedEvents DEF CountsCoverEvents
<1> QED
  BY <1>5, <1>6, <1>8 DEF MonitorInv

LEMMA MonitorNextInv == MonitorInv /\ [MonitorNext]_monitorVars => MonitorInv'
<1> SUFFICES ASSUME MonitorInv, [MonitorNext]_monitorVars PROVE MonitorInv'
  OBVIOUS
<1>1. \A s \in Sources, pattern \in BOOLEAN : Reports(s, pattern) \in Nat
  BY MonitorOK DEF Reports
<1>2. ASSUME UNCHANGED <<events, sourceEventCounts>>, now' \in Int PROVE MonitorInv'
  BY <1>2 DEF MonitorInv, CountsCoverEvents, EventsOf
<1>3. now \in Int
  BY DEF MonitorInv
<1>4. ASSUME NEW s \in Sources, LogRequest(s) PROVE MonitorInv'
  BY <1>1, <1>2, <1>3, <1>4, RecordStep DEF LogRequest
<1>5. ASSUME NEW s \in Sources, NEW pattern \in BOOLEAN, LogEvent(s, pattern) PROVE MonitorInv'
  BY <1>1, <1>5, RecordStep DEF LogEvent
<1>6. ASSUME NEW o, ClearOld(o) PROVE MonitorInv'
  <2>1. events' = Since(events, o) /\ UNCHANGED <<now, sourceEventCounts>>
    BY <1>6 DEF ClearOld
  <2>2. events \in Seq(EventRecord)
    BY DEF MonitorInv
  <2>3. events' \in Seq(EventRecord) /\ Taken(events', events)
    BY <2>1, <2>2, SinceTaken
  <2>4. \A s \in Sources : Cardinality(Places(events', s)) <= Cardinality(Places(events, s))
    BY <2>2, <2>3, TakenIsLess
  <2>5. \A s \in Sources : Cardinality(Places(events, s)) <= sourceEventCounts[s]
    BY SameEvents DEF MonitorInv, CountsCoverEvents
  <2>6. \A s \in Sources : /\ Cardinality(Places(events', s)) \in Nat
                           /\ Cardinality(Places(events, s)) \in Nat
                           /\ sourceEventCounts[s] \in Nat
    BY <2>2, <2>3, PlacesFinite DEF MonitorInv
  <2>7. \A s \in Sources : Cardinality(Places(events', s)) <= sourceEventCounts[s]
    BY <2>4, <2>5, <2>6
  <2>8. CountsCoverEvents'
    BY <2>1, <2>3, <2>7, PrimedEvents DEF CountsCoverEvents
  <2> QED
    BY <2>1, <2>3, <2>8 DEF MonitorInv
<1>7. CASE ClearAll
  <2>1. events' = <<>> /\ sourceEventCounts' = [s \in Sources |-> 0] /\ now' = now
    BY <1>7 DEF ClearAll
  <2>2. \A s \in Sources : EventsOf(s)' = {} /\ sourceEventCounts'[s] = 0
    BY <2>1 DEF EventsOf
  <2>3. CountsCoverEvents'
    BY <2>2, FS_EmptySet DEF CountsCoverEvents
  <2> QED
    BY <1>3, <2>1, <2>3 DEF MonitorInv
<1>8. CASE MonitorTick
  BY <1>2, <1>3, <1>8 DEF MonitorTick, Tick
<1>9. CASE UNCHANGED monitorVars
  BY <1>2, <1>3, <1>9 DEF monitorVars
<1> QED
  BY <1>4, <1>5, <1>6, <1>7, <1>8, <1>9 DEF MonitorNext

LEMMA MonitorInitInv == MonitorInit /\ now = 0 => MonitorInv
<1> SUFFICES ASSUME MonitorInit, now = 0 PROVE MonitorInv
  OBVIOUS
<1>1. \A s \in Sources : EventsOf(s) = {}
  BY DEF MonitorInit, EventsOf
<1> QED
  BY <1>1, FS_EmptySet DEF MonitorInit, MonitorInv, CountsCoverEvents

(* The security monitor (monitoring.ts): no event is in the buffer         *)
(* uncounted, for any sources, buffer, thresholds and depth of the stack.  *)
THEOREM CountsAlwaysCover == MonitorSpec => []CountsCoverEvents
<1>1. MonitorInv => CountsCoverEvents
  BY DEF MonitorInv
<1> QED
  BY <1>1, MonitorInitInv, MonitorNextInv, PTL DEF MonitorSpec

-----------------------------------------------------------------------------
(* The page and its services, alone and from time 0.                       *)
LogSpec == now = 0 /\ LogInit /\ [][LogNext]_logVars

RingEvent == [id : Nat, source : Services, time : Nat]
Log == Seq(RingEvent)

Distinct(s) == \A i, j \in 1..Len(s) : i # j => s[i].id # s[j].id
Ordered(s) == \A i, j \in 1..Len(s) : i <= j => s[i].time <= s[j].time

LEMMA LogIs ==
  ASSUME NEW s \in Log
  PROVE  /\ Len(s) \in Nat /\ DOMAIN s = 1..Len(s)
         /\ \A i \in 1..Len(s) : s[i] \in RingEvent /\ s[i].id \in Nat /\ s[i].time \in Nat
         /\ ToSet(s) \subseteq RingEvent
         /\ \A x : x \in ToSet(s) <=> \E i \in 1..Len(s) : s[i] = x
<1>1. Len(s) \in Nat /\ DOMAIN s = 1..Len(s)
  BY DEF Log
<1>2. \A i \in 1..Len(s) : s[i] \in RingEvent
  <2> DEFINE S == RingEvent
  <2>1. s \in Seq(S)
    BY DEF Log
  <2> HIDE DEF S
  <2> QED BY <2>1 DEF S
<1>3. \A e \in RingEvent : e.id \in Nat /\ e.time \in Nat
  BY DEF RingEvent
<1> QED
  BY <1>1, <1>2, <1>3 DEF ToSet

LEMMA LogAppended ==
  ASSUME NEW s \in Log, NEW e \in RingEvent
  PROVE  /\ Append(s, e) \in Log /\ Len(Append(s, e)) = Len(s) + 1
         /\ \A i \in 1..Len(s) : Append(s, e)[i] = s[i]
         /\ Append(s, e)[Len(s) + 1] = e
         /\ ToSet(Append(s, e)) = ToSet(s) \cup {e}
<1> DEFINE t == Append(s, e)
<1>1. t \in Log /\ Len(t) = Len(s) + 1 /\ (\A i \in 1..Len(s) : t[i] = s[i]) /\ t[Len(s) + 1] = e
  <2> DEFINE S == RingEvent
  <2>1. s \in Seq(S) /\ e \in S
    BY DEF Log
  <2> HIDE DEF S
  <2>2. t \in Seq(S) /\ Len(t) = Len(s) + 1 /\ (\A i \in 1..Len(s) : t[i] = s[i]) /\ t[Len(s) + 1] = e
    BY <2>1
  <2> QED BY <2>2 DEF S, Log
<1> HIDE DEF t
<1>2. Len(s) \in Nat /\ \A i : i \in 1..Len(t) <=> i \in 1..Len(s) \/ i = Len(s) + 1
  BY <1>1, LogIs
<1>3. \A x : x \in ToSet(t) <=> x \in ToSet(s) \/ x = e
  BY <1>1, <1>2, LogIs
<1> QED
  BY <1>1, <1>3 DEF t

LEMMA LogJoined ==
  ASSUME NEW s \in Log, NEW u \in Log
  PROVE  /\ s \o u \in Log /\ Len(s \o u) = Len(s) + Len(u)
         /\ \A i \in 1..Len(s) : (s \o u)[i] = s[i]
         /\ \A i \in 1..Len(u) : (s \o u)[Len(s) + i] = u[i]
         /\ ToSet(s \o u) = ToSet(s) \cup ToSet(u)
<1> DEFINE t == s \o u
<1>1. /\ t \in Log /\ Len(t) = Len(s) + Len(u)
      /\ \A i \in 1..Len(s) : t[i] = s[i]
      /\ \A i \in 1..Len(u) : t[Len(s) + i] = u[i]
  <2> DEFINE S == RingEvent
  <2>1. s \in Seq(S) /\ u \in Seq(S)
    BY DEF Log
  <2> HIDE DEF S
  <2>2. /\ t \in Seq(S) /\ Len(t) = Len(s) + Len(u)
        /\ \A i \in 1..Len(s) : t[i] = s[i]
        /\ \A i \in 1..Len(u) : t[Len(s) + i] = u[i]
    BY <2>1
  <2> QED BY <2>2 DEF S, Log
<1> HIDE DEF t
<1>2. Len(s) \in Nat /\ Len(u) \in Nat
  BY LogIs
<1>3. /\ \A i \in 1..Len(t) : i \in 1..Len(s) \/ (i - Len(s) \in 1..Len(u) /\ Len(s) + (i - Len(s)) = i)
      /\ \A i \in 1..Len(s) : i \in 1..Len(t)
      /\ \A i \in 1..Len(u) : Len(s) + i \in 1..Len(t)
  BY <1>1, <1>2
<1>4. \A x : x \in ToSet(t) <=> x \in ToSet(s) \/ x \in ToSet(u)
  <2>1. /\ \A x : x \in ToSet(t) <=> \E i \in 1..Len(t) : t[i] = x
        /\ \A x : x \in ToSet(s) <=> \E i \in 1..Len(s) : s[i] = x
        /\ \A x : x \in ToSet(u) <=> \E i \in 1..Len(u) : u[i] = x
    BY <1>1, LogIs
  <2>2. ASSUME NEW x \in ToSet(t) PROVE x \in ToSet(s) \/ x \in ToSet(u)
    <3>1. PICK i \in 1..Len(t) : t[i] = x
      BY <2>1
    <3>2. CASE i \in 1..Len(s)
      BY <1>1, <2>1, <3>1, <3>2
    <3>3. CASE i - Len(s) \in 1..Len(u) /\ Len(s) + (i - Len(s)) = i
      <4>1. t[i] = u[i - Len(s)]
        BY <1>1, <3>3
      <4> QED BY <2>1, <3>1, <3>3, <4>1
    <3> QED BY <1>3, <3>2, <3>3
  <2>3. ASSUME NEW x \in ToSet(s) PROVE x \in ToSet(t)
    <3>1. PICK i \in 1..Len(s) : s[i] = x
      BY <2>1
    <3> QED BY <1>1, <1>3, <2>1, <3>1
  <2>4. ASSUME NEW x \in ToSet(u) PROVE x \in ToSet(t)
    <3>1. PICK i \in 1..Len(u) : u[i] = x
      BY <2>1
    <3> QED BY <1>1, <1>3, <2>1, <3>1
  <2> QED BY <2>2, <2>3, <2>4
<1> QED
  BY <1>1, <1>4 DEF t

(* What a slice leaves out is at the beginning.                            *)
LEMMA SliceIs ==
  ASSUME NEW s \in Log, NEW n \in Nat \ {0}
  PROVE  \E d \in 0..Len(s) :
            /\ Slice(n, s) \in Log /\ Len(Slice(n, s)) = Len(s) - d
            /\ \A i \in 1..(Len(s) - d) : Slice(n, s)[i] = s[i + d]
            /\ (d = 0 /\ Len(s) <= n) \/ (d > 0 /\ Len(s) - d = n)
<1> DEFINE d == IF Len(s) > n THEN Len(s) - n ELSE 0
           t == SubSeq(s, d + 1, Len(s))
<1>1. Len(s) \in Nat
  BY LogIs
<1>2. d \in 0..Len(s) /\ ((d = 0 /\ Len(s) <= n) \/ (d > 0 /\ Len(s) - d = n))
  BY <1>1
<1>3. Slice(n, s) = t
  BY <1>1 DEF Slice
<1> HIDE DEF d
<1>4. t \in Log /\ Len(t) = Len(s) - d /\ \A i \in 1..(Len(s) - d) : t[i] = s[i + d]
  <2> DEFINE S == RingEvent
  <2>1. s \in Seq(S)
    BY DEF Log
  <2> HIDE DEF S
  <2>2. t \in Seq(S) /\ Len(t) = Len(s) - d /\ \A i \in 1..(Len(s) - d) : t[i] = s[i + d]
    BY <1>1, <1>2, <2>1
  <2> QED BY <2>2 DEF S, Log
<1> QED
  BY <1>2, <1>3, <1>4

LEMMA SliceSet ==
  ASSUME NEW s \in Log, NEW n \in Nat \ {0}
  PROVE  /\ Slice(n, s) \in Log /\ ToSet(Slice(n, s)) \subseteq ToSet(s)
         /\ Distinct(s) => Distinct(Slice(n, s))
         /\ Ordered(s) => Ordered(Slice(n, s))
<1> DEFINE t == Slice(n, s)
<1>1. PICK d \in 0..Len(s) : t \in Log /\ Len(t) = Len(s) - d /\ \A i \in 1..(Len(s) - d) : t[i] = s[i + d]
  BY SliceIs
<1> HIDE DEF t
<1>2. Len(s) \in Nat /\ d \in Nat
  BY LogIs
<1>3. \A i \in 1..Len(t) : i + d \in 1..Len(s) /\ t[i] = s[i + d]
  BY <1>1, <1>2
<1>4. \A i, j \in 1..Len(t) : (i <= j => i + d <= j + d) /\ (i # j => i + d # j + d)
  BY <1>1, <1>2
<1>5. ToSet(t) \subseteq ToSet(s)
  <2>1. /\ \A x : x \in ToSet(t) <=> \E i \in 1..Len(t) : t[i] = x
        /\ \A x : x \in ToSet(s) <=> \E i \in 1..Len(s) : s[i] = x
    BY <1>1, LogIs
  <2> QED BY <1>3, <2>1
<1>6. Distinct(s) => Distinct(t)
  BY <1>3, <1>4 DEF Distinct
<1>7. Ordered(s) => Ordered(t)
  BY <1>3, <1>4 DEF Ordered
<1> QED
  BY <1>1, <1>5, <1>6, <1>7 DEF t

KeptTo(S, s, f) ==
    f = [i \in 0..Len(s) |->
            IF i = 0 THEN <<>> ELSE IF s[i] \in S THEN Append(f[i - 1], s[i]) ELSE f[i - 1]]

(* What a filter keeps.                                                    *)
LEMMA OnlyIs ==
  ASSUME NEW s \in Log, NEW S
  PROVE  /\ Only(S, s) \in Log /\ ToSet(Only(S, s)) = ToSet(s) \cap S
         /\ Distinct(s) => Distinct(Only(S, s))
<1> DEFINE n == Len(s)
           With(t, i) == IF s[i] \in S THEN Append(t, s[i]) ELSE t
           step == [p \in (1..n) \X Log |-> With(p[2], p[1])]
<1>1. n \in Nat /\ (\A i \in 1..n : s[i] \in RingEvent) /\ <<>> \in Log
  BY LogIs DEF Log
<1> HIDE DEF n
<1>2. \A t \in Log, i \in 1..n : With(t, i) \in Log
  BY <1>1, LogAppended
<1> HIDE DEF With
<1>3. step \in Steps(n, Log)
  BY <1>2 DEF Steps
<1>4. PICK f : Solves(f, n, Log, <<>>, step)
  <2> HIDE DEF step
  <2> QED BY <1>1, <1>3, RecursionExists
<1>5. f \in [0..n -> Log] /\ f[0] = <<>> /\ \A i \in 1..n : f[i] = step[<<i, f[i - 1]>>]
  <2> HIDE DEF step
  <2> QED BY <1>4 DEF Solves
<1>6. /\ n \in 0..n /\ 0 \in 0..n /\ \A i \in 0..n : i = 0 \/ i \in 1..n
      /\ \A i \in 1..n : i - 1 \in 0..n /\ i \in 0..n /\ i # 0
  BY <1>1
<1>7. \A i \in 1..n : f[i] = With(f[i - 1], i)
  BY <1>5, <1>6
<1>8. KeptTo(S, s, f)
  <2>1. \A i \in 0..n : f[i] = IF i = 0 THEN <<>> ELSE With(f[i - 1], i)
    BY <1>5, <1>6, <1>7
  <2>2. f = [i \in 0..n |-> f[i]]
    BY <1>5
  <2> QED BY <2>1, <2>2, Zenon DEF KeptTo, With, n
<1> DEFINE g == CHOOSE h : KeptTo(S, s, h)
<1>9. Only(S, s) = g[n]
  BY DEF Only, KeptTo, n
<1>10. KeptTo(S, s, g)
  BY <1>8
<1> HIDE DEF g
<1>11. g = [i \in 0..n |-> IF i = 0 THEN <<>> ELSE With(g[i - 1], i)]
  BY <1>10 DEF KeptTo, n, With
<1>12. \A i \in 0..n : g[i] = IF i = 0 THEN <<>> ELSE With(g[i - 1], i)
  BY <1>11, Zenon
<1>13. Follows(g, n, f)
  <2>1. g = [i \in 0..n |-> g[i]]
    BY <1>11, <1>12, Zenon
  <2>2. g[0] = f[0] /\ \A i \in 1..n : g[i - 1] = f[i - 1] => g[i] = f[i]
    BY <1>5, <1>6, <1>7, <1>12
  <2> QED BY <2>1, <2>2 DEF Follows
<1>14. g = f
  <2> HIDE DEF step
  <2> QED BY <1>1, <1>4, <1>13, RecursionUnique
<1>15. Only(S, s) = f[n]
  BY <1>9, <1>14
<1> DEFINE Holds(i) == /\ \A x : x \in ToSet(f[i]) <=> x \in S /\ \E j \in 1..i : s[j] = x
                       /\ Distinct(s) => Distinct(f[i])
           P == {i \in 0..n : Holds(i)}
<1>16. 0 \in P
  <2>1. Len(f[0]) = 0 /\ 1..0 = {} /\ f[0] \in Log
    BY <1>1, <1>5
  <2>2. ToSet(f[0]) = {}
    BY <2>1, LogIs
  <2>3. Holds(0)
    BY <2>1, <2>2 DEF Distinct
  <2> QED BY <1>6, <2>3
<1>17. ASSUME NEW i \in 0..(n - 1), i \in P PROVE i + 1 \in P
  <2> DEFINE k == i + 1
  <2>1. k \in 1..n /\ k \in 0..n /\ k - 1 = i /\ (\A j : j \in 1..k <=> j \in 1..i \/ j = k) /\ i \in Nat
        /\ \A j \in 1..i : j \in 1..n /\ j # k
    BY <1>1
  <2> HIDE DEF k
  <2>2. f[k] = With(f[i], k) /\ Holds(i) /\ f[i] \in Log /\ s[k] \in RingEvent
    BY <1>1, <1>5, <1>7, <1>17, <2>1
  <2>3. CASE s[k] \notin S
    <3>1. f[k] = f[i]
      BY <2>2, <2>3 DEF With
    <3>2. Holds(k)
      BY <2>1, <2>2, <2>3, <3>1
    <3> QED BY <2>1, <3>2 DEF k
  <2>4. CASE s[k] \in S
    <3>1. f[k] = Append(f[i], s[k])
      BY <2>2, <2>4 DEF With
    <3>2. \A x : x \in ToSet(f[k]) <=> x \in S /\ \E j \in 1..k : s[j] = x
      <4>1. ToSet(f[k]) = ToSet(f[i]) \cup {s[k]}
        BY <2>2, <3>1, LogAppended
      <4> QED BY <2>1, <2>2, <2>4, <4>1
    <3>3. ASSUME Distinct(s) PROVE Distinct(f[k])
      <4> DEFINE m == Len(f[i])
      <4>1. /\ Len(f[k]) = m + 1 /\ m \in Nat /\ f[k][m + 1] = s[k]
            /\ \A j \in 1..m : f[k][j] = f[i][j] /\ f[i][j] \in ToSet(f[i])
        BY <2>2, <3>1, LogAppended, LogIs
      <4>2. \A j \in 1..m : \E l \in 1..i : s[l] = f[i][j]
        BY <2>2, <4>1
      <4>3. ASSUME NEW j \in 1..m PROVE f[i][j].id # s[k].id
        <5>1. PICK l \in 1..i : s[l] = f[i][j]
          BY <4>2
        <5>2. l \in 1..n /\ l # k
          BY <2>1
        <5>3. s[l].id # s[k].id
          BY <2>1, <3>3, <5>2 DEF Distinct, n
        <5> QED BY <5>1, <5>3
      <4>4. Distinct(f[i])
        BY <2>2, <3>3
      <4> HIDE DEF m
      <4>5. \A j \in 1..(m + 1) : j \in 1..m \/ j = m + 1
        BY <4>1
      <4>6. \A j, l \in 1..m : j # l => f[i][j].id # f[i][l].id
        BY <4>4 DEF Distinct, m
      <4>7. \A j, l \in 1..(m + 1) : j # l => f[k][j].id # f[k][l].id
        BY <4>1, <4>3, <4>5, <4>6
      <4> QED BY <4>1, <4>7 DEF Distinct
    <3>4. Holds(k)
      BY <3>2, <3>3
    <3> QED BY <2>1, <3>4 DEF k
  <2> QED BY <2>3, <2>4
<1>18. Holds(n)
  <2>1. \A i \in 0..n : i \in P
    <3> HIDE DEF P
    <3> QED BY <1>1, <1>16, <1>17, InductionUpTo
  <2> QED BY <1>6, <2>1
<1>19. ToSet(f[n]) = ToSet(s) \cap S
  BY <1>18, LogIs DEF n
<1> QED
  BY <1>5, <1>6, <1>15, <1>18, <1>19

LEMMA PlaceIs ==
  ASSUME NEW s \in Log, Ordered(s), NEW e \in RingEvent
  PROVE  /\ Place(s, e) \in 0..Len(s)
         /\ \A i \in 1..Place(s, e) : s[i].time <= e.time
         /\ \A i \in (Place(s, e) + 1)..Len(s) : s[i].time > e.time
<1> DEFINE n == Len(s)
           S == {k \in 0..n : \A i \in 1..k : s[i].time <= e.time}
<1>1. n \in Nat /\ (\A i \in 1..n : s[i].time \in Nat) /\ e.time \in Nat
  BY LogIs DEF RingEvent
<1>2. S \in SUBSET (0..n) /\ S # {}
  BY <1>1
<1>3. PICK k \in S : \A y \in S : y <= k
  <2> HIDE DEF S, n
  <2> QED BY <1>1, <1>2, SomeGreatest
<1>4. k \in 0..n /\ \A i \in 1..k : s[i].time <= e.time
  BY <1>3
<1>5. \A i \in (k + 1)..n : s[i].time > e.time
  <2> SUFFICES ASSUME NEW i \in (k + 1)..n, ~(s[i].time > e.time) PROVE FALSE
    OBVIOUS
  <2>1. i \in 1..n /\ i \in Nat /\ k \in Nat /\ k < i /\ s[i].time <= e.time
    BY <1>1, <1>4
  <2>2. \A j \in 1..i : j \in 1..n /\ s[j].time <= s[i].time
    BY <1>1, <2>1 DEF Ordered
  <2>3. \A j \in 1..i : s[j].time <= e.time
    BY <1>1, <2>1, <2>2
  <2>4. i \in S
    BY <2>1, <2>3, <1>1
  <2> QED
    BY <1>3, <2>1, <2>4
<1> DEFINE T == {i \in DOMAIN s : s[i].time <= e.time}
<1>6. T = 1..k
  <2>1. \A i \in 1..n : i \in 1..k \/ i \in (k + 1)..n
    BY <1>1, <1>4
  <2>2. \A i \in 1..k : i \in 1..n
    BY <1>1, <1>4
  <2>3. \A i \in 1..n : s[i].time <= e.time => ~(s[i].time > e.time)
    BY <1>1
  <2> QED BY <1>4, <1>5, <2>1, <2>2, <2>3, LogIs
<1>7. Cardinality(T) = k
  <2>1. 1 \in Int /\ k \in Int /\ k - 1 + 1 = k /\ (1 > k => k = 0)
    BY <1>1, <1>4
  <2>2. Cardinality(1..k) = IF 1 > k THEN 0 ELSE k - 1 + 1
    BY <2>1, FS_Interval, Zenon
  <2> QED BY <1>6, <2>1, <2>2
<1>8. Place(s, e) = k
  BY <1>7 DEF Place
<1> QED
  BY <1>4, <1>5, <1>8

LEMMA PlaceIn ==
  ASSUME NEW s \in Log, NEW e
  PROVE  Place(s, e) \in 0..Len(s)
<1> DEFINE S == {i \in DOMAIN s : s[i].time <= e.time}
<1>1. Len(s) \in Nat /\ S \in SUBSET (1..Len(s))
  BY LogIs
<1>2. IsFiniteSet(1..Len(s)) /\ Cardinality(1..Len(s)) = Len(s)
  <2>1. 1 \in Int /\ Len(s) \in Int
    BY <1>1
  <2>2. IsFiniteSet(1..Len(s)) /\ Cardinality(1..Len(s)) = IF 1 > Len(s) THEN 0 ELSE Len(s) - 1 + 1
    BY <2>1, FS_Interval
  <2> QED BY <1>1, <2>2
<1>3. IsFiniteSet(S) /\ Cardinality(S) <= Len(s)
  BY <1>1, <1>2, FS_Subset
<1>4. Cardinality(S) \in Nat
  BY <1>3, FS_CardinalityType
<1> QED
  BY <1>1, <1>3, <1>4 DEF Place

LEMMA InsertIs ==
  ASSUME NEW s \in Log, NEW k \in 0..Len(s), NEW e \in RingEvent
  PROVE  LET t == InsertAt(s, k + 1, e)
         IN  /\ t \in Log /\ Len(t) = Len(s) + 1
             /\ t[k + 1] = e
             /\ \A i \in 1..k : t[i] = s[i]
             /\ \A i \in (k + 1)..Len(s) : t[i + 1] = s[i]
<1> DEFINE S == RingEvent
           n == Len(s)
           a == SubSeq(s, 1, k)
           b == SubSeq(s, k + 1, n)
           u == a \o <<e>>
           t == u \o b
<1>1. s \in Seq(S) /\ e \in S /\ n \in Nat /\ k \in 0..n
  BY LogIs DEF Log
<1>2. InsertAt(s, k + 1, e) = t
  <2> DEFINE l == k + 1
  <2>1. l - 1 = k
    BY <1>1
  <2>2. InsertAt(s, l, e) = SubSeq(s, 1, l - 1) \o <<e>> \o SubSeq(s, l, n)
    BY DEF InsertAt
  <2> HIDE DEF l
  <2>3. InsertAt(s, l, e) = SubSeq(s, 1, k) \o <<e>> \o SubSeq(s, l, n)
    BY <2>1, <2>2
  <2> QED BY <2>3 DEF l
<1> HIDE DEF S
<1>3. a \in Seq(S) /\ Len(a) = k /\ \A i \in 1..k : a[i] = s[i]
  BY <1>1
<1>4. b \in Seq(S) /\ Len(b) = n - k /\ \A i \in 1..(n - k) : b[i] = s[k + i]
  BY <1>1
<1> HIDE DEF a, b, n
<1>5. u \in Seq(S) /\ Len(u) = k + 1 /\ u[k + 1] = e /\ \A i \in 1..k : u[i] = s[i]
  BY <1>1, <1>3
<1> HIDE DEF u
<1>6. /\ t \in Seq(S) /\ Len(t) = n + 1
      /\ \A i \in 1..(k + 1) : t[i] = u[i]
      /\ \A i \in 1..(n - k) : t[k + 1 + i] = s[k + i]
  <2>1. u \in Log /\ b \in Log
    BY <1>4, <1>5 DEF S, Log
  <2>2. /\ t \in Log /\ Len(t) = Len(u) + Len(b)
        /\ \A i \in 1..Len(u) : t[i] = u[i]
        /\ \A i \in 1..Len(b) : t[Len(u) + i] = b[i]
    BY <2>1, LogJoined
  <2>3. Len(u) + Len(b) = n + 1
    BY <1>1, <1>4, <1>5
  <2> HIDE DEF t
  <2> QED BY <1>4, <1>5, <2>2, <2>3 DEF S, Log
<1> HIDE DEF t
<1>7. t[k + 1] = e /\ \A i \in 1..k : t[i] = s[i]
  BY <1>1, <1>5, <1>6
<1>8. \A i \in (k + 1)..n : t[i + 1] = s[i]
  <2> SUFFICES ASSUME NEW i \in (k + 1)..n PROVE t[i + 1] = s[i]
    OBVIOUS
  <2>1. i - k \in 1..(n - k) /\ k + 1 + (i - k) = i + 1 /\ k + (i - k) = i
    BY <1>1
  <2> QED BY <1>6, <2>1
<1> QED
  BY <1>2, <1>6, <1>7, <1>8 DEF n, S, Log

Inserted(s, e) == InsertAt(s, Place(s, e) + 1, e)

(* A sorted list with one more event: sorted, and none of its times, from  *)
(* the end, is earlier.                                                    *)
LEMMA InsertedIs ==
  ASSUME NEW s \in Log, Ordered(s), Distinct(s), NEW e \in RingEvent,
         \A i \in 1..Len(s) : s[i].id # e.id
  PROVE  /\ Inserted(s, e) \in Log /\ Len(Inserted(s, e)) = Len(s) + 1
         /\ Ordered(Inserted(s, e)) /\ Distinct(Inserted(s, e))
         /\ ToSet(Inserted(s, e)) = ToSet(s) \cup {e}
         /\ \A i \in 1..Len(s) : Inserted(s, e)[i + 1].time >= s[i].time
<1> DEFINE n == Len(s)
           k == Place(s, e)
           t == Inserted(s, e)
<1>1. /\ k \in 0..n
      /\ \A i \in 1..k : s[i].time <= e.time
      /\ \A i \in (k + 1)..n : s[i].time > e.time
  BY PlaceIs
<1>2. /\ t \in Log /\ Len(t) = n + 1 /\ t[k + 1] = e
      /\ \A i \in 1..k : t[i] = s[i]
      /\ \A i \in (k + 1)..n : t[i + 1] = s[i]
  <2> HIDE DEF k
  <2>1. t = InsertAt(s, k + 1, e)
    BY DEF k, Inserted
  <2> QED BY <1>1, <2>1, InsertIs
<1>3. /\ n \in Nat /\ e.time \in Nat
      /\ \A i \in 1..n : s[i].time \in Nat
  BY LogIs DEF RingEvent
<1>0. \A i, j \in 1..n : (i <= j => s[i].time <= s[j].time) /\ (i # j => s[i].id # s[j].id)
  BY DEF Ordered, Distinct
<1> HIDE DEF k, t
<1>4. /\ \A i \in 1..(n + 1) : i \in 1..k \/ i = k + 1 \/ (i - 1 \in (k + 1)..n /\ i - 1 + 1 = i)
      /\ \A i \in 1..k : i \in 1..n /\ i \in 1..(n + 1)
      /\ \A i \in (k + 1)..n : i \in 1..n /\ i + 1 \in 1..(n + 1)
      /\ k + 1 \in 1..(n + 1) /\ k \in Nat
      /\ \A i \in 1..n : i \in 1..k \/ i \in (k + 1)..n
  BY <1>1, <1>3
<1>5. \A i \in 1..(n + 1) :
         \/ i \in 1..k /\ i \in 1..n /\ t[i] = s[i] /\ s[i].time <= e.time
         \/ i = k + 1 /\ t[i] = e
         \/ i > k + 1 /\ i - 1 \in 1..n /\ t[i] = s[i - 1] /\ s[i - 1].time > e.time
  <2> SUFFICES ASSUME NEW i \in 1..(n + 1)
               PROVE  \/ i \in 1..k /\ i \in 1..n /\ t[i] = s[i] /\ s[i].time <= e.time
                      \/ i = k + 1 /\ t[i] = e
                      \/ i > k + 1 /\ i - 1 \in 1..n /\ t[i] = s[i - 1] /\ s[i - 1].time > e.time
    OBVIOUS
  <2>1. CASE i - 1 \in (k + 1)..n /\ i - 1 + 1 = i
    <3>1. t[i] = s[i - 1]
      BY <1>2, <2>1
    <3> QED BY <1>1, <1>3, <1>4, <2>1, <3>1
  <2> QED BY <1>1, <1>2, <1>4, <2>1
<1>6. Ordered(t)
  <2> SUFFICES ASSUME NEW i \in 1..(n + 1), NEW j \in 1..(n + 1), i <= j PROVE t[i].time <= t[j].time
    BY <1>2 DEF Ordered
  <2>1. CASE i \in 1..k /\ i \in 1..n /\ t[i] = s[i] /\ s[i].time <= e.time
    <3>1. CASE j \in 1..k /\ j \in 1..n /\ t[j] = s[j]
      BY <1>0, <2>1, <3>1
    <3>2. CASE j = k + 1 /\ t[j] = e
      BY <2>1, <3>2
    <3>3. CASE j > k + 1 /\ j - 1 \in 1..n /\ t[j] = s[j - 1] /\ s[j - 1].time > e.time
      BY <1>3, <2>1, <3>3
    <3> QED BY <1>5, <3>1, <3>2, <3>3
  <2>2. CASE i = k + 1 /\ t[i] = e
    <3>1. CASE j = k + 1
      BY <1>3, <2>2, <3>1
    <3>2. CASE j > k + 1 /\ j - 1 \in 1..n /\ t[j] = s[j - 1] /\ s[j - 1].time > e.time
      BY <1>3, <2>2, <3>2
    <3> QED BY <1>4, <1>5, <2>2, <3>1, <3>2
  <2>3. CASE i > k + 1 /\ i - 1 \in 1..n /\ t[i] = s[i - 1] /\ s[i - 1].time > e.time
    <3>1. j > k + 1 /\ i - 1 <= j - 1
      BY <1>3, <1>4, <2>3
    <3>2. j - 1 \in 1..n /\ t[j] = s[j - 1]
      BY <1>4, <1>5, <3>1
    <3> QED BY <1>0, <2>3, <3>1, <3>2
  <2> QED BY <1>5, <2>1, <2>2, <2>3
<1>7. Distinct(t)
  <2> SUFFICES ASSUME NEW i \in 1..(n + 1), NEW j \in 1..(n + 1), i < j PROVE t[i].id # t[j].id
    <3>1. \A i, j \in 1..(n + 1) : i # j => i < j \/ j < i
      BY <1>3
    <3> QED BY <1>2, <3>1 DEF Distinct
  <2>0. \A m \in 1..n : s[m].id # e.id
    OBVIOUS
  <2>1. CASE i \in 1..k /\ i \in 1..n /\ t[i] = s[i]
    <3>1. CASE j \in 1..k /\ j \in 1..n /\ t[j] = s[j]
      BY <1>0, <2>1, <3>1
    <3>2. CASE j = k + 1 /\ t[j] = e
      BY <2>0, <2>1, <3>2
    <3>3. CASE j > k + 1 /\ j - 1 \in 1..n /\ t[j] = s[j - 1]
      <4>1. i # j - 1
        BY <1>4, <2>1, <3>3
      <4> QED BY <1>0, <2>1, <3>3, <4>1
    <3> QED BY <1>5, <3>1, <3>2, <3>3
  <2>2. CASE i = k + 1 /\ t[i] = e
    <3>1. j > k + 1
      BY <2>2
    <3>2. j - 1 \in 1..n /\ t[j] = s[j - 1]
      BY <1>4, <1>5, <3>1
    <3> QED BY <2>0, <2>2, <3>2
  <2>3. CASE i > k + 1 /\ i - 1 \in 1..n /\ t[i] = s[i - 1]
    <3>1. j > k + 1 /\ i - 1 # j - 1
      BY <1>3, <1>4, <2>3
    <3>2. j - 1 \in 1..n /\ t[j] = s[j - 1]
      BY <1>4, <1>5, <3>1
    <3> QED BY <1>0, <2>3, <3>1, <3>2
  <2> QED BY <1>5, <2>1, <2>2, <2>3
<1>8. ToSet(t) = ToSet(s) \cup {e}
  <2>1. /\ \A x : x \in ToSet(t) <=> \E i \in 1..(n + 1) : t[i] = x
        /\ \A x : x \in ToSet(s) <=> \E i \in 1..n : s[i] = x
    BY <1>2, LogIs
  <2>2. ASSUME NEW x \in ToSet(t) PROVE x \in ToSet(s) \/ x = e
    BY <1>5, <2>1
  <2>3. ASSUME NEW x \in ToSet(s) PROVE x \in ToSet(t)
    BY <1>2, <1>4, <2>1
  <2>4. e \in ToSet(t)
    BY <1>2, <1>4, <2>1
  <2> QED BY <2>2, <2>3, <2>4
<1>9. \A i \in 1..n : t[i + 1].time >= s[i].time
  <2> SUFFICES ASSUME NEW i \in 1..n PROVE t[i + 1].time >= s[i].time
    OBVIOUS
  <2>1. i + 1 \in 1..(n + 1) /\ i + 1 - 1 = i
    BY <1>3
  <2>2. CASE i + 1 \in 1..k /\ i + 1 \in 1..n /\ t[i + 1] = s[i + 1]
    <3>1. i <= i + 1 /\ s[i].time <= s[i + 1].time
      BY <1>0, <1>3, <2>2
    <3> QED BY <1>3, <2>2, <3>1
  <2>3. CASE i + 1 = k + 1 /\ t[i + 1] = e
    <3>1. i \in 1..k
      BY <1>4, <2>3
    <3> QED BY <1>1, <1>3, <2>3, <3>1
  <2>4. CASE t[i + 1] = s[i + 1 - 1]
    BY <1>3, <2>1, <2>4
  <2> QED BY <1>5, <2>1, <2>2, <2>3, <2>4
<1> QED
  BY <1>2, <1>6, <1>7, <1>8, <1>9 DEF t, n

SortedTo(s, u, f) ==
    f = [i \in 0..Len(u) |->
            IF i = 0 THEN s ELSE InsertAt(f[i - 1], Place(f[i - 1], u[i]) + 1, u[i])]

(* What a sort keeps, and that no event moves nearer to the end than to    *)
(* make room for one that is as late.                                      *)
LEMMA InOrderIs ==
  ASSUME NEW s \in Log, Ordered(s), Distinct(s), NEW u \in Log, Distinct(u),
         \A i \in 1..Len(s), j \in 1..Len(u) : s[i].id # u[j].id
  PROVE  LET t == InOrder(s, u)
         IN  /\ t \in Log /\ Len(t) = Len(s) + Len(u)
             /\ Ordered(t) /\ Distinct(t) /\ ToSet(t) = ToSet(s) \cup ToSet(u)
             /\ \A i \in 1..Len(s) : t[i + Len(u)].time >= s[i].time
<1> DEFINE n == Len(u)
           step == [p \in (1..n) \X Log |-> Inserted(p[2], u[p[1]])]
<1>1. n \in Nat /\ Len(s) \in Nat /\ (\A i \in 1..n : u[i] \in RingEvent)
  BY LogIs
<1> HIDE DEF n
<1>2. \A t \in Log, i \in 1..n : Inserted(t, u[i]) \in Log
  BY <1>1, PlaceIn, InsertIs DEF Inserted
<1>3. step \in Steps(n, Log)
  BY <1>2 DEF Steps
<1>4. PICK f : Solves(f, n, Log, s, step)
  <2> HIDE DEF step
  <2> QED BY <1>1, <1>3, RecursionExists
<1>5. f \in [0..n -> Log] /\ f[0] = s /\ \A i \in 1..n : f[i] = step[<<i, f[i - 1]>>]
  <2> HIDE DEF step
  <2> QED BY <1>4 DEF Solves
<1>6. /\ n \in 0..n /\ 0 \in 0..n /\ \A i \in 0..n : i = 0 \/ i \in 1..n
      /\ \A i \in 1..n : i - 1 \in 0..n /\ i \in 0..n /\ i # 0
  BY <1>1
<1>7. \A i \in 1..n : f[i] = Inserted(f[i - 1], u[i])
  BY <1>5, <1>6
<1>8. SortedTo(s, u, f)
  <2>1. \A i \in 0..n : f[i] = IF i = 0 THEN s ELSE Inserted(f[i - 1], u[i])
    BY <1>5, <1>6, <1>7
  <2>2. f = [i \in 0..n |-> f[i]]
    BY <1>5
  <2> QED BY <2>1, <2>2, Zenon DEF SortedTo, Inserted, n
<1> DEFINE g == CHOOSE h : SortedTo(s, u, h)
<1>9. InOrder(s, u) = g[n]
  BY DEF InOrder, SortedTo, n
<1>10. SortedTo(s, u, g)
  BY <1>8
<1> HIDE DEF g
<1>11. g = [i \in 0..n |-> IF i = 0 THEN s ELSE Inserted(g[i - 1], u[i])]
  BY <1>10 DEF SortedTo, n, Inserted
<1>12. \A i \in 0..n : g[i] = IF i = 0 THEN s ELSE Inserted(g[i - 1], u[i])
  BY <1>11, Zenon
<1>13. Follows(g, n, f)
  <2>1. g = [i \in 0..n |-> g[i]]
    BY <1>11, <1>12, Zenon
  <2>2. g[0] = f[0] /\ \A i \in 1..n : g[i - 1] = f[i - 1] => g[i] = f[i]
    BY <1>5, <1>6, <1>7, <1>12
  <2> QED BY <2>1, <2>2 DEF Follows
<1>14. g = f
  <2> HIDE DEF step
  <2> QED BY <1>1, <1>4, <1>13, RecursionUnique
<1>15. InOrder(s, u) = f[n]
  BY <1>9, <1>14
<1> DEFINE Holds(i) == /\ Len(f[i]) = Len(s) + i
                       /\ Ordered(f[i]) /\ Distinct(f[i])
                       /\ \A x : x \in ToSet(f[i]) <=> x \in ToSet(s) \/ \E j \in 1..i : u[j] = x
                       /\ \A j \in 1..Len(s) : f[i][j + i].time >= s[j].time
           P == {i \in 0..n : Holds(i)}
<1>16. 0 \in P
  <2>1. \A j \in 1..Len(s) : j + 0 = j /\ s[j].time >= s[j].time
    BY LogIs
  <2>2. 1..0 = {} /\ Len(s) + 0 = Len(s)
    BY <1>1
  <2>3. Holds(0)
    BY <1>5, <2>1, <2>2
  <2> QED BY <1>6, <2>3
<1>17. ASSUME NEW i \in 0..(n - 1), i \in P PROVE i + 1 \in P
  <2> DEFINE k == i + 1
             m == Len(s)
  <2>1. k \in 1..n /\ k \in 0..n /\ k - 1 = i /\ (\A j : j \in 1..k <=> j \in 1..i \/ j = k)
        /\ i \in Nat /\ m \in Nat /\ m + i + 1 = m + k
        /\ (\A j \in 1..i : j \in 1..n /\ j # k)
        /\ \A j \in 1..m : j + i \in 1..(m + i) /\ j + i + 1 = j + k
    BY <1>1
  <2> HIDE DEF k
  <2>2. f[k] = Inserted(f[i], u[k]) /\ Holds(i) /\ f[i] \in Log /\ u[k] \in RingEvent
    BY <1>1, <1>5, <1>7, <1>17, <2>1
  <2>3. \A j \in 1..Len(f[i]) : f[i][j].id # u[k].id
    <3> SUFFICES ASSUME NEW j \in 1..Len(f[i]) PROVE f[i][j].id # u[k].id
      OBVIOUS
    <3>1. f[i][j] \in ToSet(f[i])
      BY <2>2, LogIs
    <3>2. CASE f[i][j] \in ToSet(s)
      <4>1. PICK l \in 1..Len(s) : s[l] = f[i][j]
        BY <3>2, LogIs
      <4> QED BY <2>1, <4>1 DEF n
    <3>3. CASE \E l \in 1..i : u[l] = f[i][j]
      BY <2>1, <3>3 DEF Distinct, n
    <3> QED BY <2>2, <3>1, <3>2, <3>3
  <2>4. /\ f[k] \in Log /\ Len(f[k]) = Len(f[i]) + 1
        /\ Ordered(f[k]) /\ Distinct(f[k])
        /\ ToSet(f[k]) = ToSet(f[i]) \cup {u[k]}
        /\ \A j \in 1..Len(f[i]) : f[k][j + 1].time >= f[i][j].time
    BY <2>2, <2>3, InsertedIs
  <2>5. \A x : x \in ToSet(f[k]) <=> x \in ToSet(s) \/ \E j \in 1..k : u[j] = x
    BY <2>1, <2>2, <2>4
  <2>6. Len(f[k]) = m + k /\ Len(f[i]) = m + i
    BY <2>1, <2>2, <2>4
  <2>7. ASSUME NEW j \in 1..m PROVE f[k][j + k].time >= s[j].time
    <3>1. j + i \in 1..Len(f[i]) /\ j + i + 1 = j + k
      BY <2>1, <2>6
    <3>2. f[k][j + i + 1].time >= f[i][j + i].time
      BY <2>4, <3>1
    <3>3. f[i][j + i].time >= s[j].time
      BY <2>2
    <3>4. f[k][j + k].time \in Nat /\ f[i][j + i].time \in Nat /\ s[j].time \in Nat
      <4>1. j + k \in 1..Len(f[k])
        BY <2>1, <2>6
      <4> QED BY <2>2, <2>4, <3>1, <4>1, LogIs
    <3> QED BY <3>1, <3>2, <3>3, <3>4
  <2>8. Holds(k)
    BY <2>4, <2>5, <2>6, <2>7
  <2> QED BY <2>1, <2>8 DEF k
<1>18. Holds(n)
  <2>1. \A i \in 0..n : i \in P
    <3> HIDE DEF P
    <3> QED BY <1>1, <1>16, <1>17, InductionUpTo
  <2> QED BY <1>6, <2>1
<1>19. ToSet(f[n]) = ToSet(s) \cup ToSet(u)
  BY <1>18, LogIs DEF n
<1> QED
  BY <1>5, <1>6, <1>15, <1>18, <1>19 DEF n

LEMMA AppendDistinct ==
  ASSUME NEW s \in Log, NEW e \in RingEvent, Distinct(s), \A i \in 1..Len(s) : s[i].id # e.id
  PROVE  Distinct(Append(s, e))
<1> DEFINE n == Len(s)
           t == Append(s, e)
<1>1. Len(t) = n + 1 /\ n \in Nat /\ t[n + 1] = e /\ \A i \in 1..n : t[i] = s[i]
  BY LogAppended, LogIs
<1>2. \A i, j \in 1..n : i # j => s[i].id # s[j].id
  BY DEF Distinct
<1>3. \A i \in 1..n : s[i].id # e.id
  OBVIOUS
<1> HIDE DEF n, t
<1>4. \A i \in 1..(n + 1) : i \in 1..n \/ i = n + 1
  BY <1>1
<1>5. \A i, j \in 1..(n + 1) : i # j => t[i].id # t[j].id
  BY <1>1, <1>2, <1>3, <1>4
<1> QED
  BY <1>1, <1>5 DEF Distinct, t

LEMMA JoinDistinct ==
  ASSUME NEW s \in Log, NEW u \in Log, Distinct(s), Distinct(u),
         \A a \in ToSet(s), b \in ToSet(u) : a.id # b.id
  PROVE  Distinct(s \o u)
<1> DEFINE n == Len(s)
           m == Len(u)
           t == s \o u
<1>1. /\ Len(t) = n + m /\ n \in Nat /\ m \in Nat
      /\ \A i \in 1..n : t[i] = s[i]
      /\ \A i \in 1..m : t[n + i] = u[i]
  BY LogJoined, LogIs
<1>2. /\ \A i, j \in 1..n : i # j => s[i].id # s[j].id
      /\ \A i, j \in 1..m : i # j => u[i].id # u[j].id
      /\ \A i \in 1..n, j \in 1..m : s[i].id # u[j].id
  BY LogIs DEF Distinct
<1> HIDE DEF n, m, t
<1>3. \A i \in 1..(n + m) : i \in 1..n \/ \E k \in 1..m : i = n + k
  <2> SUFFICES ASSUME NEW i \in 1..(n + m), i \notin 1..n PROVE \E k \in 1..m : i = n + k
    OBVIOUS
  <2>1. i - n \in 1..m /\ i = n + (i - n)
    BY <1>1
  <2> QED BY <2>1
<1>4. ASSUME NEW i \in 1..(n + m), NEW j \in 1..(n + m), i # j PROVE t[i].id # t[j].id
  <2>1. CASE i \in 1..n /\ j \in 1..n
    BY <1>1, <1>2, <1>4, <2>1
  <2>2. ASSUME i \in 1..n, NEW k \in 1..m, j = n + k PROVE t[i].id # t[j].id
    BY <1>1, <1>2, <2>2
  <2>3. ASSUME j \in 1..n, NEW k \in 1..m, i = n + k PROVE t[i].id # t[j].id
    BY <1>1, <1>2, <2>3
  <2>4. ASSUME NEW k \in 1..m, i = n + k, NEW l \in 1..m, j = n + l PROVE t[i].id # t[j].id
    <3>1. k # l
      BY <1>4, <2>4
    <3> QED BY <1>1, <1>2, <2>4, <3>1
  <2> QED BY <1>3, <2>1, <2>2, <2>3, <2>4
<1> QED
  BY <1>1, <1>4 DEF Distinct, t

LEMMA SinceIs ==
  ASSUME EventLogOK, NEW s \in Services, eventLog[s] \in Log, Distinct(eventLog[s]), NEW since \in Nat
  PROVE  LET t == EventsSince(s, since)
         IN  /\ t \in Log /\ Distinct(t) /\ ToSet(t) \subseteq ToSet(eventLog[s])
             /\ \A e \in ToSet(Slice(FirstEvents, eventLog[s])) : e.time > since => e \in ToSet(t)
<1>1. FirstEvents \in Nat \ {0}
  BY DEF EventLogOK
<1>2. ToSet(Slice(FirstEvents, eventLog[s])) \subseteq ToSet(eventLog[s])
  BY <1>1, SliceSet
<1>3. CASE since > 0
  <2> DEFINE S == {e \in ToSet(eventLog[s]) : e.time > since}
  <2>1. EventsSince(s, since) = Only(S, eventLog[s])
    BY <1>3 DEF EventsSince
  <2> HIDE DEF S
  <2>2. /\ Only(S, eventLog[s]) \in Log /\ ToSet(Only(S, eventLog[s])) = ToSet(eventLog[s]) \cap S
        /\ Distinct(Only(S, eventLog[s]))
    BY OnlyIs
  <2> QED BY <1>2, <2>1, <2>2 DEF S
<1>4. CASE ~(since > 0)
  BY <1>1, <1>4, SliceSet DEF EventsSince
<1> QED BY <1>3, <1>4

(* What the page shows of the events it had and those that came.           *)
LEMMA MergedIs ==
  ASSUME EventLogOK, NEW prev \in Log, Ordered(prev), Distinct(prev), Len(prev) <= ShownCapacity,
         NEW all \in Log, Distinct(all),
         \A p \in ToSet(prev), e \in ToSet(all) : p.id = e.id => p = e
  PROVE  LET t == Merged(prev, all)
         IN  /\ t \in Log /\ Len(t) <= ShownCapacity /\ Ordered(t) /\ Distinct(t)
             /\ ToSet(t) \subseteq ToSet(prev) \cup ToSet(all)
             /\ \A e \in ToSet(prev) \cup ToSet(all) :
                  e \in ToSet(t) \/ (Len(t) = ShownCapacity /\ e.time <= t[1].time)
             /\ Len(prev) = ShownCapacity =>
                  Len(t) = ShownCapacity /\ t[1].time >= prev[1].time
<1> DEFINE new == NewEvents(prev, all)
           w == InOrder(prev, new)
           t == Merged(prev, all)
           cap == ShownCapacity
<1>1. cap \in Nat \ {0}
  BY DEF EventLogOK
<1>2. /\ new \in Log /\ Distinct(new)
      /\ ToSet(new) = {e \in ToSet(all) : \A p \in ToSet(prev) : p.id # e.id}
  <2> DEFINE S == {e \in ToSet(all) : \A p \in ToSet(prev) : p.id # e.id}
  <2>1. new = Only(S, all)
    BY DEF NewEvents
  <2> HIDE DEF S
  <2>2. new \in Log /\ Distinct(new) /\ ToSet(new) = ToSet(all) \cap S
    BY <2>1, OnlyIs
  <2> QED BY <2>2 DEF S
<1> HIDE DEF new
<1>3. /\ w \in Log /\ Len(w) = Len(prev) + Len(new) /\ Ordered(w) /\ Distinct(w)
      /\ ToSet(w) = ToSet(prev) \cup ToSet(new)
      /\ \A i \in 1..Len(prev) : w[i + Len(new)].time >= prev[i].time
  <2>1. \A i \in 1..Len(prev), j \in 1..Len(new) : prev[i].id # new[j].id
    <3> SUFFICES ASSUME NEW i \in 1..Len(prev), NEW j \in 1..Len(new) PROVE prev[i].id # new[j].id
      OBVIOUS
    <3>1. prev[i] \in ToSet(prev) /\ new[j] \in ToSet(new)
      BY <1>2, LogIs
    <3> QED BY <1>2, <3>1
  <2> QED BY <1>2, <2>1, InOrderIs
<1>4. t = Slice(cap, w)
  BY DEF Merged, new
<1> HIDE DEF w
<1>5. PICK d \in 0..Len(w) : /\ t \in Log /\ Len(t) = Len(w) - d
                             /\ \A i \in 1..(Len(w) - d) : t[i] = w[i + d]
                             /\ (d = 0 /\ Len(w) <= cap) \/ (d > 0 /\ Len(w) - d = cap)
  <2> HIDE DEF t, cap
  <2>1. w \in Log /\ cap \in Nat \ {0}
    BY <1>1, <1>3
  <2>2. \E d \in 0..Len(w) :
           /\ Slice(cap, w) \in Log /\ Len(Slice(cap, w)) = Len(w) - d
           /\ \A i \in 1..(Len(w) - d) : Slice(cap, w)[i] = w[i + d]
           /\ (d = 0 /\ Len(w) <= cap) \/ (d > 0 /\ Len(w) - d = cap)
    BY <2>1, SliceIs
  <2> QED BY <1>4, <2>2, Zenon
<1>6. ToSet(t) \subseteq ToSet(w) /\ Ordered(t) /\ Distinct(t)
  BY <1>1, <1>3, <1>4, SliceSet
<1> HIDE DEF t, cap
<1>7. Len(prev) \in Nat /\ Len(new) \in Nat /\ Len(w) \in Nat /\ d \in Nat /\ Len(t) \in Nat
  BY <1>2, <1>3, <1>5, LogIs
<1>8. Len(t) <= cap
  BY <1>1, <1>5, <1>7
<1>9. ToSet(prev) \cup ToSet(all) = ToSet(w)
  BY <1>2, <1>3
<1>10. ASSUME NEW e \in ToSet(w) PROVE e \in ToSet(t) \/ (Len(t) = cap /\ e.time <= t[1].time)
  <2>1. PICK j \in 1..Len(w) : w[j] = e
    BY <1>3, LogIs
  <2>2. CASE j > d
    <3>1. j - d \in 1..Len(t) /\ (j - d) + d = j
      BY <1>5, <1>7, <2>2
    <3>2. t[j - d] = e
      BY <1>5, <2>1, <3>1
    <3> QED BY <1>5, <3>1, <3>2, LogIs
  <2>3. CASE ~(j > d)
    <3>1. d > 0 /\ Len(t) = cap /\ 1 \in 1..(Len(w) - d) /\ 1 + d \in 1..Len(w) /\ j <= 1 + d
      BY <1>1, <1>5, <1>7, <2>3
    <3>2. t[1] = w[1 + d]
      BY <1>5, <3>1
    <3>3. w[j].time <= w[1 + d].time
      BY <1>3, <3>1 DEF Ordered
    <3> QED BY <2>1, <3>1, <3>2, <3>3
  <2> QED BY <2>2, <2>3
<1>11. ASSUME Len(prev) = cap PROVE Len(t) = cap /\ t[1].time >= prev[1].time
  <2>1. d = Len(new) /\ Len(t) = cap
    BY <1>1, <1>3, <1>5, <1>7, <1>11
  <2>2. 1 \in 1..Len(prev) /\ 1 \in 1..(Len(w) - d)
    BY <1>1, <1>5, <1>7, <1>11, <2>1
  <2>3. w[1 + Len(new)].time >= prev[1].time
    BY <1>3, <2>2
  <2>4. t[1] = w[1 + d]
    BY <1>5, <2>2
  <2> QED BY <2>1, <2>3, <2>4
<1>12. ToSet(t) \subseteq ToSet(prev) \cup ToSet(all)
  BY <1>6, <1>9
<1> QED
  BY <1>5, <1>6, <1>8, <1>9, <1>10, <1>11, <1>12 DEF t, cap

(* A ring with one more event.                                             *)
LEMMA RingStep ==
  ASSUME EventLogOK, NEW s \in Log, NEW e \in RingEvent
  PROVE  LET t == Slice(LogCapacity, Append(s, e))
         IN  /\ t \in Log /\ ToSet(t) \subseteq ToSet(s) \cup {e}
             /\ ToSet(Slice(FirstEvents, t)) \subseteq ToSet(Slice(FirstEvents, s)) \cup {e}
<1> DEFINE u == Append(s, e)
           t == Slice(LogCapacity, u)
           v == Slice(FirstEvents, t)
           x == Slice(FirstEvents, s)
           n == Len(s)
           first == FirstEvents
<1>1. first \in Nat \ {0} /\ LogCapacity \in Nat \ {0}
  BY DEF EventLogOK
<1>2. /\ u \in Log /\ Len(u) = n + 1 /\ n \in Nat /\ ToSet(u) = ToSet(s) \cup {e}
      /\ u[n + 1] = e /\ \A i \in 1..n : u[i] = s[i]
  BY LogAppended, LogIs
<1> HIDE DEF u
<1>3. t \in Log /\ ToSet(t) \subseteq ToSet(u)
  BY <1>1, <1>2, SliceSet
<1>4. PICK d1 \in 0..Len(u) : Len(t) = Len(u) - d1 /\ \A i \in 1..(Len(u) - d1) : t[i] = u[i + d1]
  BY <1>1, <1>2, SliceIs
<1> HIDE DEF t
<1>5. PICK d2 \in 0..Len(t) : /\ v \in Log /\ Len(v) = Len(t) - d2
                              /\ \A i \in 1..(Len(t) - d2) : v[i] = t[i + d2]
                              /\ (d2 = 0 /\ Len(t) <= first) \/ (d2 > 0 /\ Len(t) - d2 = first)
  BY <1>1, <1>3, SliceIs
<1>6. PICK d3 \in 0..n : /\ x \in Log /\ Len(x) = n - d3
                         /\ \A i \in 1..(n - d3) : x[i] = s[i + d3]
                         /\ (d3 = 0 /\ n <= first) \/ (d3 > 0 /\ n - d3 = first)
  BY <1>1, SliceIs
<1> HIDE DEF v, x, first, n
<1>7. Len(t) \in Nat /\ d1 \in Nat /\ d2 \in Nat /\ d3 \in Nat /\ Len(t) = n + 1 - d1
  BY <1>2, <1>3, <1>4, LogIs
<1>8. ASSUME NEW y \in ToSet(v) PROVE y \in ToSet(x) \/ y = e
  <2>1. PICK i \in 1..Len(v) : v[i] = y
    BY <1>5, LogIs
  <2> DEFINE j == i + d2 + d1
  <2>2. i \in 1..(Len(t) - d2) /\ i + d2 \in 1..(Len(u) - d1)
    BY <1>2, <1>5, <1>7
  <2>3. u[j] = y
    BY <1>4, <1>5, <2>1, <2>2
  <2>4. CASE j = n + 1
    BY <1>2, <2>3, <2>4
  <2>5. CASE j # n + 1
    <3>1. j \in 1..n
      BY <1>2, <1>4, <1>7, <2>2, <2>5
    <3>2. j - d3 \in 1..(n - d3) /\ (j - d3) + d3 = j
      BY <1>1, <1>2, <1>5, <1>6, <1>7, <2>2, <3>1
    <3> HIDE DEF j
    <3>3. x[j - d3] = s[j] /\ s[j] = y
      BY <1>2, <1>6, <2>3, <3>1, <3>2
    <3> QED BY <1>6, <3>2, <3>3, LogIs
  <2> QED BY <2>4, <2>5
<1> QED
  BY <1>2, <1>3, <1>8 DEF t, u, v, x, first

(* The events of a service that the page can still ask for the first time. *)
Recent(s) == ToSet(Slice(FirstEvents, eventLog[s]))

(* What is somewhere: an id is one event's, and the last one is recorded.  *)
Somewhere ==
    {e \in RingEvent : \/ \E s \in Services : e \in ToSet(eventLog[s])
                      \/ e \in ToSet(shownEvents)
                      \/ \E f \in Refreshes : refresh[f] # None /\ e \in ToSet(refresh[f].events)}

Identified ==
    /\ \A e \in Somewhere : e.id <= recorded
    /\ \A a, b \in Somewhere : a.id = b.id => a = b

RingOK(s) ==
    /\ eventLog[s] \in Log /\ Distinct(eventLog[s])
    /\ \A e \in ToSet(eventLog[s]) : e.source = s

(* A refresh has what is recent of the services it asked, from its since   *)
(* to when they answered.                                                  *)
RefreshOK(r) ==
    /\ r.since \in Nat /\ r.since <= lastEventTime
    /\ r.events \in Log /\ Distinct(r.events)
    /\ r.upto \in Seq(Nat) /\ Len(r.upto) <= Len(asked)
    /\ \A e \in ToSet(r.events) : \E i \in 1..Len(r.upto) : e.source = asked[i]
    /\ \A i \in 1..Len(r.upto) :
         /\ r.upto[i] <= DateNow
         /\ \A e \in Recent(asked[i]) : r.since < e.time /\ e.time < r.upto[i] => e \in ToSet(r.events)

RefreshesOK == \A f \in Refreshes : refresh[f] # None => RefreshOK(refresh[f])

TooOld(e) == Len(shownEvents) = ShownCapacity /\ e.time <= shownEvents[1].time

(* The times of which s's events may be missing *)
Missed(s) == onTheWay[s] \cup unanswered[s]

ShownOK ==
    /\ shownEvents \in Log /\ Len(shownEvents) <= ShownCapacity
    /\ Ordered(shownEvents) /\ Distinct(shownEvents)
    /\ lastEventTime = 0 \/ \A s \in ToSet(asked) : lastEventTime \in Missed(s)
    /\ \A s \in ToSet(asked) : \A e \in Recent(s) :
         e.time <= lastEventTime =>
            TooOld(e) \/ e \in ToSet(shownEvents) \/ e.time \in Missed(s)

Asking == asked \in {<<"rfq-router", "keeper">>, <<"rfq-router">>, <<"keeper">>, <<>>}

LogInv ==
    /\ now \in Nat /\ recorded \in Nat /\ lastEventTime \in Nat /\ lastEventTime <= DateNow
    /\ Asking /\ DOMAIN refresh = Refreshes /\ DOMAIN onTheWay = Services
    /\ DOMAIN unanswered = Services /\ DOMAIN eventLog = Services
    /\ \A s \in Services : RingOK(s)
    /\ Identified /\ RefreshesOK /\ ShownOK

LEMMA AskedIs ==
  ASSUME Asking
  PROVE  /\ Len(asked) \in Nat /\ DOMAIN asked = 1..Len(asked)
         /\ \A i \in 1..Len(asked) : asked[i] \in Services
         /\ \A i, j \in 1..Len(asked) : i # j => asked[i] # asked[j]
         /\ \A s : s \in ToSet(asked) <=> \E i \in 1..Len(asked) : asked[i] = s
<1> DEFINE S == Services
<1>1. "rfq-router" \in S /\ "keeper" \in S
  BY DEF Services
<1> HIDE DEF S
<1>2. CASE asked = <<"rfq-router", "keeper">>
  <2>1. asked \in Seq(S) /\ Len(asked) = 2 /\ asked[1] = "rfq-router" /\ asked[2] = "keeper"
    BY <1>1, <1>2
  <2> QED BY <1>1, <2>1 DEF ToSet, S
<1>3. CASE asked = <<"rfq-router">>
  <2>1. asked \in Seq(S) /\ Len(asked) = 1 /\ asked[1] = "rfq-router"
    BY <1>1, <1>3
  <2> QED BY <1>1, <2>1 DEF ToSet, S
<1>4. CASE asked = <<"keeper">>
  <2>1. asked \in Seq(S) /\ Len(asked) = 1 /\ asked[1] = "keeper"
    BY <1>1, <1>4
  <2> QED BY <1>1, <2>1 DEF ToSet, S
<1>5. CASE asked = <<>>
  <2>1. asked \in Seq(S) /\ Len(asked) = 0
    BY <1>5
  <2> QED BY <2>1 DEF ToSet, S
<1> QED BY <1>2, <1>3, <1>4, <1>5 DEF Asking

LEMMA EmptyIs == <<>> \in Log /\ Len(<<>>) = 0 /\ ToSet(<<>>) = {} /\ Distinct(<<>>) /\ Ordered(<<>>)
<1>1. <<>> \in Log /\ Len(<<>>) = 0
  BY DEF Log
<1>2. ToSet(<<>>) = {}
  BY <1>1, LogIs
<1> QED
  BY <1>1, <1>2 DEF Distinct, Ordered

LEMMA RecentEmpty ==
  ASSUME EventLogOK, NEW s
  PROVE  eventLog[s] = <<>> => Recent(s) = {}
<1>1. FirstEvents \in Nat \ {0}
  BY DEF EventLogOK
<1>2. ToSet(Slice(FirstEvents, <<>>)) \subseteq ToSet(<<>>)
  BY <1>1, EmptyIs, SliceSet
<1> QED
  BY <1>2, EmptyIs DEF Recent

LEMMA LogInitInv == EventLogOK /\ now = 0 /\ LogInit => LogInv
<1> SUFFICES ASSUME EventLogOK, now = 0, LogInit PROVE LogInv
  OBVIOUS
<1>1. \A s \in Services : eventLog[s] = <<>> /\ onTheWay[s] = {} /\ unanswered[s] = {}
  BY DEF LogInit
<1>2. shownEvents = <<>> /\ lastEventTime = 0 /\ recorded = 0 /\ now = 0
  BY DEF LogInit
<1>3. \A f \in Refreshes : refresh[f] = None
  BY DEF LogInit
<1>4. \A s \in Services : RingOK(s) /\ Recent(s) = {}
  BY <1>1, EmptyIs, RecentEmpty DEF RingOK
<1>5. Somewhere = {}
  BY <1>1, <1>2, <1>3, EmptyIs DEF Somewhere
<1>6. Asking
  BY DEF LogInit, Asking
<1>7. \A s \in ToSet(asked) : s \in Services
  BY <1>6, AskedIs
<1>8. ShownCapacity \in Nat \ {0}
  BY DEF EventLogOK
<1>9. ShownOK
  BY <1>2, <1>4, <1>7, <1>8, EmptyIs DEF ShownOK
<1> QED
  BY <1>1, <1>2, <1>3, <1>4, <1>5, <1>6, <1>9 DEF LogInv, Identified, RefreshesOK, DateNow, LogInit

RecentGrows ==
    \A s \in Services : \A e \in Recent(s)' :
        e \in Recent(s) \/ (e.time \in Nat /\ e.time >= DateNow)

LEMMA RefreshStays ==
  ASSUME Asking, asked' = asked, RecentGrows, now \in Nat, now' \in Nat, now <= now',
         lastEventTime \in Nat, lastEventTime' \in Nat, lastEventTime <= lastEventTime',
         NEW r, RefreshOK(r)
  PROVE  RefreshOK(r)'
<1>1. r.since <= lastEventTime'
  BY DEF RefreshOK
<1>2. \A i \in 1..Len(r.upto) : asked[i] \in Services /\ r.upto[i] \in Nat /\ r.upto[i] <= DateNow
  <2>1. Len(r.upto) \in Nat /\ Len(r.upto) <= Len(asked) /\ Len(asked) \in Nat
    BY AskedIs DEF RefreshOK
  <2>2. \A i \in 1..Len(r.upto) : i \in 1..Len(asked)
    BY <2>1
  <2> QED BY <2>2, AskedIs DEF RefreshOK
<1>3. ASSUME NEW i \in 1..Len(r.upto) PROVE r.upto[i] <= DateNow'
  BY <1>2 DEF DateNow
<1>4. ASSUME NEW i \in 1..Len(r.upto), NEW e \in Recent(asked[i])',
             r.since < e.time, e.time < r.upto[i]
      PROVE  e \in ToSet(r.events)
  <2>1. asked[i] \in Services
    BY <1>2
  <2>2. e \in Recent(asked[i]) \/ (e.time \in Nat /\ e.time >= DateNow)
    BY <1>4, <2>1 DEF RecentGrows
  <2>3. ~(e.time \in Nat /\ e.time >= DateNow)
    BY <1>2, <1>4 DEF DateNow
  <2> QED BY <1>4, <2>2, <2>3 DEF RefreshOK
<1> QED
  BY <1>1, <1>3, <1>4 DEF RefreshOK, Recent, DateNow

LEMMA SameRefresh ==
  ASSUME NEW f, NEW r, refresh'[f] = r, RefreshOK(r)'
  PROVE  RefreshOK(refresh[f])'
BY DEF RefreshOK

LEMMA RefreshesStay ==
  ASSUME RefreshesOK, \A r : RefreshOK(r) => RefreshOK(r)',
         \A f \in Refreshes : refresh'[f] # None => \/ refresh'[f] = refresh[f]
                                                    \/ \E r : refresh'[f] = r /\ RefreshOK(r)'
  PROVE  RefreshesOK'
<1> SUFFICES ASSUME NEW f \in Refreshes, refresh'[f] # None PROVE RefreshOK(refresh[f])'
  BY DEF RefreshesOK
<1>1. PICK r : r = refresh[f]
  OBVIOUS
<1>2. CASE refresh'[f] = refresh[f]
  <2>1. RefreshOK(r)
    BY <1>1, <1>2 DEF RefreshesOK
  <2> QED BY <1>1, <1>2, <2>1, SameRefresh
<1>3. CASE \E x : refresh'[f] = x /\ RefreshOK(x)'
  BY <1>3, SameRefresh
<1> QED BY <1>2, <1>3

LEMMA IdentifiedStays ==
  ASSUME Identified, recorded \in Nat, recorded' \in Nat, recorded <= recorded', Somewhere' \subseteq Somewhere
  PROVE  Identified'
<1>1. \A e \in Somewhere : e.id \in Nat
  BY DEF Somewhere, RingEvent
<1> QED
  BY <1>1 DEF Identified

LEMMA RecordEventStep ==
  ASSUME EventLogOK, LogInv, NEW s \in ToSet(asked), RecordEvent(s)
  PROVE  LogInv'
<1> DEFINE e == [id |-> recorded', source |-> s, time |-> DateNow]
<1>0. /\ now \in Nat /\ recorded \in Nat /\ lastEventTime \in Nat /\ lastEventTime <= DateNow
      /\ Asking /\ DOMAIN refresh = Refreshes /\ DOMAIN onTheWay = Services
      /\ DOMAIN unanswered = Services /\ DOMAIN eventLog = Services
      /\ (\A t \in Services : RingOK(t)) /\ Identified /\ RefreshesOK /\ ShownOK
  BY DEF LogInv
<1>1. s \in Services
  BY <1>0, AskedIs
<1>2. /\ recorded' = recorded + 1
      /\ eventLog' = [eventLog EXCEPT ![s] = Slice(LogCapacity, Append(@, e))]
      /\ UNCHANGED <<now, asked, shownEvents, lastEventTime, refresh, onTheWay, unanswered>>
  BY DEF RecordEvent
<1>3. e \in RingEvent /\ e.id = recorded + 1 /\ e.source = s /\ e.time = DateNow /\ DateNow \in Nat /\ DateNow # 0
  BY <1>0, <1>1, <1>2 DEF RingEvent, DateNow
<1> HIDE DEF e
<1> DEFINE u == Append(eventLog[s], e)
<1>4. /\ eventLog'[s] = Slice(LogCapacity, u)
      /\ \A t \in Services \ {s} : eventLog'[t] = eventLog[t]
      /\ DOMAIN eventLog' = Services
  BY <1>0, <1>1, <1>2
<1>5. eventLog[s] \in Log /\ Distinct(eventLog[s]) /\ \A x \in ToSet(eventLog[s]) : x.source = s
  BY <1>0, <1>1 DEF RingOK
<1>6. \A x \in Somewhere : x.id # e.id
  <2>1. \A x \in Somewhere : x.id \in Nat /\ x.id <= recorded
    BY <1>0 DEF Somewhere, RingEvent, Identified
  <2> QED BY <1>0, <1>3, <2>1
<1>7. \A i \in 1..Len(eventLog[s]) : eventLog[s][i].id # e.id
  BY <1>1, <1>5, <1>6, LogIs DEF Somewhere
<1>8. u \in Log /\ Distinct(u)
  BY <1>3, <1>5, <1>7, AppendDistinct, LogAppended
<1>9. /\ eventLog'[s] \in Log /\ ToSet(eventLog'[s]) \subseteq ToSet(eventLog[s]) \cup {e}
      /\ ToSet(Slice(FirstEvents, eventLog'[s])) \subseteq ToSet(Slice(FirstEvents, eventLog[s])) \cup {e}
  BY <1>3, <1>4, <1>5, RingStep
<1>10. Distinct(eventLog'[s])
  <2>1. LogCapacity \in Nat \ {0}
    BY DEF EventLogOK
  <2> HIDE DEF u
  <2>2. Distinct(Slice(LogCapacity, u))
    BY <1>8, <2>1, SliceSet
  <2> QED BY <1>4, <2>2
<1> HIDE DEF u
<1>11. \A t \in Services : RingOK(t)'
  <2>1. RingOK(s)'
    BY <1>3, <1>5, <1>9, <1>10 DEF RingOK
  <2>2. \A t \in Services \ {s} : RingOK(t)'
    BY <1>0, <1>4 DEF RingOK
  <2> QED BY <2>1, <2>2
<1>12. \A t \in Services : \A x \in Recent(t)' : x \in Recent(t) \/ x = e
  <2>1. \A x \in Recent(s)' : x \in Recent(s) \/ x = e
    BY <1>9 DEF Recent
  <2>2. \A t \in Services \ {s} : Recent(t)' = Recent(t)
    BY <1>4 DEF Recent
  <2> QED BY <2>1, <2>2
<1>13. Identified'
  <2>1. \A x \in Somewhere' : x \in Somewhere \/ x = e
    <3>1. \A t \in Services : \A x \in ToSet(eventLog'[t]) : x \in ToSet(eventLog[t]) \/ x = e
      BY <1>4, <1>9
    <3> QED BY <1>2, <3>1 DEF Somewhere
  <2>2. \A x \in Somewhere : x.id \in Nat /\ x.id <= recorded
    BY <1>0 DEF Somewhere, RingEvent, Identified
  <2>3. \A x \in Somewhere' : x.id <= recorded'
    BY <1>0, <1>2, <1>3, <2>1, <2>2
  <2>4. ASSUME NEW a \in Somewhere', NEW b \in Somewhere', a.id = b.id PROVE a = b
    BY <1>0, <1>6, <2>1, <2>4 DEF Identified
  <2> QED BY <2>3, <2>4 DEF Identified
<1>14. RefreshesOK'
  <2>1. RecentGrows
    BY <1>3, <1>12 DEF RecentGrows
  <2>2. now' \in Nat /\ now <= now' /\ lastEventTime' \in Nat /\ lastEventTime <= lastEventTime' /\ asked' = asked
    BY <1>0, <1>2
  <2>3. \A r : RefreshOK(r) => RefreshOK(r)'
    BY <1>0, <2>1, <2>2, RefreshStays
  <2>4. refresh' = refresh
    BY <1>2
  <2> QED BY <1>0, <2>3, <2>4, RefreshesStay
<1>15. ShownOK'
  <2>1. ASSUME NEW t \in ToSet(asked), NEW x \in Recent(t)', x.time <= lastEventTime
        PROVE  TooOld(x) \/ x \in ToSet(shownEvents) \/ x.time \in Missed(t)
    <3>1. t \in Services
      BY <1>0, AskedIs
    <3>2. CASE x \in Recent(t)
      BY <1>0, <2>1, <3>2 DEF ShownOK
    <3>3. CASE x = e
      <4>1. x.time = lastEventTime /\ lastEventTime # 0
        BY <1>0, <1>3, <2>1, <3>3
      <4> QED BY <1>0, <4>1 DEF ShownOK
    <3> QED BY <1>12, <3>1, <3>2, <3>3
  <2> QED BY <1>0, <1>2, <2>1 DEF Missed, ShownOK, TooOld
<1> QED
  BY <1>0, <1>2, <1>4, <1>11, <1>13, <1>14, <1>15 DEF LogInv, DateNow, Asking

LEMMA NothingMoves ==
  ASSUME LogInv, UNCHANGED <<now, asked, eventLog, recorded, shownEvents, lastEventTime, onTheWay, unanswered>>
  PROVE  /\ \A r : RefreshOK(r) => RefreshOK(r)'
         /\ \A s \in Services : RingOK(s)'
         /\ ShownOK'
BY DEF LogInv, RefreshOK, RingOK, Missed, ShownOK, TooOld, Recent, DateNow

LEMMA FetchFromUrlStep ==
  ASSUME EventLogOK, LogInv, NEW f \in Refreshes, NEW ok \in BOOLEAN, FetchFromUrl(f, ok)
  PROVE  LogInv'
<1> DEFINE r == refresh[f]
           m == Len(r.upto)
           s == asked[m + 1]
           added == IF ok THEN EventsSince(s, r.since) ELSE <<>>
           last == IF ok THEN DateNow ELSE r.since
           r2 == [since |-> r.since, events |-> r.events \o added, upto |-> Append(r.upto, last),
                  failed |-> IF ok THEN r.failed ELSE r.failed \cup {s}]
<1>0. /\ now \in Nat /\ recorded \in Nat /\ lastEventTime \in Nat /\ lastEventTime <= DateNow
      /\ Asking /\ DOMAIN refresh = Refreshes /\ DOMAIN onTheWay = Services
      /\ DOMAIN unanswered = Services /\ DOMAIN eventLog = Services
      /\ (\A t \in Services : RingOK(t)) /\ Identified /\ RefreshesOK /\ ShownOK
  BY DEF LogInv
<1>1. r # None /\ m < Len(asked) /\ refresh' = [refresh EXCEPT ![f] = r2]
      /\ UNCHANGED <<now, asked, eventLog, recorded, shownEvents, lastEventTime, onTheWay, unanswered>>
  BY DEF FetchFromUrl
<1>2. /\ r.since \in Nat /\ r.since <= lastEventTime
      /\ r.events \in Log /\ Distinct(r.events)
      /\ r.upto \in Seq(Nat) /\ m \in Nat
      /\ \A e \in ToSet(r.events) : \E i \in 1..m : e.source = asked[i]
      /\ \A i \in 1..m :
           /\ r.upto[i] <= DateNow
           /\ \A e \in Recent(asked[i]) : r.since < e.time /\ e.time < r.upto[i] => e \in ToSet(r.events)
  BY <1>0, <1>1 DEF RefreshesOK, RefreshOK
<1>3. /\ s \in Services /\ Len(asked) \in Nat /\ m + 1 \in 1..Len(asked)
      /\ \A i \in 1..m : i \in 1..Len(asked) /\ asked[i] # s
  <2>1. Len(asked) \in Nat /\ m + 1 \in 1..Len(asked) /\ \A i \in 1..m : i \in 1..Len(asked) /\ i # m + 1
    BY <1>0, <1>1, <1>2, AskedIs
  <2> QED BY <1>0, <2>1, AskedIs
<1>4. /\ added \in Log /\ Distinct(added) /\ ToSet(added) \subseteq ToSet(eventLog[s])
      /\ ok => \A e \in Recent(s) : e.time > r.since => e \in ToSet(added)
  <2>1. eventLog[s] \in Log /\ Distinct(eventLog[s])
    BY <1>0, <1>3 DEF RingOK
  <2> HIDE DEF r, s
  <2>2. LET t == EventsSince(s, r.since)
        IN  /\ t \in Log /\ Distinct(t) /\ ToSet(t) \subseteq ToSet(eventLog[s])
            /\ \A e \in ToSet(Slice(FirstEvents, eventLog[s])) : e.time > r.since => e \in ToSet(t)
    BY <1>2, <1>3, <2>1, SinceIs
  <2> QED BY <2>2, EmptyIs DEF Recent
<1> HIDE DEF added
<1>5. last \in Nat /\ last <= DateNow /\ (~ok => last = r.since)
  BY <1>0, <1>2 DEF DateNow
<1> HIDE DEF last
<1>6. \A e \in ToSet(added) : e.source = s /\ e \in Somewhere
  <2>1. \A e \in ToSet(eventLog[s]) : e.source = s /\ e \in RingEvent
    BY <1>0, <1>3, LogIs DEF RingOK
  <2> QED BY <1>3, <1>4, <2>1 DEF Somewhere
<1>7. \A e \in ToSet(r.events) : e \in Somewhere
  <2>1. ToSet(r.events) \subseteq RingEvent
    BY <1>2, LogIs
  <2> QED BY <1>1, <2>1 DEF Somewhere
<1>8. \A a \in ToSet(r.events), b \in ToSet(added) : a.id # b.id
  <2> SUFFICES ASSUME NEW a \in ToSet(r.events), NEW b \in ToSet(added), a.id = b.id PROVE FALSE
    OBVIOUS
  <2>1. a = b
    BY <1>0, <1>6, <1>7 DEF Identified
  <2>2. PICK i \in 1..m : a.source = asked[i]
    BY <1>2
  <2> QED BY <1>3, <1>6, <2>1, <2>2
<1> HIDE DEF r
<1> DEFINE got == r.events \o added
           upto == Append(r.upto, last)
<1>9. got \in Log /\ Distinct(got) /\ ToSet(got) = ToSet(r.events) \cup ToSet(added)
  BY <1>2, <1>4, <1>8, LogJoined, JoinDistinct
<1>10. /\ upto \in Seq(Nat) /\ Len(upto) = m + 1 /\ upto[m + 1] = last
       /\ \A i \in 1..m : upto[i] = r.upto[i]
  BY <1>2, <1>5
<1>11. r2.since = r.since /\ r2.events = got /\ r2.upto = upto
  OBVIOUS
<1> HIDE DEF r2, got, upto, m, s
<1>12. (\A i \in 1..(m + 1) : i \in 1..m \/ i = m + 1) /\ \A i \in 1..m : i \in 1..(m + 1)
  BY <1>2
<1>13. asked[m + 1] = s /\ m + 1 \in 1..(m + 1) /\ m + 1 <= Len(asked)
  BY <1>2, <1>3 DEF s
<1>14. RefreshOK(r2)
  <2>1. \A e \in ToSet(got) : \E i \in 1..(m + 1) : e.source = asked[i]
    BY <1>2, <1>6, <1>9, <1>12, <1>13
  <2>2. ASSUME NEW i \in 1..(m + 1)
        PROVE  /\ upto[i] <= DateNow
               /\ \A e \in Recent(asked[i]) : r.since < e.time /\ e.time < upto[i] => e \in ToSet(got)
    <3>1. CASE i \in 1..m
      BY <1>2, <1>9, <1>10, <3>1
    <3>2. CASE i = m + 1
      <4>1. upto[i] = last /\ asked[i] = s
        BY <1>10, <1>13, <3>2
      <4>2. ASSUME NEW e \in Recent(s), r.since < e.time, e.time < last PROVE e \in ToSet(got)
        <5>1. e.time \in Nat
          <6>1. FirstEvents \in Nat \ {0} /\ eventLog[s] \in Log
            BY <1>0, <1>3 DEF EventLogOK, RingOK
          <6>2. e \in RingEvent
            BY <4>2, <6>1, SliceSet, LogIs DEF Recent
          <6> QED BY <6>2 DEF RingEvent
        <5>2. ok
          BY <1>2, <1>5, <4>2, <5>1
        <5> QED BY <1>2, <1>4, <1>9, <4>2, <5>1, <5>2
      <4> QED BY <1>5, <4>1, <4>2
    <3> QED BY <1>12, <3>1, <3>2
  <2> QED BY <1>2, <1>9, <1>10, <1>11, <1>13, <2>1, <2>2 DEF RefreshOK
<1>15. refresh'[f] = r2 /\ DOMAIN refresh' = Refreshes /\ \A g \in Refreshes \ {f} : refresh'[g] = refresh[g]
  BY <1>0, <1>1
<1>16. (\A x : RefreshOK(x) => RefreshOK(x)') /\ (\A t \in Services : RingOK(t)') /\ ShownOK'
  BY <1>1, NothingMoves
<1>17. RefreshesOK'
  <2>1. \A g \in Refreshes : refresh'[g] # None => \/ refresh'[g] = refresh[g]
                                                   \/ \E x : refresh'[g] = x /\ RefreshOK(x)'
    BY <1>14, <1>15, <1>16
  <2> QED BY <1>0, <1>16, <2>1, RefreshesStay
<1>18. Identified'
  <2>1. \A g \in Refreshes : \A e : refresh'[g] # None /\ e \in ToSet(refresh'[g].events) =>
           e \in Somewhere \/ (refresh[g] # None /\ e \in ToSet(refresh[g].events))
    BY <1>6, <1>7, <1>9, <1>11, <1>15
  <2>2. Somewhere' \subseteq Somewhere
    BY <1>1, <2>1 DEF Somewhere
  <2> QED BY <1>0, <1>1, <2>2, IdentifiedStays
<1> QED
  BY <1>0, <1>1, <1>15, <1>16, <1>17, <1>18 DEF LogInv, DateNow, Asking

LEMMA BeginRefreshStep ==
  ASSUME LogInv, NEW f \in Refreshes, BeginRefresh(f)
  PROVE  LogInv'
<1> DEFINE r2 == [since |-> lastEventTime, events |-> <<>>, upto |-> <<>>, failed |-> {}]
<1>0. /\ now \in Nat /\ recorded \in Nat /\ lastEventTime \in Nat /\ lastEventTime <= DateNow
      /\ Asking /\ DOMAIN refresh = Refreshes /\ DOMAIN onTheWay = Services
      /\ DOMAIN unanswered = Services /\ DOMAIN eventLog = Services
      /\ (\A t \in Services : RingOK(t)) /\ Identified /\ RefreshesOK /\ ShownOK
  BY DEF LogInv
<1>1. refresh' = [refresh EXCEPT ![f] = r2]
      /\ UNCHANGED <<now, asked, eventLog, recorded, shownEvents, lastEventTime, onTheWay, unanswered>>
  BY DEF BeginRefresh
<1>2. RefreshOK(r2)
  <2>1. r2.since = lastEventTime /\ r2.events = <<>> /\ r2.upto = <<>>
    OBVIOUS
  <2> HIDE DEF r2
  <2>2. Len(asked) \in Nat
    BY <1>0, AskedIs
  <2>3. <<>> \in Seq(Nat) /\ Len(<<>>) = 0 /\ 1..0 = {}
    OBVIOUS
  <2> QED BY <1>0, <2>1, <2>2, <2>3, EmptyIs DEF RefreshOK
<1>3. r2.events = <<>>
  OBVIOUS
<1> HIDE DEF r2
<1>4. refresh'[f] = r2 /\ DOMAIN refresh' = Refreshes /\ \A g \in Refreshes \ {f} : refresh'[g] = refresh[g]
  BY <1>0, <1>1
<1>5. (\A x : RefreshOK(x) => RefreshOK(x)') /\ (\A t \in Services : RingOK(t)') /\ ShownOK'
  BY <1>1, NothingMoves
<1>6. RefreshesOK'
  <2>1. \A g \in Refreshes : refresh'[g] # None => \/ refresh'[g] = refresh[g]
                                                   \/ \E x : refresh'[g] = x /\ RefreshOK(x)'
    BY <1>2, <1>4, <1>5
  <2> QED BY <1>0, <1>5, <2>1, RefreshesStay
<1>7. Identified'
  <2>1. \A g \in Refreshes : \A e : refresh'[g] # None /\ e \in ToSet(refresh'[g].events) =>
           refresh[g] # None /\ e \in ToSet(refresh[g].events)
    BY <1>3, <1>4, EmptyIs
  <2>2. Somewhere' \subseteq Somewhere
    BY <1>1, <2>1 DEF Somewhere
  <2> QED BY <1>0, <1>1, <2>2, IdentifiedStays
<1> QED
  BY <1>0, <1>1, <1>4, <1>5, <1>6, <1>7 DEF LogInv, DateNow, Asking

LEMMA RestartServiceStep ==
  ASSUME EventLogOK, LogInv, NEW s \in ToSet(asked), RestartService(s)
  PROVE  LogInv'
<1>0. /\ now \in Nat /\ recorded \in Nat /\ lastEventTime \in Nat /\ lastEventTime <= DateNow
      /\ Asking /\ DOMAIN refresh = Refreshes /\ DOMAIN onTheWay = Services
      /\ DOMAIN unanswered = Services /\ DOMAIN eventLog = Services
      /\ (\A t \in Services : RingOK(t)) /\ Identified /\ RefreshesOK /\ ShownOK
  BY DEF LogInv
<1>1. s \in Services
  BY <1>0, AskedIs
<1>2. /\ recorded' = recorded + 1 /\ eventLog' = [eventLog EXCEPT ![s] = <<>>]
      /\ UNCHANGED <<now, asked, shownEvents, lastEventTime, refresh, onTheWay, unanswered>>
  BY DEF RestartService
<1>3. /\ eventLog'[s] = <<>> /\ DOMAIN eventLog' = Services
      /\ \A t \in Services \ {s} : eventLog'[t] = eventLog[t]
  BY <1>0, <1>1, <1>2
<1>4. \A t \in Services : RingOK(t)'
  <2>1. RingOK(s)'
    BY <1>3, EmptyIs DEF RingOK
  <2>2. \A t \in Services \ {s} : RingOK(t)'
    BY <1>0, <1>3 DEF RingOK
  <2> QED BY <2>1, <2>2
<1>5. \A t \in Services : Recent(t)' \subseteq Recent(t)
  <2>1. Recent(s)' = {}
    <3>1. FirstEvents \in Nat \ {0}
      BY DEF EventLogOK
    <3>2. ToSet(Slice(FirstEvents, <<>>)) \subseteq ToSet(<<>>)
      BY <3>1, EmptyIs, SliceSet
    <3> QED BY <1>3, <3>2, EmptyIs DEF Recent
  <2>2. \A t \in Services \ {s} : Recent(t)' = Recent(t)
    BY <1>3 DEF Recent
  <2> QED BY <2>1, <2>2
<1>6. Identified'
  <2>1. \A t \in Services : ToSet(eventLog'[t]) \subseteq ToSet(eventLog[t])
    BY <1>3, EmptyIs
  <2>2. Somewhere' \subseteq Somewhere
    BY <1>2, <2>1 DEF Somewhere
  <2> QED BY <1>0, <1>2, <2>2, IdentifiedStays
<1>7. RefreshesOK'
  <2>1. RecentGrows
    BY <1>5 DEF RecentGrows
  <2>2. now' \in Nat /\ now <= now' /\ lastEventTime' \in Nat /\ lastEventTime <= lastEventTime' /\ asked' = asked
    BY <1>0, <1>2
  <2>3. \A r : RefreshOK(r) => RefreshOK(r)'
    BY <1>0, <2>1, <2>2, RefreshStays
  <2>4. refresh' = refresh
    BY <1>2
  <2> QED BY <1>0, <2>3, <2>4, RefreshesStay
<1>8. ShownOK'
  <2>1. \A t \in ToSet(asked) : t \in Services
    BY <1>0, AskedIs
  <2>2. \A t \in ToSet(asked) : Recent(t)' \subseteq Recent(t)
    BY <1>5, <2>1
  <2> QED BY <1>0, <1>2, <2>2 DEF Missed, ShownOK, TooOld
<1> QED
  BY <1>0, <1>2, <1>3, <1>4, <1>6, <1>7, <1>8 DEF LogInv, DateNow, Asking

(* What the page shows after a refresh that brought something.             *)
LEMMA ShownStep ==
  ASSUME EventLogOK, LogInv, NEW r, RefreshOK(r), Len(r.upto) = Len(asked),
         ToSet(r.events) \subseteq Somewhere,
         shownEvents' = Merged(shownEvents, r.events), lastEventTime' = DateNow,
         \A s \in Services : Missed(s)' = Missed(s) \cup PassedOver(r, s),
         UNCHANGED <<now, asked, eventLog, recorded>>
  PROVE  ShownOK' /\ ToSet(shownEvents') \subseteq ToSet(shownEvents) \cup ToSet(r.events)
<1> DEFINE t == Merged(shownEvents, r.events)
<1>0. /\ now \in Nat /\ recorded \in Nat /\ lastEventTime \in Nat /\ lastEventTime <= DateNow
      /\ Asking /\ (\A s \in Services : RingOK(s)) /\ Identified /\ ShownOK
  BY DEF LogInv
<1>1. /\ r.since \in Nat /\ r.since <= lastEventTime
      /\ r.events \in Log /\ Distinct(r.events)
      /\ r.upto \in Seq(Nat) /\ Len(r.upto) \in Nat
      /\ \A i \in 1..Len(r.upto) :
           /\ r.upto[i] <= DateNow
           /\ \A e \in Recent(asked[i]) : r.since < e.time /\ e.time < r.upto[i] => e \in ToSet(r.events)
  BY DEF RefreshOK
<1>2. /\ shownEvents \in Log /\ Len(shownEvents) <= ShownCapacity
      /\ Ordered(shownEvents) /\ Distinct(shownEvents)
  BY <1>0 DEF ShownOK
<1>3. \A p \in ToSet(shownEvents), e \in ToSet(r.events) : p.id = e.id => p = e
  <2>1. ToSet(shownEvents) \subseteq Somewhere
    <3>1. ToSet(shownEvents) \subseteq RingEvent
      BY <1>2, LogIs
    <3> QED BY <3>1 DEF Somewhere
  <2> QED BY <1>0, <2>1 DEF Identified
<1>4. /\ t \in Log /\ Len(t) <= ShownCapacity /\ Ordered(t) /\ Distinct(t)
      /\ ToSet(t) \subseteq ToSet(shownEvents) \cup ToSet(r.events)
      /\ \A e \in ToSet(shownEvents) \cup ToSet(r.events) :
           e \in ToSet(t) \/ (Len(t) = ShownCapacity /\ e.time <= t[1].time)
      /\ Len(shownEvents) = ShownCapacity =>
           Len(t) = ShownCapacity /\ t[1].time >= shownEvents[1].time
  <2>1. r.events \in Log /\ Distinct(r.events)
    BY <1>1
  <2> QED BY <1>2, <1>3, <2>1, MergedIs
<1>5. shownEvents' = t
  OBVIOUS
<1> HIDE DEF t
<1>6. ASSUME NEW s \in ToSet(asked)
      PROVE  /\ s \in Services /\ Missed(s)' = Missed(s) \cup PassedOver(r, s)
             /\ \E i \in 1..Len(asked) : i \in 1..Len(r.upto) /\ i \in DOMAIN asked /\ asked[i] = s
  BY <1>0, AskedIs
<1>7. ASSUME NEW s \in ToSet(asked) PROVE lastEventTime' \in Missed(s)'
  <2>1. PICK i \in 1..Len(r.upto) : i \in DOMAIN asked /\ asked[i] = s
    BY <1>6
  <2>2. r.upto[i] <= DateNow
    BY <1>1
  <2>3. CASE lastEventTime < DateNow
    <3>1. DateNow \in (lastEventTime + 1)..DateNow
      BY <1>0, <2>3 DEF DateNow
    <3> QED BY <1>6, <2>1, <2>2, <3>1 DEF PassedOver
  <2>4. CASE lastEventTime = DateNow
    <3>1. lastEventTime # 0
      BY <1>0, <2>4 DEF DateNow
    <3>2. lastEventTime \in Missed(s)
      BY <1>0, <3>1 DEF ShownOK
    <3> QED BY <1>6, <2>4, <3>2
  <2>5. DateNow \in Nat
    BY <1>0 DEF DateNow
  <2> QED BY <1>0, <2>3, <2>4, <2>5
<1>8. ASSUME NEW s \in ToSet(asked), NEW e \in Recent(s), e.time <= DateNow
      PROVE  \/ Len(t) = ShownCapacity /\ e.time <= t[1].time
             \/ e \in ToSet(t) \/ e.time \in Missed(s)'
  <2>1. PICK i \in 1..Len(r.upto) : i \in DOMAIN asked /\ asked[i] = s
    BY <1>6
  <2>2. s \in Services /\ Missed(s) \subseteq Missed(s)'
    BY <1>6
  <2>3. e.time \in Nat
    <3>1. FirstEvents \in Nat \ {0} /\ eventLog[s] \in Log
      BY <1>0, <2>2 DEF EventLogOK, RingOK
    <3>2. e \in RingEvent
      BY <3>1, SliceSet, LogIs DEF Recent
    <3> QED BY <3>2 DEF RingEvent
  <2>4. CASE e.time <= lastEventTime
    <3>1. TooOld(e) \/ e \in ToSet(shownEvents) \/ e.time \in Missed(s)
      BY <1>0, <2>4 DEF ShownOK
    <3>2. CASE TooOld(e)
      <4>1. Len(shownEvents) = ShownCapacity /\ e.time <= shownEvents[1].time
        BY <3>2 DEF TooOld
      <4>2. 1 \in 1..Len(shownEvents) /\ 1 \in 1..Len(t)
        BY <1>4, <4>1 DEF EventLogOK
      <4>3. shownEvents[1] \in RingEvent /\ t[1] \in RingEvent
        BY <1>2, <1>4, <4>2, LogIs
      <4>4. shownEvents[1].time \in Nat /\ t[1].time \in Nat
        BY <4>3 DEF RingEvent
      <4> QED BY <1>4, <2>3, <4>1, <4>4
    <3> QED BY <1>4, <2>2, <3>1, <3>2
  <2>5. CASE lastEventTime < e.time
    <3>1. r.upto[i] \in Nat
      BY <1>1
    <3>2. CASE r.upto[i] <= e.time
      <4>1. e.time \in (lastEventTime + 1)..DateNow
        BY <1>0, <1>8, <2>3, <2>5 DEF DateNow
      <4>2. e.time \in PassedOver(r, s)
        BY <2>1, <3>2, <4>1 DEF PassedOver
      <4> QED BY <1>6, <4>2
    <3>3. CASE e.time < r.upto[i]
      <4>1. r.since < e.time
        BY <1>0, <1>1, <2>3, <2>5
      <4>2. e \in ToSet(r.events)
        BY <1>1, <2>1, <3>3, <4>1
      <4> QED BY <1>4, <4>2
    <3> QED BY <2>3, <3>1, <3>2, <3>3
  <2> QED BY <1>0, <2>3, <2>4, <2>5
<1> QED
  BY <1>4, <1>5, <1>7, <1>8 DEF ShownOK, TooOld, Recent

LEMMA ShowEventsStep ==
  ASSUME EventLogOK, LogInv, NEW f \in Refreshes, ShowEvents(f)
  PROVE  LogInv'
<1> DEFINE r == refresh[f]
<1>0. /\ now \in Nat /\ recorded \in Nat /\ lastEventTime \in Nat /\ lastEventTime <= DateNow
      /\ Asking /\ DOMAIN refresh = Refreshes /\ DOMAIN onTheWay = Services
      /\ DOMAIN unanswered = Services /\ DOMAIN eventLog = Services
      /\ (\A t \in Services : RingOK(t)) /\ Identified /\ RefreshesOK /\ ShownOK
  BY DEF LogInv
<1>1. r # None /\ Len(r.upto) = Len(asked) /\ refresh' = [refresh EXCEPT ![f] = None]
      /\ UNCHANGED <<now, asked, eventLog, recorded>>
  BY DEF ShowEvents
<1>2. RefreshOK(r)
  BY <1>0, <1>1 DEF RefreshesOK
<1>3. refresh'[f] = None /\ DOMAIN refresh' = Refreshes /\ \A g \in Refreshes \ {f} : refresh'[g] = refresh[g]
  BY <1>0, <1>1
<1>4. ToSet(r.events) \subseteq Somewhere
  <2>1. ToSet(r.events) \subseteq RingEvent
    BY <1>2, LogIs DEF RefreshOK
  <2> QED BY <1>1, <2>1 DEF Somewhere
<1>5. /\ lastEventTime' \in Nat /\ lastEventTime <= lastEventTime' /\ lastEventTime' <= DateNow
      /\ DOMAIN onTheWay' = Services /\ DOMAIN unanswered' = Services /\ ShownOK'
      /\ ToSet(shownEvents') \subseteq ToSet(shownEvents) \cup ToSet(r.events)
  <2>1. CASE r.events = <<>>
    <3>1. UNCHANGED <<shownEvents, lastEventTime, onTheWay, unanswered>>
      BY <2>1 DEF ShowEvents
    <3> QED BY <1>0, <1>1, <3>1 DEF Missed, ShownOK, TooOld, Recent
  <2>2. CASE r.events # <<>>
    <3>1. /\ shownEvents' = Merged(shownEvents, r.events) /\ lastEventTime' = DateNow
          /\ onTheWay' = [s \in Services |->
                 onTheWay[s] \cup IF s \in r.failed THEN {} ELSE PassedOver(r, s)]
          /\ unanswered' = [s \in Services |->
                 unanswered[s] \cup IF s \in r.failed THEN PassedOver(r, s) ELSE {}]
      BY <2>2 DEF ShowEvents
    <3>2. DOMAIN onTheWay' = Services /\ DOMAIN unanswered' = Services /\ DateNow \in Nat
      BY <1>0, <3>1 DEF DateNow
    <3> HIDE DEF r
    <3>4. ASSUME NEW s \in Services PROVE Missed(s)' = Missed(s) \cup PassedOver(r, s)
      <4>1. CASE s \in r.failed
        BY <3>1, <4>1 DEF Missed
      <4>2. CASE s \notin r.failed
        BY <3>1, <4>2 DEF Missed
      <4> QED BY <4>1, <4>2
    <3>3. ShownOK' /\ ToSet(shownEvents') \subseteq ToSet(shownEvents) \cup ToSet(r.events)
      BY <1>1, <1>2, <1>4, <3>1, <3>4, ShownStep
    <3> QED BY <1>0, <3>1, <3>2, <3>3
  <2> QED BY <2>1, <2>2
<1>6. \A t \in Services : RingOK(t)'
  BY <1>0, <1>1 DEF RingOK
<1>7. RefreshesOK'
  <2>1. RecentGrows
    BY <1>1 DEF RecentGrows, Recent
  <2>2. now' \in Nat /\ now <= now' /\ asked' = asked
    BY <1>0, <1>1
  <2>3. \A x : RefreshOK(x) => RefreshOK(x)'
    BY <1>0, <1>5, <2>1, <2>2, RefreshStays
  <2>4. \A g \in Refreshes : refresh'[g] # None => refresh'[g] = refresh[g]
    BY <1>3
  <2> QED BY <1>0, <2>3, <2>4, RefreshesStay
<1>8. Identified'
  <2>1. \A g \in Refreshes : \A e : refresh'[g] # None /\ e \in ToSet(refresh'[g].events) =>
           refresh[g] # None /\ e \in ToSet(refresh[g].events)
    BY <1>3
  <2>2. \A e \in ToSet(shownEvents') : e \in ToSet(shownEvents) \/ e \in Somewhere
    BY <1>4, <1>5
  <2>3. Somewhere' \subseteq Somewhere
    BY <1>1, <2>1, <2>2 DEF Somewhere
  <2> QED BY <1>0, <1>1, <2>3, IdentifiedStays
<1> QED
  BY <1>0, <1>1, <1>3, <1>5, <1>6, <1>7, <1>8 DEF LogInv, DateNow, Asking

LEMMA LogTickStep ==
  ASSUME LogInv, LogTick
  PROVE  LogInv'
<1>0. /\ now \in Nat /\ recorded \in Nat /\ lastEventTime \in Nat /\ lastEventTime <= DateNow
      /\ Asking /\ DOMAIN refresh = Refreshes /\ DOMAIN onTheWay = Services
      /\ DOMAIN unanswered = Services /\ DOMAIN eventLog = Services
      /\ (\A t \in Services : RingOK(t)) /\ Identified /\ RefreshesOK /\ ShownOK
  BY DEF LogInv
<1>1. /\ now' = now + 1
      /\ UNCHANGED <<asked, eventLog, recorded, shownEvents, lastEventTime, refresh, onTheWay, unanswered>>
  BY DEF LogTick, Tick
<1>2. (\A t \in Services : RingOK(t)') /\ ShownOK'
  BY <1>0, <1>1 DEF RingOK, Missed, ShownOK, TooOld, Recent
<1>3. RefreshesOK'
  <2>1. RecentGrows
    BY <1>1 DEF RecentGrows, Recent
  <2>2. now' \in Nat /\ now <= now' /\ lastEventTime' \in Nat /\ lastEventTime <= lastEventTime' /\ asked' = asked
    BY <1>0, <1>1
  <2>3. \A x : RefreshOK(x) => RefreshOK(x)'
    BY <1>0, <2>1, <2>2, RefreshStays
  <2>4. refresh' = refresh
    BY <1>1
  <2> QED BY <1>0, <2>3, <2>4, RefreshesStay
<1>4. Identified'
  BY <1>0, <1>1 DEF Identified, Somewhere
<1>5. now' \in Nat /\ lastEventTime' <= DateNow'
  BY <1>0, <1>1 DEF DateNow
<1> QED
  BY <1>0, <1>1, <1>2, <1>3, <1>4, <1>5 DEF LogInv, Asking

LEMMA LogNextInv == EventLogOK /\ LogInv /\ [LogNext]_logVars => LogInv'
<1> SUFFICES ASSUME EventLogOK, LogInv, [LogNext]_logVars PROVE LogInv'
  OBVIOUS
<1>1. CASE \E s \in ToSet(asked) : RecordEvent(s)
  BY <1>1, RecordEventStep
<1>2. CASE \E s \in ToSet(asked) : RestartService(s)
  BY <1>2, RestartServiceStep
<1>3. CASE \E f \in Refreshes : BeginRefresh(f)
  BY <1>3, BeginRefreshStep
<1>4. CASE \E f \in Refreshes : ShowEvents(f)
  BY <1>4, ShowEventsStep
<1>5. CASE \E f \in Refreshes, ok \in BOOLEAN : FetchFromUrl(f, ok)
  BY <1>5, FetchFromUrlStep
<1>6. CASE LogTick
  BY <1>6, LogTickStep
<1>7. CASE UNCHANGED logVars
  <2>1. UNCHANGED <<now, asked, eventLog, recorded, shownEvents, lastEventTime, refresh, onTheWay, unanswered>>
    BY <1>7 DEF logVars
  <2>2. (\A r : RefreshOK(r) => RefreshOK(r)') /\ (\A s \in Services : RingOK(s)') /\ ShownOK'
    BY <2>1, NothingMoves
  <2>3. Identified'
    BY <2>1 DEF LogInv, Identified, Somewhere
  <2>4. RefreshesOK'
    <3>1. RefreshesOK /\ refresh' = refresh
      BY <2>1 DEF LogInv
    <3> QED BY <2>2, <3>1, RefreshesStay
  <2> QED BY <2>1, <2>2, <2>3, <2>4 DEF LogInv, DateNow, Asking
<1> QED
  BY <1>1, <1>2, <1>3, <1>4, <1>5, <1>6, <1>7 DEF LogNext

LEMMA LogInvShows == EventLogOK /\ LogInv => EventsShown
<1> SUFFICES ASSUME EventLogOK, LogInv PROVE EventsShown
  OBVIOUS
<1>1. /\ shownEvents \in Log /\ Ordered(shownEvents) /\ Distinct(shownEvents) /\ Asking
      /\ \A s \in Services : RingOK(s)
      /\ \A s \in ToSet(asked) : \A e \in Recent(s) :
           e.time <= lastEventTime =>
              TooOld(e) \/ e \in ToSet(shownEvents) \/ e.time \in Missed(s)
  BY DEF LogInv, ShownOK, Missed
<1>2. DOMAIN shownEvents = 1..Len(shownEvents) /\ Len(shownEvents) \in Nat
  BY <1>1, LogIs
<1>3. \A i, j \in DOMAIN shownEvents : i < j =>
         /\ shownEvents[i].id # shownEvents[j].id
         /\ shownEvents[i].time <= shownEvents[j].time
  BY <1>1, <1>2 DEF Ordered, Distinct
<1>4. ASSUME NEW s \in ToSet(asked), NEW e \in Recent(s), e.time <= lastEventTime,
             Len(shownEvents) = ShownCapacity => e.time > shownEvents[1].time
      PROVE  e \in ToSet(shownEvents) \/ e.time \in Missed(s)
  <2>1. e.time \in Nat
    <3>1. FirstEvents \in Nat \ {0} /\ eventLog[s] \in Log
      BY <1>1, AskedIs DEF EventLogOK, RingOK
    <3>2. e \in RingEvent
      BY <3>1, SliceSet, LogIs DEF Recent
    <3> QED BY <3>2 DEF RingEvent
  <2>2. ASSUME TooOld(e) PROVE FALSE
    <3>1. Len(shownEvents) = ShownCapacity /\ e.time <= shownEvents[1].time
      BY <2>2 DEF TooOld
    <3>2. 1 \in 1..Len(shownEvents)
      BY <3>1 DEF EventLogOK
    <3>3. shownEvents[1] \in RingEvent
      BY <1>1, <3>2, LogIs
    <3>4. shownEvents[1].time \in Nat
      BY <3>3 DEF RingEvent
    <3> QED BY <1>4, <2>1, <3>1, <3>4
  <2> QED BY <1>1, <1>4, <2>2
<1> QED
  BY <1>3, <1>4 DEF EventsShown, Recent, Missed

(* EventsShown of EventLog (the logs page over the rings of the router and *)
(* the keeper), for any capacities, any number of refreshes under way and  *)
(* any events: what the page will not ask for again is shown, too old,     *)
(* came between an answer and the moment it was taken for complete, or is  *)
(* of a service that gave no answer while the other one did.               *)
THEOREM EventsAlwaysShown == LogSpec => []EventsShown
<1>1. EventLogOK
  BY EventLogOK
<1>2. now = 0 /\ LogInit => LogInv
  BY <1>1, LogInitInv
<1>3. LogInv /\ [LogNext]_logVars => LogInv'
  BY <1>1, LogNextInv
<1>4. LogInv => EventsShown
  BY <1>1, LogInvShows
<1> QED
  BY <1>2, <1>3, <1>4, PTL DEF LogSpec
=============================================================================
