------------------------------- MODULE ApiRoutes -------------------------------
(***************************************************************************)
(* The web app's routes that keep something: access codes and the cookie   *)
(* they give (auth/), the faucet and its cooldown, and the subscribers.    *)
(* A request awaits the database or the chain, and others run meanwhile.   *)
(***************************************************************************)
EXTENDS Clock

CONSTANTS
    Requests,          \* bound: requests ever made
    Users,             \* a browser with its wallet and its email
    MaxUses,           \* max_uses of the access code
    Cooldown           \* COOLDOWN_MS

ASSUME RoutesOK == MaxUses \in Nat /\ Cooldown \in Nat /\ None \notin Nat

VARIABLES
    code,          \* the access_codes row: [is_active, used_count]
    cookie,        \* the users with a bypass_token
    subscribers,
    mintRequests,  \* None or the time of the wallet's last mint
    request,       \* None or [kind, user, read, begun]: what it read before its await
    grants,        \* history: answers "Access granted"
    minted         \* history: mints that succeeded: [user, begun, done]; done is
                   \* None when the answer was lost or the memory has gone

routeVars == <<now, code, cookie, subscribers, mintRequests, request, grants, minted>>

RoutesInit ==
    /\ code = [is_active |-> TRUE, used_count |-> 0]
    /\ cookie = {}
    /\ subscribers = {}
    /\ mintRequests = [u \in Users |-> None]
    /\ request = [r \in Requests |-> None]
    /\ grants = 0 /\ minted = {}

Over == [kind |-> "done", user |-> None, read |-> None, begun |-> 0]

Done(r) == request' = [request EXCEPT ![r] = Over]

Under(r, kind) == request[r] # None /\ request[r].kind = kind

(* A request goes on to its await, or is refused. *)
New(r, goes, kind, u, read) ==
    /\ request[r] = None
    /\ request' = [request EXCEPT ![r] =
           IF goes THEN [kind |-> kind, user |-> u, read |-> read, begun |-> now] ELSE Over]

-----------------------------------------------------------------------------
(* POST /api/auth/verify: the row is read; an inactive or used-up code is  *)
(* refused.                                                                *)
VerifyReads(r, u) ==
    /\ New(r, code.is_active /\ code.used_count < MaxUses, "verify", u, code.used_count)
    /\ UNCHANGED <<now, code, cookie, subscribers, mintRequests, grants, minted>>

(* The count it read, plus one, is written; whether that succeeds or not,  *)
(* access is granted and the cookie set.                                   *)
VerifyGrants(r, updated) ==
    /\ Under(r, "verify")
    /\ code' = IF updated THEN [code EXCEPT !.used_count = request[r].read + 1] ELSE code
    /\ grants' = grants + 1
    /\ cookie' = cookie \cup {request[r].user}
    /\ Done(r)
    /\ UNCHANGED <<now, subscribers, mintRequests, minted>>

(* An operator deactivates the code. *)
Deactivate ==
    /\ code' = [code EXCEPT !.is_active = FALSE]
    /\ UNCHANGED <<now, cookie, subscribers, mintRequests, request, grants, minted>>

Logout(u) ==
    /\ cookie' = cookie \ {u}
    /\ UNCHANGED <<now, code, subscribers, mintRequests, request, grants, minted>>

-----------------------------------------------------------------------------
(* POST /api/faucet, up to its first await *)
FaucetChecks(r, u) ==
    /\ New(r, mintRequests[u] = None \/ now - mintRequests[u] >= Cooldown, "faucet", u, None)
    /\ UNCHANGED <<now, code, cookie, subscribers, mintRequests, grants, minted>>

FaucetRecordsBegin(r) ==            \* mutant: the time the request came is recorded
    /\ Under(r, "faucet")
    /\ minted' = minted \cup {[user |-> request[r].user, begun |-> request[r].begun, done |-> now]}
    /\ mintRequests' = [mintRequests EXCEPT ![request[r].user] = request[r].begun]
    /\ Done(r)
    /\ UNCHANGED <<now, code, cookie, subscribers, grants>>

(* The mint is confirmed, and only then recorded. *)
FaucetMints(r) ==
    /\ Under(r, "faucet")
    /\ minted' = minted \cup {[user |-> request[r].user, begun |-> request[r].begun, done |-> now]}
    /\ mintRequests' = [mintRequests EXCEPT ![request[r].user] = now]
    /\ Done(r)
    /\ UNCHANGED <<now, code, cookie, subscribers, grants>>

(* Something throws: before the mint, or after it landed unconfirmed. *)
FaucetThrows(r, landed) ==
    /\ Under(r, "faucet")
    /\ minted' = IF landed
                 THEN minted \cup {[user |-> request[r].user, begun |-> request[r].begun,
                                    done |-> None]}
                 ELSE minted
    /\ Done(r)
    /\ UNCHANGED <<now, code, cookie, subscribers, mintRequests, grants>>

(* A new instance of the server has no mints in its memory. *)
Restart ==
    /\ mintRequests' = [u \in Users |-> None]
    /\ minted' = {[m EXCEPT !.done = None] : m \in minted}
    /\ request' = [r \in Requests |->
           IF request[r] = None THEN None ELSE Over]
    /\ UNCHANGED <<now, code, cookie, subscribers, grants>>

-----------------------------------------------------------------------------
(* POST /api/subscribe: a second insert of an email is refused. *)
Subscribe(u, fails) ==
    /\ subscribers' = IF fails THEN subscribers ELSE subscribers \cup {u}
    /\ UNCHANGED <<now, code, cookie, mintRequests, request, grants, minted>>

RoutesTick == Tick /\ UNCHANGED <<code, cookie, subscribers, mintRequests, request, grants, minted>>

RoutesNext ==
    \/ \E r \in Requests :
         \/ \E u \in Users : VerifyReads(r, u) \/ FaucetChecks(r, u)
         \/ FaucetMints(r)
         \/ \E b \in BOOLEAN : VerifyGrants(r, b) \/ FaucetThrows(r, b)
    \/ \E u \in Users : Logout(u) \/ \E fails \in BOOLEAN : Subscribe(u, fails)
    \/ Deactivate \/ Restart
    \/ RoutesTick

-----------------------------------------------------------------------------
(* A mint that was confirmed keeps what comes after it away for the        *)
(* cooldown: only requests that were already under way mint within it, or  *)
(* those after a restart or a mint whose confirmation was lost.            *)
CooldownKept ==
    \A m, n \in minted :
        m.user = n.user /\ m.done # None /\ n.begun > m.done => n.begun >= m.done + Cooldown
=============================================================================
