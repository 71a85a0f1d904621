---------------------------- MODULE WalletActivity ----------------------------
(***************************************************************************)
(* The wallet's history (app/hooks/useWalletActivity.ts): fetches that ask *)
(* the chain only for what came after the last transaction in the browser's*)
(* cache, may overlap, and each write the whole list back.                 *)
(***************************************************************************)
EXTENDS Clock, Sequences

CONSTANTS
    Wallets,
    Fetches,                 \* bound: fetches under way at a time
    FirstLimit, NextLimit,   \* 50 without a cache, 20 with one
    MaxTxs                   \* bound: transactions of a wallet

ASSUME ActivityOK == FirstLimit \in Nat \ {0} /\ NextLimit \in Nat \ {0} /\ MaxTxs \in Nat

VARIABLES
    chain,        \* each wallet's transactions: [vault, blockTime], oldest first
    cache,        \* localStorage: None or [lastSignature, activities]
    publicKey,    \* the wallet connected: None or one of Wallets
    activities,   \* what is shown, of which wallet
    hadShown,     \* whether the callback was made when something was shown
    fetch,        \* None or a fetchActivity: [wallet, cached, upto]
    skipped       \* history: what stored fetches covered and did not get

activityVars == <<now, chain, cache, publicKey, activities, hadShown, fetch, skipped>>

Nothing == [wallet |-> None, txs |-> {}]

ActivityInit ==
    /\ chain = [w \in Wallets |-> <<>>]
    /\ cache = [w \in Wallets |-> None]
    /\ publicKey = None
    /\ activities = Nothing /\ hadShown = FALSE
    /\ fetch = [f \in Fetches |-> None]
    /\ skipped = [w \in Wallets |-> {}]

-----------------------------------------------------------------------------
(* External: a transaction of the wallet; a block may have no time. *)
Transact(w, vault, timed) ==
    /\ Len(chain[w]) < MaxTxs
    /\ chain' = [chain EXCEPT ![w] =
           Append(@, [vault |-> vault, blockTime |-> IF timed THEN now + 1 ELSE 0])]
    /\ UNCHANGED <<now, cache, publicKey, activities, hadShown, fetch, skipped>>

Shown(w, txs) == activities' = [wallet |-> w, txs |-> txs]

(* A new wallet makes a new callback, and the effect runs it. *)
SetWallet(w) ==
    /\ w # publicKey
    /\ publicKey' = w
    /\ hadShown' = (activities.txs # {})
    /\ IF w = None THEN activities' = Nothing ELSE UNCHANGED activities
    /\ UNCHANGED <<now, chain, cache, fetch, skipped>>

(* fetchActivity, up to the request for signatures *)
Begin(f) ==
    /\ publicKey # None /\ fetch[f] = None
    /\ fetch' = [fetch EXCEPT ![f] =
           [wallet |-> publicKey, cached |-> cache[publicKey], upto |-> None]]
    /\ IF cache[publicKey] # None /\ ~hadShown
       THEN Shown(publicKey, cache[publicKey].activities)
       ELSE UNCHANGED activities
    /\ UNCHANGED <<now, chain, cache, publicKey, hadShown, skipped>>

Known(f) == IF fetch[f].cached = None THEN {} ELSE fetch[f].cached.activities

Until(f) == IF fetch[f].cached = None THEN 0 ELSE fetch[f].cached.lastSignature

(* getSignaturesForAddress: when there is nothing new, that was it. *)
Signatures(f) ==
    LET w == fetch[f].wallet
    IN  /\ fetch[f] # None /\ fetch[f].upto = None
        /\ IF Len(chain[w]) = Until(f) /\ fetch[f].cached # None
           THEN Shown(w, Known(f)) /\ fetch' = [fetch EXCEPT ![f] = None]
           ELSE fetch' = [fetch EXCEPT ![f].upto = Len(chain[w])] /\ UNCHANGED activities
        /\ UNCHANGED <<now, chain, cache, publicKey, hadShown, skipped>>

(* The newest signatures after lastSignature, as many as the limit allows. *)
Covered(f) == (Until(f) + 1)..fetch[f].upto

Fetched(f) ==
    LET limit == IF fetch[f].cached = None THEN FirstLimit ELSE NextLimit
    IN  {t \in Covered(f) : fetch[f].upto - t < limit}

NewestRead(w, txs) == Len(chain[w])     \* mutant: the newest signature there is by now

(* Sorted by time, the newer signature first at the same time. *)
Newest(w, txs) ==
    CHOOSE t \in txs : \A u \in txs :
        \/ chain[w][u].blockTime < chain[w][t].blockTime
        \/ chain[w][u].blockTime = chain[w][t].blockTime /\ u <= t

(* The list is stored when the last batch is read.  What could not be      *)
(* read, or is of a vault that the list of vaults, cached for five         *)
(* minutes, does not have, is left out.                                    *)
Store(f, missed) ==
    LET w   == fetch[f].wallet
        new == {t \in Fetched(f) \ missed : chain[w][t].vault}
        all == new \cup Known(f)
    IN  /\ fetch[f] # None /\ fetch[f].upto # None
        /\ missed \subseteq Fetched(f)
        /\ Shown(w, all)
        /\ IF all # {}
           THEN /\ cache' = [cache EXCEPT ![w] =
                       [lastSignature |-> Newest(w, all), activities |-> all]]
                /\ skipped' = [skipped EXCEPT ![w] = @ \cup missed \cup (Covered(f) \ Fetched(f))]
           ELSE UNCHANGED <<cache, skipped>>
        /\ fetch' = [fetch EXCEPT ![f] = None]
        /\ UNCHANGED <<now, chain, publicKey, hadShown>>

FetchFails(f) ==
    /\ fetch[f] # None
    /\ fetch' = [fetch EXCEPT ![f] = None]
    /\ UNCHANGED <<now, chain, cache, publicKey, activities, hadShown, skipped>>

ActivityTick ==
    /\ Tick
    /\ UNCHANGED <<chain, cache, publicKey, activities, hadShown, fetch, skipped>>

ActivityNext ==
    \/ \E w \in Wallets \cup {None} : SetWallet(w)
    \/ \E w \in Wallets, vault, timed \in BOOLEAN : Transact(w, vault, timed)
    \/ \E f \in Fetches :
         \/ Begin(f) \/ Signatures(f) \/ FetchFails(f)
         \/ \E missed \in SUBSET (1..MaxTxs) : Store(f, missed)
    \/ ActivityTick

-----------------------------------------------------------------------------
(* The next fetch begins after lastSignature, so whatever vault            *)
(* transaction is not after it is in the cache or was left out by a fetch  *)
(* that got to it: also when fetches overlap and an earlier one stores     *)
(* last, and when blocks have the same time or none.                       *)
NothingPassedOver ==
    \A w \in Wallets : cache[w] # None =>
        \A t \in 1..cache[w].lastSignature :
            chain[w][t].vault => t \in cache[w].activities \cup skipped[w]
=============================================================================
