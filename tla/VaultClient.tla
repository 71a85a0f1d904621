------------------------------ MODULE VaultClient ------------------------------
(***************************************************************************)
(* A browser with a page of the vault open (hooks/useVault.ts,             *)
(* lib/vault-sdk.ts), the earn page or the portfolio's position window, in *)
(* front of the vault program.  What is shown was read from the chain, a   *)
(* piece at a time, some while ago, or comes from localStorage; wallets    *)
(* and pages are exchanged; refreshes overlap, those of a page that was    *)
(* left too; and a transaction lands some time after it was built.         *)
(***************************************************************************)
EXTENDS Vault, Null

CONSTANTS
    Signing,       \* the wallets with signTransaction; the others are only looked at
    Fetches,       \* numbers of the refreshes that can be under way together
    ScanDepth,     \* how many epochs back requests are looked for: 50
    MaxFaults,     \* bound: RPC calls that fail
    MaxSwitches    \* bound: exchanges of the wallet or the page

ASSUME ClientOK == None \notin Users /\ ScanDepth \in Nat /\ MaxFaults \in Nat
                   /\ Fetches \subseteq Nat /\ Signing \subseteq Users

VARIABLES
    page,          \* the page that is open, "earn" or "window"
    connected,     \* the wallet, None when disconnected
    shown,         \* the vault's epoch, userShareBalance, pendingWithdrawal
    captured,      \* what fetchData closes over: the shares and withdrawal shown
    lastVaultHash, \* the epoch of the vault data fetched last
    cache,         \* localStorage: an entry for each wallet and for none
    fetch,         \* the refreshes under way
    tx,            \* the transaction being built, signed and sent
    faults, switches

clientVars == <<page, connected, shown, captured, lastVaultHash, cache, fetch, tx,
                faults, switches>>

Keys == Users \cup {None}

Blank == [data |-> None, shares |-> 0, pending |-> None]
Closure(state) == [shares |-> state.shares, pending |-> state.pending]

CInit ==
    /\ Init
    /\ page = "earn" /\ connected = None
    /\ shown = Blank
    /\ captured = Closure(Blank) /\ lastVaultHash = None
    /\ cache = [w \in Keys |-> None]
    /\ fetch = [f \in Fetches |-> None]
    /\ tx = None /\ faults = 0 /\ switches = 0

Fault == faults < MaxFaults /\ faults' = faults + 1

RequestEpochsToNow(w) ==                \* mutant: the current epoch is included
    {e \in 0..epoch : e >= epoch - ScanDepth /\ <<w, e>> \in DOMAIN withdrawal_requests}

(* getUserWithdrawalRequest goes back from the epoch before the current    *)
(* one, and takes an epoch whose read fails for one without a request.     *)
RequestEpochs(w) ==
    {e \in 0..(epoch - 1) : e >= epoch - ScanDepth /\ <<w, e>> \in DOMAIN withdrawal_requests}

(* The newest request of those read, whether it was processed or not; user *)
(* is a history, whose it is.                                              *)
Newest(w, found) ==
    IF found = {} THEN None
    ELSE LET e == CHOOSE x \in found : \A y \in found : y <= x
         IN  [user |-> w, requestEpoch |-> e, request |-> withdrawal_requests[<<w, e>>]]

Scan(w) == Newest(w, RequestEpochs(w))

-----------------------------------------------------------------------------
(* fetchData *)

(* mounted: the page it belongs to is still open.                          *)
Begun(w, closure, mounted) ==
    [wallet |-> w, captured |-> closure, step |-> "vault", data |-> None, shares |-> 0,
     mounted |-> mounted]

Free == {f \in Fetches : fetch[f] = None}
FreeSlot == CHOOSE f \in Free : \A g \in Free : f <= g

(* An entry of the cache is shown as it is; else the chain is read, while  *)
(* a page shows what it did.                                               *)
Load(f, w, state, underway) ==
    /\ f \in Free /\ f = FreeSlot
    /\ IF cache[w] # None
       THEN shown' = cache[w] /\ fetch' = underway
       ELSE shown' = state /\ fetch' = [underway EXCEPT ![f] = Begun(w, Closure(state), TRUE)]

(* The portfolio shows no window without a wallet.                         *)
Mounted(p, w) == p = "earn" \/ w # None

LeftBehind == [f \in Fetches |-> IF fetch[f] = None THEN None
                                 ELSE [fetch[f] EXCEPT !.mounted = FALSE]]

(* A render with another wallet makes a new fetchData, which closes over   *)
(* what is shown at the time, and its effect calls it; the refreshes of    *)
(* the old one run on. A page that is mounted starts from nothing, and     *)
(* those of the page that was left only write to the cache.                *)
Render(p, w) ==
    /\ switches < MaxSwitches /\ switches' = switches + 1
    /\ page' = p /\ connected' = w
    /\ IF p = page /\ Mounted(p, w) /\ Mounted(page, connected)
       THEN /\ captured' = Closure(shown)
            /\ \E f \in Fetches : Load(f, w, shown, fetch)
            /\ UNCHANGED <<lastVaultHash, tx>>
       ELSE /\ captured' = Closure(Blank) /\ lastVaultHash' = None
            /\ IF Mounted(p, w) THEN \E f \in Fetches : Load(f, w, Blank, LeftBehind)
               ELSE shown' = Blank /\ fetch' = LeftBehind
            /\ tx' = IF tx = None THEN None ELSE [tx EXCEPT !.mounted = FALSE]
    /\ UNCHANGED <<vars, cache, faults>>

ChangeWallet(w) == w # connected /\ Render(page, w)

(* The portfolio opens the window of a position, which is a balance of     *)
(* shares.                                                                 *)
OpenWindow ==
    /\ page = "earn" /\ connected # None /\ share_account[connected] > 0
    /\ Render("window", connected)
OpenEarn == page = "window" /\ Render("earn", connected)

(* The interval; refreshInterval is longer than a refresh takes. *)
Refresh(f) ==
    /\ Mounted(page, connected)
    /\ \A g \in Fetches : fetch[g] # None /\ fetch[g].mounted => fetch[g].wallet # connected
    /\ f \in Free /\ f = FreeSlot
    /\ IF cache[connected] # None THEN shown' = cache[connected] /\ UNCHANGED fetch
       ELSE fetch' = [fetch EXCEPT ![f] = Begun(connected, captured, TRUE)] /\ UNCHANGED shown
    /\ UNCHANGED <<vars, page, connected, captured, lastVaultHash, cache, tx, faults, switches>>

(* An entry older than refreshInterval is never used again. *)
CacheExpires(w) ==
    /\ cache[w] # None
    /\ cache' = [cache EXCEPT ![w] = None]
    /\ UNCHANGED <<vars, page, connected, shown, captured, lastVaultHash, fetch, tx, faults,
                   switches>>

Running(f, step) == fetch[f] # None /\ fetch[f].step = step
Done(f) == fetch' = [fetch EXCEPT ![f] = None]
Shows(f, state) == shown' = IF fetch[f].mounted THEN state ELSE shown

SaveUnderAsset(w, entry) ==             \* mutant: a cache key without the wallet
    cache' = [k \in Keys |-> entry]
Save(w, entry) == cache' = [cache EXCEPT ![w] = entry]

(* Vault data is shown if it is not what was fetched last, be it for what  *)
(* changed beside the epoch; without a wallet the rest is reset, where the *)
(* closure has anything to reset. *)
VaultRead(f) ==
    \E now_shown \in {epoch} \cup (IF epoch = lastVaultHash THEN {shown.data} ELSE {}) :
    LET old == fetch[f].captured
    IN  /\ Running(f, "vault")
        /\ lastVaultHash' = IF fetch[f].mounted THEN epoch ELSE lastVaultHash
        /\ IF fetch[f].wallet # None
           THEN /\ Shows(f, [shown EXCEPT !.data = now_shown])
                /\ fetch' = [fetch EXCEPT ![f].step = "shares", ![f].data = epoch]
                /\ UNCHANGED cache
           ELSE /\ Shows(f, [data    |-> now_shown,
                             shares  |-> IF old.shares # 0 THEN 0 ELSE shown.shares,
                             pending |-> IF old.pending # None THEN None ELSE shown.pending])
                /\ Save(None, [data |-> epoch, shares |-> 0, pending |-> None])
                /\ Done(f)
        /\ UNCHANGED <<vars, page, connected, captured, tx, faults, switches>>

VaultUnreadable(f) ==                   \* the retries failed: nothing changes
    /\ Running(f, "vault")
    /\ Done(f) /\ Fault
    /\ UNCHANGED <<vars, page, connected, shown, captured, lastVaultHash, cache, tx, switches>>

(* A balance that cannot be read is 0; one that equals the closure's is    *)
(* not shown. For a wallet that cannot sign no request is looked for: what *)
(* the closure remembers is kept for it, whosever it is.                   *)
SharesRead(f) ==
    LET w == fetch[f].wallet
        old == fetch[f].captured
    IN  /\ Running(f, "shares")
        /\ \E s \in {share_account[w], 0} :
             /\ IF s = share_account[w] THEN UNCHANGED faults ELSE Fault
             /\ Shows(f, IF s # old.shares THEN [shown EXCEPT !.shares = s] ELSE shown)
             /\ IF w \in Signing
                THEN /\ fetch' = [fetch EXCEPT ![f].step = "request", ![f].shares = s]
                     /\ UNCHANGED cache
                ELSE /\ Save(w, [data |-> fetch[f].data, shares |-> s, pending |-> old.pending])
                     /\ Done(f)
    /\ UNCHANGED <<vars, page, connected, captured, lastVaultHash, tx, switches>>

RequestRead(f) ==
    LET w == fetch[f].wallet
    IN  /\ Running(f, "request")
        /\ \E read \in SUBSET RequestEpochs(w) :
             /\ IF read = RequestEpochs(w) THEN UNCHANGED faults ELSE Fault
             /\ Shows(f, [shown EXCEPT !.pending = Newest(w, read)])
             /\ Save(w, [data |-> fetch[f].data, shares |-> fetch[f].shares,
                         pending |-> Newest(w, read)])
        /\ Done(f)
        /\ UNCHANGED <<vars, page, connected, captured, lastVaultHash, tx, switches>>

-----------------------------------------------------------------------------
(* Transactions: one at a time (isProcessing; a bound where a page was     *)
(* left with one under way).                                               *)

Build(kind, arg, e) ==
    /\ connected \in Signing /\ tx = None
    /\ tx' = [kind |-> kind, user |-> connected, arg |-> arg, epoch |-> e,
              captured |-> captured, mounted |-> TRUE,
              own |-> shown.pending # None /\ shown.pending.user = connected]
    /\ UNCHANGED <<vars, page, connected, shown, captured, lastVaultHash, cache, fetch, faults,
                   switches>>

DepositBuilt(a) == Build("deposit", a, 0)
Deposits(a) == a > 0 /\ DepositBuilt(a)

OpenPending == shown.pending # None /\ ~shown.pending.request.processed

(* The earn page asks for shares, and has no open request; the position    *)
(* window has no request at all.                                           *)
EarnOffersRequest == ~OpenPending /\ shown.shares > 0
WindowOffersRequest == shown.pending = None
RequestShown == IF page = "earn" THEN EarnOffersRequest ELSE WindowOffersRequest

(* The request's address is derived from the epoch read when it is built.  *)
RequestBuilt(s) == Build("request", s, epoch)
Requests(s) == s > 0 /\ RequestShown /\ RequestBuilt(s)

(* The earn page asks that the epoch shown is past that of the request;    *)
(* the position window shows its button for any request.                   *)
EarnOffersClaim == OpenPending /\ shown.data # None /\ shown.data > shown.pending.requestEpoch
WindowOffersClaimWithShares == shown.pending # None /\ shown.shares > 0        \* mutant
WindowOffersClaim == shown.pending # None
ClaimShown == IF page = "earn" THEN EarnOffersClaim ELSE WindowOffersClaim

ClaimBuilt == Build("process", 0, shown.pending.requestEpoch)
Claims == ClaimShown /\ ClaimBuilt

(* What the program requires of the transaction beyond what always holds.  *)
Acceptable ==
    CASE tx.kind = "deposit" -> tx.arg <= wallet[tx.user] /\ SharesToMint(tx.arg) > 0
      [] tx.kind = "request" -> /\ tx.epoch = epoch /\ tx.arg <= share_account[tx.user]
                                /\ RequestFree(tx.user)
      [] OTHER               -> Claimable(tx.user, tx.epoch)

(* Confirmed: fetchData(true) follows, the one the page closed over.       *)
RefreshFollows(f) == fetch' = [fetch EXCEPT ![f] = Begun(tx.user, tx.captured, tx.mounted)]

TxLands(f) ==
    /\ tx # None /\ Acceptable
    /\ \/ tx.kind = "deposit" /\ Deposit(tx.user, tx.arg)
       \/ tx.kind = "request" /\ RequestWithdrawal(tx.user, tx.arg)
       \/ tx.kind = "process" /\ ProcessWithdrawal(tx.user, tx.epoch, 0)
    /\ f \in Free /\ f = FreeSlot /\ RefreshFollows(f)
    /\ tx' = None
    /\ UNCHANGED <<page, connected, shown, captured, lastVaultHash, cache, faults, switches>>

(* It throws; or the program refused it after it was sent, which           *)
(* confirmTransaction does not say.                                        *)
TxFails(f) ==
    /\ tx # None
    /\ IF Acceptable THEN Fault ELSE UNCHANGED faults
    /\ \/ UNCHANGED fetch
       \/ /\ ~Acceptable
          /\ f \in Free /\ f = FreeSlot /\ RefreshFollows(f)
    /\ tx' = None
    /\ UNCHANGED <<vars, page, connected, shown, captured, lastVaultHash, cache, switches>>

EpochAdvances == AdvanceEpoch(0) /\ UNCHANGED clientVars

-----------------------------------------------------------------------------
Reads(f) == VaultRead(f) \/ SharesRead(f) \/ RequestRead(f)

CNext ==
    \/ \E w \in Keys : ChangeWallet(w) \/ CacheExpires(w)
    \/ \E f \in Fetches : Refresh(f) \/ Reads(f) \/ VaultUnreadable(f) \/ TxLands(f)
                             \/ TxFails(f)
    \/ \E a \in Amounts : Deposits(a) \/ Requests(a)
    \/ OpenWindow \/ OpenEarn \/ Claims
    \/ EpochAdvances

cvars == <<vars, clientVars>>

(* The interval goes on, entries of the cache grow old, calls return,      *)
(* transactions land or fail, and whoever sees a button to claim a         *)
(* withdrawal presses it some time. Nothing makes the epoch advance.       *)
CFairness ==
    /\ WF_cvars(\E f \in Fetches : Refresh(f))
    /\ WF_cvars(\E w \in Keys : CacheExpires(w))
    /\ WF_cvars(\E f \in Fetches : Reads(f))
    /\ SF_cvars(\E f \in Fetches : TxLands(f) \/ TxFails(f))
    /\ SF_cvars(Claims)

CSpec == CInit /\ [][CNext]_cvars /\ CFairness

-----------------------------------------------------------------------------
(* What the cache keeps for a wallet that can sign is a request of that    *)
(* wallet, with the shares it has on chain, and processed only if it is    *)
(* processed there, however refreshes overlap and wallets and pages are    *)
(* exchanged in between. It does not hold of a wallet that cannot sign,    *)
(* for which useVault.ts:185-191 keeps what another wallet was shown.      *)
CacheKeepsOwn ==
    \A w \in Signing \cup {None} :
        cache[w] # None /\ cache[w].pending # None =>
            LET p == cache[w].pending
                r == <<w, p.requestEpoch>>
            IN  /\ p.user = w /\ r \in DOMAIN withdrawal_requests
                /\ p.request.shares = withdrawal_requests[r].shares
                /\ p.request.processed => withdrawal_requests[r].processed

(* A claim built from a request of the connected wallet's own is one the   *)
(* program accepts, or has accepted before: never for an epoch that has    *)
(* not ended, on either page and however old what they show.               *)
ClaimsHaveRequests ==
    tx # None /\ tx.kind = "process" /\ tx.own =>
        /\ <<tx.user, tx.epoch>> \in DOMAIN withdrawal_requests
        /\ epoch > tx.epoch

(* Whoever leaves the position window open is paid in the end: the request *)
(* of an ended epoch is found, shown, claimed and paid, also with          *)
(* refreshes that are cached, fail or are not shown; unless a later        *)
(* request hides it. The earn page promises less: it may show an old epoch *)
(* from the cache, and then no button, until the vault's data change.      *)
WindowPays ==
    \A u \in Signing, e \in 0..(MaxEpoch - 1) :
        Outstanding(u, e) /\ epoch > e ~>
            \/ ~Outstanding(u, e)
            \/ connected # u \/ page # "window"
            \/ \E later \in (e + 1)..MaxEpoch : <<u, later>> \in DOMAIN withdrawal_requests
=============================================================================
