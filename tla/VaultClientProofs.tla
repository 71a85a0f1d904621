--------------------------- MODULE VaultClientProofs ---------------------------
(***************************************************************************)
(* Theorems about the pages of a vault: for any wallets, any refreshes     *)
(* under way at a time, any failures and any exchanges of wallets, what    *)
(* the pages keep and build comes from the chain, and what they send       *)
(* leaves the vault as its program promises.                               *)
(***************************************************************************)
EXTENDS VaultClient, VaultProofs

(* A request as it was read from the chain, some while ago: it is still    *)
(* there, of an epoch that has ended, and can only have been paid since.   *)
Standing(p) ==
    /\ <<p.user, p.requestEpoch>> \in DOMAIN withdrawal_requests
    /\ p.requestEpoch \in Nat /\ p.requestEpoch < epoch
    /\ p.request.shares = withdrawal_requests[<<p.user, p.requestEpoch>>].shares
    /\ p.request.processed => withdrawal_requests[<<p.user, p.requestEpoch>>].processed

Remembered(p) == p # None => Standing(p)

Entry(e) == e = [data |-> e.data, shares |-> e.shares, pending |-> e.pending]

(* Only of a wallet that can sign, or of none, is what is kept its own.    *)
Own(w, p) == p # None /\ w \in Signing \cup {None} => p.user = w

CachesStand ==
    /\ cache = [w \in Keys |-> cache[w]]
    /\ \A w \in Keys : cache[w] # None =>
         Entry(cache[w]) /\ Remembered(cache[w].pending) /\ Own(w, cache[w].pending)

ShownStands == Entry(shown) /\ Remembered(shown.pending)
CapturedStands == Remembered(captured.pending)

(* A refresh, whose closure may end in the cache; one without a wallet     *)
(* ends with the vault's data.                                             *)
FetchOK(r) ==
    /\ r = [wallet |-> r.wallet, captured |-> r.captured, step |-> r.step, data |-> r.data,
            shares |-> r.shares, mounted |-> r.mounted]
    /\ r.step # "vault" => r.wallet # None
    /\ Remembered(r.captured.pending)

FetchesStand ==
    /\ fetch = [f \in Fetches |-> fetch[f]]
    /\ \A f \in Fetches : fetch[f] # None => FetchOK(fetch[f])

TransactionOK ==
    tx # None =>
        /\ tx = [kind |-> tx.kind, user |-> tx.user, arg |-> tx.arg, epoch |-> tx.epoch,
                 captured |-> tx.captured, mounted |-> tx.mounted, own |-> tx.own]
        /\ Remembered(tx.captured.pending)
        /\ tx.user \in Users
        /\ tx.kind \in {"deposit", "request", "process"}
        /\ tx.kind \in {"deposit", "request"} => tx.arg \in Amounts
        /\ tx.kind = "process" => tx.epoch \in Nat

ClientInv ==
    /\ IInv /\ connected \in Keys
    /\ CachesStand /\ ShownStands /\ CapturedStands /\ FetchesStand
    /\ TransactionOK /\ ClaimsHaveRequests

-----------------------------------------------------------------------------
(* What the program may do to requests while a page looks away.            *)
Onward ==
    /\ epoch' \in Nat /\ epoch <= epoch'
    /\ \A r \in DOMAIN withdrawal_requests :
         /\ r \in DOMAIN withdrawal_requests'
         /\ withdrawal_requests'[r].shares = withdrawal_requests[r].shares
         /\ withdrawal_requests[r].processed => withdrawal_requests'[r].processed

LEMMA InitClientInv == CInit => ClientInv
  BY InitIInv, ConstantsOK, ClientOK
     DEF CInit, Init, ClientInv, CachesStand, ShownStands, CapturedStands, FetchesStand,
         TransactionOK, ClaimsHaveRequests, Entry, Keys, Remembered, Blank, Closure

LEMMA StandsOn ==
  ASSUME epoch \in Nat, Onward, NEW p, Standing(p)
  PROVE  Standing(p)'
  BY DEF Onward, Standing

LEMMA DepositOnward ==
  ASSUME IInv, NEW u \in Users, NEW a \in Amounts, Deposit(u, a)
  PROVE  IInv' /\ Onward
<1>1. IInv'
  BY DepositStep
<1>2. UNCHANGED withdrawal_requests /\ epoch' \in {1, epoch} /\ (epoch = 0 \/ epoch' = epoch)
  BY DEF Deposit
<1> QED
  BY <1>1, <1>2, ConstantsOK DEF IInv, TypeOK, VaultTypeOK, Onward

LEMMA RequestOnward ==
  ASSUME IInv, NEW u \in Users, NEW s \in Amounts, RequestWithdrawal(u, s)
  PROVE  IInv' /\ Onward
<1>1. IInv' /\ epoch' = epoch
  BY RequestStep DEF RequestWithdrawal, epochVars
<1>2. withdrawal_requests' = [r \in DOMAIN withdrawal_requests \cup {<<u, epoch>>} |->
          IF r = <<u, epoch>> THEN [shares |-> s, processed |-> FALSE]
                              ELSE withdrawal_requests[r]]
  BY DEF RequestWithdrawal, SetAccount
<1>3. <<u, epoch>> \notin DOMAIN withdrawal_requests
  BY DEF RequestWithdrawal, RequestFree
<1> QED
  BY <1>1, <1>2, <1>3 DEF IInv, TypeOK, VaultTypeOK, Onward

LEMMA ProcessOnward ==
  ASSUME IInv, NEW u \in Users, NEW e \in Nat, ProcessWithdrawal(u, e, 0)
  PROVE  IInv' /\ Onward
<1>1. IInv' /\ epoch' = epoch
  BY ProcessStep DEF ProcessWithdrawal, epochVars
<1>2. withdrawal_requests' = [withdrawal_requests EXCEPT ![<<u, e>>].processed = TRUE]
  BY DEF ProcessWithdrawal
<1>3. withdrawal_requests \in
          [DOMAIN withdrawal_requests -> [shares : U64 \ {0}, processed : BOOLEAN]]
  BY DEF IInv, TypeOK, RequestsTypeOK
<1>4. ASSUME NEW r \in DOMAIN withdrawal_requests
      PROVE  /\ r \in DOMAIN withdrawal_requests'
             /\ withdrawal_requests'[r].shares = withdrawal_requests[r].shares
             /\ withdrawal_requests[r].processed => withdrawal_requests'[r].processed
  BY <1>2, <1>3
<1> QED
  BY <1>1, <1>4 DEF IInv, TypeOK, VaultTypeOK, Onward

LEMMA AdvanceOnward ==
  ASSUME IInv, AdvanceEpoch(0)
  PROVE  IInv' /\ Onward
<1>1. /\ UNCHANGED shareVars /\ epoch' = epoch + 1 /\ epoch < MaxEpoch
      /\ outside_usdc' = outside_usdc /\ vault_premium_account' = vault_premium_account
      /\ premium_balance_usdc' = premium_balance_usdc + 0
  BY DEF AdvanceEpoch
<1>2. VaultTypeOK' /\ outside_usdc' \in Nat /\ vault_premium_account' \in Nat
  BY <1>1, ConstantsOK DEF IInv, TypeOK, VaultTypeOK, TokensTypeOK, AdvanceEpoch, shareVars,
     paramVars, queueVars, U64
<1>3. IInv'
  BY <1>1, <1>2, FrameStep
<1> QED
  BY <1>1, <1>3, ConstantsOK DEF IInv, TypeOK, VaultTypeOK, Onward, shareVars

-----------------------------------------------------------------------------
(* getUserWithdrawalRequest finds a request of the wallet's own, whichever *)
(* epochs it could read.                                                   *)
LEMMA NewestStands ==
  ASSUME epoch \in Nat, NEW w, NEW found \in SUBSET RequestEpochs(w)
  PROVE  Remembered(Newest(w, found)) /\ (Newest(w, found) # None => Newest(w, found).user = w)
<1> SUFFICES ASSUME found # {}
             PROVE  Standing(Newest(w, found)) /\ Newest(w, found).user = w
  BY DEF Newest, Remembered
<1> DEFINE newest == CHOOSE x \in found : \A y \in found : y <= x
<1>1. Newest(w, found) = [user |-> w, requestEpoch |-> newest,
                          request |-> withdrawal_requests[<<w, newest>>]]
  BY DEF Newest
<1>2. ASSUME NEW e \in found PROVE e \in 0..epoch /\ <<w, e>> \in DOMAIN withdrawal_requests
                                    /\ e \in Nat /\ e < epoch
  <2>1. e \in RequestEpochs(w)
    OBVIOUS
  <2> QED
    BY <2>1 DEF RequestEpochs
<1>3. newest \in found
  <2>1. found \in SUBSET (0..epoch)
    BY <1>2
  <2>2. \E x \in found : \A y \in found : y <= x
    BY <2>1, SomeGreatest
  <2> QED
    BY <2>2
<1>4. <<w, newest>> \in DOMAIN withdrawal_requests /\ newest \in Nat /\ newest < epoch
  BY <1>2, <1>3
<1> HIDE DEF newest
<1> QED
  BY <1>1, <1>4 DEF Standing

-----------------------------------------------------------------------------
(* What is kept while nothing of it is written. *)

LEMMA RememberedOn ==
  ASSUME ClientInv, Onward
  PROVE  /\ \A p : Remembered(p) => Remembered(p)'
         /\ \A r : FetchOK(r) => FetchOK(r)'
<1>1. epoch \in Nat /\ \A p : Standing(p) => Standing(p)'
  BY StandsOn DEF ClientInv, IInv, TypeOK, VaultTypeOK
<1>2. \A p : Remembered(p) => Remembered(p)'
  BY <1>1 DEF Remembered
<1> QED
  BY <1>2 DEF FetchOK

LEMMA KeptStands ==
  ASSUME ClientInv, Onward
  PROVE  /\ UNCHANGED cache => CachesStand'
         /\ UNCHANGED shown => ShownStands'
         /\ UNCHANGED captured => CapturedStands'
         /\ UNCHANGED fetch => FetchesStand'
         /\ UNCHANGED tx => TransactionOK' /\ ClaimsHaveRequests'
         /\ UNCHANGED connected => (connected \in Keys)'
<1>1. UNCHANGED cache => CachesStand'
  BY RememberedOn DEF ClientInv, CachesStand, Entry, Own
<1>2. UNCHANGED shown => ShownStands'
  BY RememberedOn DEF ClientInv, ShownStands, Entry
<1>3. UNCHANGED captured => CapturedStands'
  BY RememberedOn DEF ClientInv, CapturedStands
<1>4. UNCHANGED fetch => FetchesStand'
  BY RememberedOn DEF ClientInv, FetchesStand
<1>5. UNCHANGED tx => ClaimsHaveRequests'
  BY DEF ClientInv, IInv, TypeOK, VaultTypeOK, TransactionOK, ClaimsHaveRequests, Onward
<1>6. UNCHANGED tx => TransactionOK'
  BY RememberedOn DEF ClientInv, TransactionOK
<1> QED
  BY <1>1, <1>2, <1>3, <1>4, <1>5, <1>6 DEF ClientInv, Keys

(* A refresh that begins, goes on or ends. *)
LEMMA FetchWritten ==
  ASSUME ClientInv, Onward, NEW f \in Fetches, NEW r, r = None \/ FetchOK(r),
         fetch' = [fetch EXCEPT ![f] = r]
  PROVE  FetchesStand'
<1>1. ASSUME NEW g \in Fetches, fetch'[g] # None PROVE FetchOK(fetch[g])'
  <2>1. FetchOK(fetch'[g])
    BY <1>1 DEF ClientInv, FetchesStand
  <2>2. \A q : FetchOK(q) => FetchOK(q)'
    BY RememberedOn
  <2> QED
    BY <2>1, <2>2
<1> QED
  BY <1>1 DEF ClientInv, FetchesStand

LEMMA RecordOK ==
  ASSUME NEW w, NEW c, NEW step, NEW d, NEW s, NEW m, step # "vault" => w # None,
         Remembered(c.pending)
  PROVE  FetchOK([wallet |-> w, captured |-> c, step |-> step, data |-> d, shares |-> s,
                  mounted |-> m])
  BY DEF FetchOK

LEMMA FetchGoesOn ==
  ASSUME NEW r, FetchOK(r), NEW x, NEW y
  PROVE  /\ FetchOK([r EXCEPT !.mounted = x])
         /\ r.wallet # None => /\ FetchOK([r EXCEPT !.step = x, !.data = y])
                               /\ FetchOK([r EXCEPT !.step = x, !.shares = y])
<1>1. r = [wallet |-> r.wallet, captured |-> r.captured, step |-> r.step, data |-> r.data,
           shares |-> r.shares, mounted |-> r.mounted]
  BY DEF FetchOK
<1>2. [r EXCEPT !.mounted = x] =
        [wallet |-> r.wallet, captured |-> r.captured, step |-> r.step, data |-> r.data,
         shares |-> r.shares, mounted |-> x]
  BY <1>1
<1>3. [r EXCEPT !.step = x] =
        [wallet |-> r.wallet, captured |-> r.captured, step |-> x, data |-> r.data,
         shares |-> r.shares, mounted |-> r.mounted]
  BY <1>1
<1>4. ASSUME NEW z, z = [wallet |-> r.wallet, captured |-> r.captured, step |-> x,
                          data |-> r.data, shares |-> r.shares, mounted |-> r.mounted]
      PROVE  /\ [z EXCEPT !.data = y] =
                   [wallet |-> r.wallet, captured |-> r.captured, step |-> x, data |-> y,
                    shares |-> r.shares, mounted |-> r.mounted]
             /\ [z EXCEPT !.shares = y] =
                   [wallet |-> r.wallet, captured |-> r.captured, step |-> x,
                    data |-> r.data, shares |-> y, mounted |-> r.mounted]
  BY <1>4
<1> DEFINE q == [r EXCEPT !.step = x]
<1>5. /\ [q EXCEPT !.data = y] =
           [wallet |-> r.wallet, captured |-> r.captured, step |-> x, data |-> y,
            shares |-> r.shares, mounted |-> r.mounted]
      /\ [q EXCEPT !.shares = y] =
           [wallet |-> r.wallet, captured |-> r.captured, step |-> x, data |-> r.data,
            shares |-> y, mounted |-> r.mounted]
  BY <1>3, <1>4
<1>6. /\ [r EXCEPT !.step = x, !.data = y] = [q EXCEPT !.data = y]
      /\ [r EXCEPT !.step = x, !.shares = y] = [q EXCEPT !.shares = y]
  OBVIOUS
<1> HIDE DEF q
<1> QED
  BY <1>2, <1>5, <1>6, RecordOK DEF FetchOK

LEMMA BegunOK ==
  ASSUME NEW w, NEW c, NEW mounted, Remembered(c.pending)
  PROVE  FetchOK(Begun(w, c, mounted))
  BY DEF Begun, FetchOK

LEMMA ChainKept ==
  ASSUME ClientInv, UNCHANGED vars
  PROVE  /\ IInv' /\ Onward /\ epoch' = epoch /\ epoch \in Nat
         /\ \A p : Remembered(p)' <=> Remembered(p)
<1>1. IInv'
  BY NextIInv DEF ClientInv
<1> QED
  BY <1>1 DEF ClientInv, IInv, TypeOK, VaultTypeOK, vars, shareVars, epochVars, Onward, Standing,
     Remembered

-----------------------------------------------------------------------------
(* The pages' own steps. *)

(* Of a page with another wallet or of another page, Load shows the cache  *)
(* or what was shown, and the refresh it begins remembers the latter.      *)
LEMMA LeftStands == ASSUME ClientInv PROVE \A f \in Fetches :
                      LeftBehind[f] = None \/ FetchOK(LeftBehind[f])
<1> SUFFICES ASSUME NEW f \in Fetches, fetch[f] # None
             PROVE  FetchOK([fetch[f] EXCEPT !.mounted = FALSE])
  BY DEF LeftBehind
<1>1. FetchOK(fetch[f])
  BY DEF ClientInv, FetchesStand
<1> QED
  BY <1>1, FetchGoesOn

LEMMA LoadStands ==
  ASSUME ClientInv, UNCHANGED vars, NEW f, NEW w \in Keys, NEW state, NEW underway,
         Entry(state), Remembered(state.pending),
         underway = [g \in Fetches |-> underway[g]],
         \A g \in Fetches : underway[g] = None \/ FetchOK(underway[g]),
         Load(f, w, state, underway)
  PROVE  ShownStands' /\ FetchesStand'
<1>1. \/ cache[w] # None /\ shown' = cache[w] /\ fetch' = underway
      \/ shown' = state /\ fetch' = [underway EXCEPT ![f] = Begun(w, Closure(state), TRUE)]
  BY DEF Load
<1>2. ShownStands'
  BY <1>1, ChainKept DEF ClientInv, CachesStand, ShownStands, Entry
<1>3. FetchOK(Begun(w, Closure(state), TRUE))
  BY BegunOK DEF Closure
<1>4. fetch' = [g \in Fetches |-> fetch'[g]]
      /\ \A g \in Fetches : fetch'[g] = None \/ FetchOK(fetch'[g])
  BY <1>1, <1>3 DEF Load
<1>5. \A r : FetchOK(r) => FetchOK(r)'
  BY ChainKept, RememberedOn
<1>6. ASSUME NEW g \in Fetches, fetch'[g] # None PROVE FetchOK(fetch[g])'
  BY <1>4, <1>5, <1>6
<1>7. FetchesStand'
  BY <1>4, <1>6 DEF FetchesStand
<1> QED
  BY <1>2, <1>7

LEMMA RenderStep ==
  ASSUME ClientInv, NEW p, NEW w \in Keys, Render(p, w)
  PROVE  ClientInv'
<1>1. UNCHANGED <<vars, cache>> /\ connected' = w
  BY DEF Render
<1>2. Entry(Blank) /\ Remembered(Blank.pending) /\ Remembered(Closure(Blank).pending)
  BY DEF Blank, Closure, Entry, Remembered
<1>3. LeftBehind = [f \in Fetches |-> LeftBehind[f]]
  BY DEF LeftBehind
<1>4. CASE p = page /\ Mounted(p, w) /\ Mounted(page, connected)
  <2>1. captured' = Closure(shown) /\ (\E f \in Fetches : Load(f, w, shown, fetch))
        /\ UNCHANGED tx
    BY <1>4 DEF Render
  <2>2. ShownStands' /\ FetchesStand'
    BY <1>1, <2>1, LoadStands DEF ClientInv, ShownStands, FetchesStand
  <2>3. CapturedStands'
    BY <1>1, <2>1, ChainKept DEF ClientInv, ShownStands, CapturedStands, Closure
  <2> QED
    BY <1>1, <2>1, <2>2, <2>3, KeptStands, ChainKept DEF ClientInv
<1>5. CASE ~(p = page /\ Mounted(p, w) /\ Mounted(page, connected))
  <2>1. /\ captured' = Closure(Blank)
        /\ \/ \E f \in Fetches : Load(f, w, Blank, LeftBehind)
           \/ shown' = Blank /\ fetch' = LeftBehind
        /\ tx' = IF tx = None THEN None ELSE [tx EXCEPT !.mounted = FALSE]
    BY <1>5 DEF Render
  <2>2. ShownStands' /\ FetchesStand'
    <3>1. CASE \E f \in Fetches : Load(f, w, Blank, LeftBehind)
      BY <1>1, <1>2, <1>3, <3>1, LoadStands, LeftStands
    <3>2. CASE shown' = Blank /\ fetch' = LeftBehind
      <4>1. ShownStands'
        BY <1>1, <1>2, <3>2, ChainKept DEF ShownStands, Entry
      <4>2. \A r : FetchOK(r) => FetchOK(r)'
        BY <1>1, ChainKept, RememberedOn
      <4>3. ASSUME NEW g \in Fetches, fetch'[g] # None PROVE FetchOK(fetch[g])'
        BY <3>2, <4>2, <4>3, LeftStands
      <4>4. FetchesStand'
        BY <1>3, <3>2, <4>3 DEF FetchesStand
      <4> QED
        BY <4>1, <4>4
    <3> QED
      BY <2>1, <3>1, <3>2
  <2>3. CapturedStands'
    BY <1>1, <1>2, <2>1, ChainKept DEF CapturedStands
  <2>4. TransactionOK' /\ ClaimsHaveRequests'
    <3>1. CASE tx = None
      BY <2>1, <3>1 DEF TransactionOK, ClaimsHaveRequests
    <3>2. CASE tx # None
      <4>1. /\ TransactionOK /\ ClaimsHaveRequests
            /\ tx = [kind |-> tx.kind, user |-> tx.user, arg |-> tx.arg, epoch |-> tx.epoch,
                     captured |-> tx.captured, mounted |-> tx.mounted, own |-> tx.own]
        BY <3>2 DEF ClientInv, TransactionOK
      <4>2. tx' = [kind |-> tx.kind, user |-> tx.user, arg |-> tx.arg, epoch |-> tx.epoch,
                   captured |-> tx.captured, mounted |-> FALSE, own |-> tx.own]
        BY <2>1, <3>2, <4>1
      <4>3. tx'.kind = tx.kind /\ tx'.user = tx.user /\ tx'.arg = tx.arg /\ tx'.epoch = tx.epoch
            /\ tx'.captured = tx.captured /\ tx'.own = tx.own
        BY <4>2
      <4>4. ClaimsHaveRequests'
        BY <1>1, <3>2, <4>1, <4>3, ChainKept DEF ClaimsHaveRequests, vars, shareVars
      <4>5. Remembered(tx.captured.pending)'
        BY <1>1, <3>2, <4>1, <4>3, ChainKept DEF TransactionOK
      <4>6. tx' = [kind |-> tx'.kind, user |-> tx'.user, arg |-> tx'.arg, epoch |-> tx'.epoch,
                   captured |-> tx'.captured, mounted |-> tx'.mounted, own |-> tx'.own]
        BY <4>2
      <4>7. TransactionOK'
        BY <3>2, <4>1, <4>3, <4>5, <4>6 DEF TransactionOK
      <4> QED
        BY <4>4, <4>7
    <3> QED
      BY <3>1, <3>2
  <2> QED
    BY <1>1, <2>2, <2>3, <2>4, KeptStands, ChainKept DEF ClientInv
<1> QED
  BY <1>4, <1>5

LEMMA RefreshStep ==
  ASSUME ClientInv, NEW f \in Fetches, Refresh(f)
  PROVE  ClientInv'
<1>1. UNCHANGED <<vars, connected, captured, cache, tx>> /\ connected \in Keys
  BY DEF Refresh, ClientInv
<1>2. CASE cache[connected] # None /\ shown' = cache[connected] /\ UNCHANGED fetch
  <2>1. ShownStands'
    BY <1>1, <1>2, ChainKept DEF ClientInv, CachesStand, ShownStands, Entry
  <2> QED
    BY <1>1, <1>2, <2>1, KeptStands, ChainKept DEF ClientInv
<1>3. CASE fetch' = [fetch EXCEPT ![f] = Begun(connected, captured, TRUE)] /\ UNCHANGED shown
  <2>1. FetchOK(Begun(connected, captured, TRUE))
    BY BegunOK DEF ClientInv, CapturedStands
  <2>2. FetchesStand'
    BY <1>1, <1>3, <2>1, FetchWritten, ChainKept
  <2> QED
    BY <1>1, <1>3, <2>2, KeptStands, ChainKept DEF ClientInv
<1> QED
  BY <1>2, <1>3 DEF Refresh

LEMMA CacheExpiresStep ==
  ASSUME ClientInv, NEW w \in Keys, CacheExpires(w)
  PROVE  ClientInv'
<1>1. /\ UNCHANGED <<vars, connected, shown, captured, fetch, tx>>
      /\ cache' = [cache EXCEPT ![w] = None]
  BY DEF CacheExpires
<1>2. CachesStand'
  BY <1>1, ChainKept DEF ClientInv, CachesStand, Entry, Own
<1> QED
  BY <1>1, <1>2, KeptStands, ChainKept DEF ClientInv

(* Saving an entry whose request, if it has one, stands, and is the        *)
(* wallet's own if it can sign. *)
LEMMA SaveStands ==
  ASSUME ClientInv, UNCHANGED vars, NEW w, NEW d, NEW s, NEW p,
         Save(w, [data |-> d, shares |-> s, pending |-> p]),
         Remembered(p), Own(w, p)
  PROVE  CachesStand'
<1> DEFINE e == [data |-> d, shares |-> s, pending |-> p]
<1>1. cache' = [cache EXCEPT ![w] = e] /\ Entry(e) /\ e.pending = p
  BY DEF Save, Entry
<1> HIDE DEF e
<1> QED
  BY <1>1, ChainKept DEF ClientInv, CachesStand, Entry, Own

LEMMA VaultReadStep ==
  ASSUME ClientInv, NEW f \in Fetches, VaultRead(f)
  PROVE  ClientInv'
<1>1. UNCHANGED <<vars, connected, captured, tx>> /\ fetch[f] # None
  BY DEF VaultRead, Running
<1>2. FetchOK(fetch[f])
  BY <1>1 DEF ClientInv, FetchesStand
<1>3. CachesStand'
  <2>1. cache' = cache \/ Save(None, [data |-> epoch, shares |-> 0, pending |-> None])
    BY DEF VaultRead
  <2>2. Remembered(None) /\ Own(None, None)
    BY DEF Remembered, Own
  <2> QED
    BY <1>1, <2>1, <2>2, KeptStands, ChainKept, SaveStands
<1>4. ShownStands'
  <2>1. Entry(shown')
    BY DEF VaultRead, Shows, ClientInv, ShownStands, Entry
  <2>2. shown'.pending = None \/ shown'.pending = shown.pending
    BY DEF VaultRead, Shows, ClientInv, ShownStands, Entry
  <2> QED
    BY <1>1, <2>1, <2>2, ChainKept DEF ClientInv, ShownStands, Entry, Remembered
<1>5. FetchesStand'
  <2>1. CASE fetch[f].wallet # None
    <3> DEFINE r == [fetch[f] EXCEPT !.step = "shares", !.data = epoch]
    <3>1. fetch' = [fetch EXCEPT ![f] = r]
      BY <2>1 DEF VaultRead
    <3>2. FetchOK(r)
      BY <1>2, <2>1, FetchGoesOn
    <3> HIDE DEF r
    <3> QED
      BY <1>1, <3>1, <3>2, FetchWritten, ChainKept
  <2>2. CASE fetch[f].wallet = None
    BY <1>1, <2>2, FetchWritten, ChainKept DEF VaultRead, Done
  <2> QED
    BY <2>1, <2>2
<1> QED
  BY <1>1, <1>3, <1>4, <1>5, KeptStands, ChainKept DEF ClientInv

LEMMA SharesReadStep ==
  ASSUME ClientInv, NEW f \in Fetches, SharesRead(f)
  PROVE  ClientInv'
<1> DEFINE w == fetch[f].wallet
           old == fetch[f].captured
<1>1. UNCHANGED <<vars, connected, captured, tx>> /\ fetch[f] # None /\ fetch[f].step = "shares"
  BY DEF SharesRead, Running
<1>2. FetchOK(fetch[f]) /\ w # None /\ Remembered(old.pending)
  BY <1>1 DEF ClientInv, FetchesStand, FetchOK
<1>3. PICK s :
        /\ Shows(f, IF s # old.shares THEN [shown EXCEPT !.shares = s] ELSE shown)
        /\ IF w \in Signing
           THEN /\ fetch' = [fetch EXCEPT ![f].step = "request", ![f].shares = s]
                /\ UNCHANGED cache
           ELSE /\ Save(w, [data |-> fetch[f].data, shares |-> s, pending |-> old.pending])
                /\ Done(f)
  BY DEF SharesRead
<1>4. ShownStands'
  <2>1. Entry(shown') /\ shown'.pending = shown.pending
    BY <1>3 DEF Shows, ClientInv, ShownStands, Entry
  <2> QED
    BY <1>1, <2>1, ChainKept DEF ClientInv, ShownStands, Entry
<1>5. CASE w \in Signing
  <2> DEFINE r == [fetch[f] EXCEPT !.step = "request", !.shares = s]
  <2>1. fetch' = [fetch EXCEPT ![f] = r] /\ UNCHANGED cache
    BY <1>3, <1>5
  <2>2. FetchOK(r)
    BY <1>2, FetchGoesOn
  <2> HIDE DEF r
  <2>3. FetchesStand'
    BY <1>1, <2>1, <2>2, FetchWritten, ChainKept
  <2> QED
    BY <1>1, <1>4, <2>1, <2>3, KeptStands, ChainKept DEF ClientInv
<1>6. CASE w \notin Signing
  <2>1. /\ Save(w, [data |-> fetch[f].data, shares |-> s, pending |-> old.pending])
        /\ Own(w, old.pending)
    BY <1>2, <1>3, <1>6 DEF Own
  <2>2. CachesStand'
    <3> HIDE DEF w, old
    <3> QED
      BY <1>1, <1>2, <2>1, SaveStands
  <2>3. FetchesStand'
    BY <1>1, <1>3, <1>6, FetchWritten, ChainKept DEF Done
  <2> QED
    BY <1>1, <1>4, <2>2, <2>3, KeptStands, ChainKept DEF ClientInv
<1> QED
  BY <1>5, <1>6

LEMMA RequestReadStep ==
  ASSUME ClientInv, NEW f \in Fetches, RequestRead(f)
  PROVE  ClientInv'
<1> DEFINE w == fetch[f].wallet
<1>1. UNCHANGED <<vars, connected, captured, tx>>
  BY DEF RequestRead
<1>2. PICK read \in SUBSET RequestEpochs(w) :
        /\ Shows(f, [shown EXCEPT !.pending = Newest(w, read)])
        /\ Save(w, [data |-> fetch[f].data, shares |-> fetch[f].shares,
                    pending |-> Newest(w, read)])
  BY DEF RequestRead
<1> DEFINE p == Newest(w, read)
<1>3. Remembered(p) /\ Own(w, p)
  BY <1>1, ChainKept, NewestStands DEF Own
<1>4. CachesStand'
  <2> HIDE DEF p, w
  <2> QED
    BY <1>1, <1>2, <1>3, SaveStands DEF p, w
<1>5. ShownStands'
  <2>1. Entry(shown') /\ (shown'.pending = p \/ shown'.pending = shown.pending)
    BY <1>2 DEF Shows, ClientInv, ShownStands, Entry
  <2> QED
    BY <1>1, <1>3, <2>1, ChainKept DEF ClientInv, ShownStands, Entry
<1>6. FetchesStand'
  BY <1>1, FetchWritten, ChainKept DEF RequestRead, Done
<1> QED
  BY <1>1, <1>4, <1>5, <1>6, KeptStands, ChainKept DEF ClientInv

-----------------------------------------------------------------------------
(* Transactions. *)

LEMMA BuildStep ==
  ASSUME ClientInv, NEW k \in {"deposit", "request", "process"}, NEW a, NEW e, Build(k, a, e),
         k \in {"deposit", "request"} => a \in Amounts,
         k = "process" => shown.pending # None /\ e = shown.pending.requestEpoch
  PROVE  ClientInv'
<1>1. /\ UNCHANGED <<vars, connected, shown, captured, cache, fetch>> /\ connected \in Signing
      /\ tx' = [kind |-> k, user |-> connected, arg |-> a, epoch |-> e, captured |-> captured,
                mounted |-> TRUE,
                own |-> shown.pending # None /\ shown.pending.user = connected]
  BY DEF Build
<1>2. /\ tx'.kind = k /\ tx'.user = connected /\ tx'.arg = a /\ tx'.epoch = e
      /\ tx'.captured = captured
      /\ (tx'.own => shown.pending.user = connected)
      /\ tx' = [kind |-> tx'.kind, user |-> tx'.user, arg |-> tx'.arg, epoch |-> tx'.epoch,
                captured |-> tx'.captured, mounted |-> tx'.mounted, own |-> tx'.own]
  BY <1>1
<1>3. connected \in Users
  BY <1>1, ClientOK
<1>4. k = "process" => Standing(shown.pending)
  BY DEF ClientInv, ShownStands, Remembered
<1>5. Remembered(tx.captured.pending)'
  BY <1>1, <1>2, ChainKept DEF ClientInv, CapturedStands
<1>6. TransactionOK'
  BY <1>2, <1>3, <1>4, <1>5 DEF TransactionOK, Standing
<1>7. ClaimsHaveRequests'
  BY <1>1, <1>2, <1>4, ChainKept DEF ClaimsHaveRequests, Standing, vars, shareVars
<1> QED
  BY <1>1, <1>6, <1>7, KeptStands, ChainKept DEF ClientInv

(* The refresh that follows a transaction. *)
LEMMA FollowsStands ==
  ASSUME ClientInv, Onward, tx # None, NEW f \in Fetches, RefreshFollows(f)
  PROVE  FetchesStand'
<1>1. FetchOK(Begun(tx.user, tx.captured, tx.mounted))
  BY BegunOK DEF ClientInv, TransactionOK
<1> QED
  BY <1>1, FetchWritten DEF RefreshFollows

LEMMA TxLandsStep ==
  ASSUME ClientInv, NEW f \in Fetches, TxLands(f)
  PROVE  ClientInv'
<1>1. /\ tx # None /\ tx' = None /\ UNCHANGED <<connected, shown, captured, cache>> /\ IInv
      /\ RefreshFollows(f)
  BY DEF TxLands, ClientInv
<1>2. IInv' /\ Onward
  <2>1. tx.user \in Users
    BY <1>1 DEF ClientInv, TransactionOK
  <2>2. CASE tx.kind = "deposit" /\ Deposit(tx.user, tx.arg)
    BY <1>1, <2>1, <2>2, DepositOnward DEF ClientInv, TransactionOK
  <2>3. CASE tx.kind = "request" /\ RequestWithdrawal(tx.user, tx.arg)
    BY <1>1, <2>1, <2>3, RequestOnward DEF ClientInv, TransactionOK
  <2>4. CASE tx.kind = "process" /\ ProcessWithdrawal(tx.user, tx.epoch, 0)
    BY <1>1, <2>1, <2>4, ProcessOnward DEF ClientInv, TransactionOK
  <2> QED
    BY <2>2, <2>3, <2>4 DEF TxLands
<1>3. TransactionOK' /\ ClaimsHaveRequests'
  BY <1>1 DEF TransactionOK, ClaimsHaveRequests
<1> QED
  BY <1>1, <1>2, <1>3, KeptStands, FollowsStands DEF ClientInv

LEMMA TxFailsStep ==
  ASSUME ClientInv, NEW f \in Fetches, TxFails(f)
  PROVE  ClientInv'
<1>1. /\ tx # None /\ tx' = None /\ UNCHANGED <<vars, connected, shown, captured, cache>>
      /\ UNCHANGED fetch \/ RefreshFollows(f)
  BY DEF TxFails
<1>2. TransactionOK' /\ ClaimsHaveRequests'
  BY <1>1 DEF TransactionOK, ClaimsHaveRequests
<1>3. FetchesStand'
  BY <1>1, KeptStands, FollowsStands, ChainKept
<1> QED
  BY <1>1, <1>2, <1>3, KeptStands, ChainKept DEF ClientInv

LEMMA EpochAdvancesStep ==
  ASSUME ClientInv, EpochAdvances
  PROVE  ClientInv'
<1>1. UNCHANGED <<connected, shown, captured, cache, fetch, tx>> /\ IInv' /\ Onward
  BY AdvanceOnward DEF EpochAdvances, clientVars, ClientInv
<1> QED
  BY <1>1, KeptStands DEF ClientInv

-----------------------------------------------------------------------------
LEMMA ClientStep == ClientInv /\ [CNext]_cvars => ClientInv'
<1> SUFFICES ASSUME ClientInv, [CNext]_cvars PROVE ClientInv'
  OBVIOUS
<1>1. CASE \E w \in Keys : ChangeWallet(w) \/ CacheExpires(w)
  BY <1>1, RenderStep, CacheExpiresStep DEF ChangeWallet
<1>2. CASE \E f \in Fetches : Refresh(f) \/ Reads(f)
  BY <1>2, RefreshStep, VaultReadStep, SharesReadStep, RequestReadStep DEF Reads
<1>3. CASE \E f \in Fetches : VaultUnreadable(f)
  <2>1. PICK f \in Fetches : VaultUnreadable(f)
    BY <1>3
  <2>2. UNCHANGED <<vars, connected, shown, captured, cache, tx>>
        /\ fetch' = [fetch EXCEPT ![f] = None]
    BY <2>1 DEF VaultUnreadable, Done
  <2>3. FetchesStand'
    BY <2>2, FetchWritten, ChainKept
  <2> QED
    BY <2>2, <2>3, KeptStands, ChainKept DEF ClientInv
<1>4. CASE \E f \in Fetches : TxLands(f) \/ TxFails(f)
  BY <1>4, TxLandsStep, TxFailsStep
<1>5. CASE \E a \in Amounts : Deposits(a) \/ Requests(a)
  BY <1>5, BuildStep DEF Deposits, DepositBuilt, Requests, RequestBuilt
<1>6. CASE Claims
  <2>1. shown.pending # None /\ Build("process", 0, shown.pending.requestEpoch)
    BY <1>6 DEF Claims, ClaimBuilt, ClaimShown, EarnOffersClaim, WindowOffersClaim, OpenPending
  <2> QED
    BY <2>1, BuildStep
<1>9. CASE OpenWindow \/ OpenEarn
  BY <1>9, RenderStep DEF OpenWindow, OpenEarn, ClientInv
<1>7. CASE EpochAdvances
  BY <1>7, EpochAdvancesStep
<1>8. CASE UNCHANGED cvars
  <2>1. UNCHANGED <<vars, connected, shown, captured, cache, fetch, tx>>
    BY <1>8 DEF cvars, clientVars
  <2> QED
    BY <2>1, KeptStands, ChainKept DEF ClientInv
<1> QED
  BY <1>1, <1>2, <1>3, <1>4, <1>5, <1>6, <1>7, <1>8, <1>9 DEF CNext

LEMMA ClientInvariance == CSpec => []ClientInv
  BY InitClientInv, ClientStep, PTL DEF CSpec

(* What the browser keeps for a wallet that can sign is that wallet's own  *)
(* request, as the chain has it or had it before it was paid               *)
(* (lib/vault-sdk.ts, hooks/useVault.ts: the cache and                     *)
(* getUserWithdrawalRequest); nothing is said of the wallets that cannot.  *)
THEOREM CachesAlwaysOwn == CSpec => []CacheKeepsOwn
<1>1. ClientInv => CacheKeepsOwn
  BY ClientOK DEF ClientInv, CachesStand, CacheKeepsOwn, Standing, Remembered, Own, Keys
<1> QED
  BY <1>1, ClientInvariance, PTL

(* A claim of one's own always names a request of an epoch that has ended, *)
(* with any refreshes, failures and wallets exchanged between the reading  *)
(* and the press of the button.                                            *)
THEOREM ClaimsAlwaysFounded == CSpec => []ClaimsHaveRequests
<1>1. ClientInv => ClaimsHaveRequests
  BY DEF ClientInv
<1> QED
  BY <1>1, ClientInvariance, PTL

(* The pages compose with the program: whatever they send, stale or not,   *)
(* leaves every share accounted for, the reported assets backed and the    *)
(* requests honourable.                                                    *)
THEOREM PagesKeepVault == CSpec => [](SharesAccounted /\ AssetsBacked /\ RequestsHonourable)
<1>1. ClientInv => SharesAccounted /\ AssetsBacked /\ RequestsHonourable
  BY Honourable DEF ClientInv, IInv
<1> QED
  BY <1>1, ClientInvariance, PTL

-----------------------------------------------------------------------------
(* What a page sends is a step of the fund when it lands; what it reads,   *)
(* keeps and shows is none of it.                                          *)
LEMMA ClientStepOfFund ==
  ASSUME ClientInv, [CNext]_cvars
  PROVE  [Fund!Next]_(Fund!fundVars)
<1>1. ASSUME UNCHANGED shareVars PROVE UNCHANGED Fund!fundVars
  BY <1>1, OthersLeaveFund DEF Fund!fundVars
<1>2. ASSUME NEW f \in Fetches, TxLands(f) PROVE Fund!Next
  <2>1. IInv /\ tx.user \in Users
    BY <1>2 DEF ClientInv, TransactionOK, TxLands
  <2>2. CASE tx.kind = "deposit" /\ Deposit(tx.user, tx.arg)
    BY <1>2, <2>1, <2>2, DepositIsBuying DEF ClientInv, TransactionOK, TxLands, Fund!Next
  <2>3. CASE tx.kind = "request" /\ RequestWithdrawal(tx.user, tx.arg)
    BY <1>2, <2>1, <2>3, RequestIsAsking DEF ClientInv, TransactionOK, TxLands, Fund!Next
  <2>4. CASE tx.kind = "process" /\ ProcessWithdrawal(tx.user, tx.epoch, 0)
    BY <1>2, <2>1, <2>4, ProcessIsRedeeming DEF ClientInv, TransactionOK, TxLands, Fund!Next
  <2> QED
    BY <1>2, <2>2, <2>3, <2>4 DEF TxLands
<1>3. CASE EpochAdvances
  BY <1>1, <1>3 DEF EpochAdvances, AdvanceEpoch
<1>4. (\E f \in Fetches : TxLands(f)) \/ EpochAdvances \/ UNCHANGED vars
  <2>1. Claims => UNCHANGED vars
    BY DEF Claims, ClaimBuilt, Build
  <2>2. ASSUME NEW a \in Amounts, Deposits(a) \/ Requests(a) PROVE UNCHANGED vars
    BY <2>2 DEF Deposits, DepositBuilt, Requests, RequestBuilt, Build
  <2>3. ASSUME NEW w \in Keys, ChangeWallet(w) \/ CacheExpires(w) PROVE UNCHANGED vars
    BY <2>3 DEF ChangeWallet, Render, CacheExpires
  <2>5. OpenWindow \/ OpenEarn => UNCHANGED vars
    BY DEF OpenWindow, OpenEarn, Render
  <2>4. ASSUME NEW f \in Fetches,
               Refresh(f) \/ Reads(f) \/ VaultUnreadable(f) \/ TxFails(f)
        PROVE  UNCHANGED vars
    BY <2>4 DEF Refresh, Reads, VaultRead, SharesRead, RequestRead, VaultUnreadable, TxFails
  <2> QED
    BY <2>1, <2>2, <2>3, <2>4, <2>5 DEF CNext, cvars
<1> QED
  BY <1>1, <1>2, <1>3, <1>4 DEF vars

(* Seen through the pages the vault is a fund still: a transaction built   *)
(* from what a page remembers, however old, buys and redeems at the price  *)
(* of the moment it lands, or does nothing.                                *)
THEOREM FundUnderPages == CSpec => ImplementsFund
<1>1. CInit => Fund!Init
  BY FundInit DEF CInit
<1>2. ClientInv /\ [CNext]_cvars => [Fund!Next]_(Fund!fundVars)
  BY ClientStepOfFund
<1> QED
  BY <1>1, <1>2, ClientInvariance, PTL DEF CSpec, ImplementsFund, Fund!Spec
=============================================================================
