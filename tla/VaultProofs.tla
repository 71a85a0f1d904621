----------------------------- MODULE VaultProofs -----------------------------
(***************************************************************************)
(* What holds of the vault program for every set of users, every amount    *)
(* and every bound: the types, the three counts of shares, the backing of  *)
(* the reported assets, the vault that never empties, and that neither a   *)
(* deposit nor a withdrawal dilutes the others.                            *)
(***************************************************************************)
EXTENDS VaultTimelock, Numbers, FiniteSetTheorems

(* What the totals of module Ledger are worth after one account changes.   *)

(* The units of one account number exactly its amount. *)
LEMMA AccountUnits ==
  ASSUME NEW k, NEW n \in Nat
  PROVE  /\ IsFiniteSet({k} \X (1..n))
         /\ Cardinality({k} \X (1..n)) = n
<1>1. IsFiniteSet({k}) /\ Cardinality({k}) = 1
  BY FS_Singleton
<1>2. IsFiniteSet(1..n) /\ Cardinality(1..n) = n
  BY FS_Interval
<1>3. /\ IsFiniteSet({k} \X (1..n))
      /\ Cardinality({k} \X (1..n)) = Cardinality({k}) * Cardinality(1..n)
  BY <1>1, <1>2, FS_Product
<1>4. QED
  BY <1>1, <1>2, <1>3

(* A ledger over finitely many holders has finitely many units, so its     *)
(* total is a natural number.                                              *)
LEMMA UnitsFinite ==
  ASSUME NEW S, IsFiniteSet(S), NEW f \in [S -> Nat]
  PROVE  IsFiniteSet(Units(f)) /\ Total(f) \in Nat
<1> DEFINE cell == [x \in S |-> {x} \X (1..f[x])]
           Cells == {cell[x] : x \in S}
<1>1. cell \in Surjection(S, Cells)
  BY DEF Surjection
<1>2. IsFiniteSet(Cells)
  <2> HIDE DEF cell, Cells
  <2>1. QED BY <1>1, FS_Surjection
<1>3. ASSUME NEW C \in Cells
      PROVE  IsFiniteSet(C)
  <2>1. PICK x \in S : C = {x} \X (1..f[x])
    OBVIOUS
  <2>2. f[x] \in Nat
    OBVIOUS
  <2>3. QED
    BY <2>1, <2>2, AccountUnits
<1>4. IsFiniteSet(UNION Cells)
  <2> HIDE DEF Cells
  <2>1. QED BY <1>2, <1>3, FS_UNION
<1>5. Units(f) = UNION Cells
  BY DEF Units
<1>6. QED
  BY <1>4, <1>5, FS_CardinalityType DEF Total

(* The empty ledger, and every ledger of empty accounts, totals zero.      *)
LEMMA TotalZero ==
  ASSUME NEW S
  PROVE  Total([x \in S |-> 0]) = 0
<1>1. Units([x \in S |-> 0]) = {}
  BY DEF Units
<1>2. QED
  BY <1>1, FS_EmptySet DEF Total

(* A ledger's total is one account's amount plus the units of the others.  *)
LEMMA TotalSplit ==
  ASSUME NEW T, IsFiniteSet(T), NEW h \in [T -> Nat], NEW k \in T
  PROVE  LET rest == UNION { {x} \X (1..h[x]) : x \in T \ {k} }
         IN  /\ Cardinality(rest) \in Nat
             /\ Total(h) = Cardinality(rest) + h[k]
<1> DEFINE rest == UNION { {x} \X (1..h[x]) : x \in T \ {k} }
           own == {k} \X (1..h[k])
<1>1. Units(h) = rest \cup own /\ rest \cap own = {}
  BY DEF Units
<1>2. IsFiniteSet(own) /\ Cardinality(own) = h[k]
  BY AccountUnits
<1>3. IsFiniteSet(Units(h))
  BY UnitsFinite
<1> HIDE DEF rest, own
<1>4. IsFiniteSet(rest) /\ Cardinality(rest) \in Nat
  BY <1>1, <1>3, FS_Subset, FS_CardinalityType
<1>5. Cardinality(rest \cup own) = Cardinality(rest) + Cardinality(own) - Cardinality(rest \cap own)
  BY <1>2, <1>4, FS_Union
<1>6. Cardinality(rest \cap own) = 0
  BY <1>1, FS_EmptySet
<1>7. Total(h) = Cardinality(rest) + h[k]
  BY <1>1, <1>2, <1>4, <1>5, <1>6 DEF Total
<1>8. QED
  BY <1>4, <1>7 DEF rest

(* No account holds more than the ledger's total.                          *)
LEMMA AccountWithinTotal ==
  ASSUME NEW T, IsFiniteSet(T), NEW h \in [T -> Nat], NEW k \in T
  PROVE  h[k] <= Total(h)
<1>1. h[k] \in Nat
  OBVIOUS
<1>2. PICK n \in Nat : Total(h) = n + h[k]
  BY TotalSplit
<1>3. QED
  BY <1>1, <1>2

(* Setting account k to v leaves what the other accounts hold.             *)
LEMMA SetAccountSplit ==
  ASSUME NEW S, IsFiniteSet(S), NEW f \in [S -> Nat], NEW k, NEW v \in Nat
  PROVE  LET rest == UNION { {x} \X (1..f[x]) : x \in S \ {k} }
         IN  /\ Cardinality(rest) \in Nat
             /\ Total(SetAccount(f, k, v)) = Cardinality(rest) + v
<1> DEFINE g == SetAccount(f, k, v)
           others(h, T) == UNION { {x} \X (1..h[x]) : x \in T \ {k} }
<1>1. g \in [S \cup {k} -> Nat] /\ g[k] = v
  BY DEF SetAccount
<1>2. others(g, S \cup {k}) = others(f, S)
  BY DEF SetAccount
<1>3. IsFiniteSet(S \cup {k})
  BY FS_AddElement
<1> HIDE DEF g
<1>4. /\ Cardinality(others(g, S \cup {k})) \in Nat
      /\ Total(g) = Cardinality(others(g, S \cup {k})) + g[k]
  BY <1>1, <1>3, TotalSplit
<1>5. QED
  BY <1>1, <1>2, <1>4 DEF g

(* A new account adds what it holds to the total.                          *)
LEMMA TotalOpenAccount ==
  ASSUME NEW S, IsFiniteSet(S), NEW f \in [S -> Nat], NEW k, k \notin S, NEW v \in Nat
  PROVE  Total(SetAccount(f, k, v)) = Total(f) + v
<1> DEFINE rest == UNION { {x} \X (1..f[x]) : x \in S \ {k} }
<1>1. Units(f) = rest
  BY DEF Units
<1>2. Total(f) = Cardinality(rest)
  BY <1>1 DEF Total
<1>3. Total(SetAccount(f, k, v)) = Cardinality(rest) + v
  BY SetAccountSplit
<1>4. QED
  BY <1>2, <1>3

(* An account that exists moves the total by the change of what it holds.  *)
LEMMA TotalResetAccount ==
  ASSUME NEW S, IsFiniteSet(S), NEW f \in [S -> Nat], NEW k \in S, NEW v \in Nat
  PROVE  /\ Total(SetAccount(f, k, v)) = Total(f) - f[k] + v
         /\ f[k] \in Nat /\ Total(f) \in Nat
<1> DEFINE rest == UNION { {x} \X (1..f[x]) : x \in S \ {k} }
<1>1. Total(f) = Cardinality(rest) + f[k]
  BY TotalSplit
<1>2. /\ Cardinality(rest) \in Nat
      /\ Total(SetAccount(f, k, v)) = Cardinality(rest) + v
  BY SetAccountSplit
<1>3. Total(f) \in Nat /\ f[k] \in Nat
  BY UnitsFinite
<1> HIDE DEF rest
<1>4. QED
  BY <1>1, <1>2, <1>3

(* The same for two ledgers of the same accounts that differ in one.       *)
LEMMA TotalUpdate ==
  ASSUME NEW S, IsFiniteSet(S), NEW f \in [S -> Nat], NEW g \in [S -> Nat],
         NEW k \in S, \A x \in S : x # k => g[x] = f[x]
  PROVE  /\ Total(g) = Total(f) - f[k] + g[k]
         /\ f[k] \in Nat /\ g[k] \in Nat /\ Total(f) \in Nat
<1>1. SetAccount(f, k, g[k]) = g
  BY DEF SetAccount
<1>2. f[k] \in Nat /\ g[k] \in Nat
  OBVIOUS
<1>3. /\ Total(SetAccount(f, k, g[k])) = Total(f) - f[k] + g[k]
      /\ Total(f) \in Nat
  BY <1>2, TotalResetAccount
<1>4. QED
  BY <1>1, <1>2, <1>3

-----------------------------------------------------------------------------
(* The inductive invariant.  None of its parts is inductive alone: the     *)
(* types need the shares accounted for (no balance goes below zero), the   *)
(* accounts need the types, and the vault stays non-empty because the      *)
(* shares redeemed are fewer than the effective shares.                    *)
IInv ==
    /\ TypeOK
    /\ SharesAccounted
    /\ AssetsBacked
    /\ VaultNeverEmpties

-----------------------------------------------------------------------------
(* Arithmetic. *)

(* A proper part of the effective shares is worth less than the whole. *)
LEMMA PartWorthLess ==
  ASSUME NEW s \in Nat, NEW t \in Nat, NEW e \in Nat, s < e, t > 0
  PROVE  (s * t) \div e \in 0..(t - 1)
<1> DEFINE q == (s * t) \div e
<1>1. q \in Nat /\ q * e <= s * t
  BY DivBounds
<1>2. s * t < e * t
  OBVIOUS
<1> HIDE DEF q
<1>3. q * e < t * e
  BY <1>1, <1>2
<1>4. q < t
  BY <1>1, <1>3
<1>5. QED
  BY <1>1, <1>4 DEF q

(* A part of the effective shares is worth no more than the whole. *)
LEMMA PartWorthAtMost ==
  ASSUME NEW s \in Nat, NEW t \in Nat, NEW e \in Nat, s <= e, e > 0
  PROVE  (s * t) \div e \in 0..t
<1> DEFINE q == (s * t) \div e
<1>1. q \in Nat /\ q * e <= s * t
  BY DivBounds
<1>2. s * t <= e * t
  OBVIOUS
<1> HIDE DEF q
<1>3. q * e <= t * e
  BY <1>1, <1>2
<1>4. q <= t
  BY <1>1, <1>3
<1>5. QED
  BY <1>1, <1>4 DEF q

(* The cast to u64 yields a u64, and never a larger number. *)
LEMMA CastBounds ==
  ASSUME NEW n \in Nat, U64Max \in Nat
  PROVE  AsU64(n) \in U64 /\ AsU64(n) <= n
BY DEF AsU64, U64

(* Minting s shares for a assets, with s rounded down, keeps t/e from falling. *)
LEMMA MintKeepsPrice ==
  ASSUME NEW t \in Nat, NEW e \in Nat, NEW a \in Nat, NEW s \in Nat,
         s * t <= a * e
  PROVE  (t + a) * e >= t * (e + s)
OBVIOUS

(* Redeeming s shares for x assets, with x rounded down, keeps t/e from falling. *)
LEMMA RedeemKeepsPrice ==
  ASSUME NEW t \in Nat, NEW e \in Nat, NEW x \in Nat, NEW s \in Nat,
         x * e <= s * t
  PROVE  (t - x) * e >= t * (e - s)
OBVIOUS

-----------------------------------------------------------------------------
(* Initially. *)

(* The vault that initialize_vault leaves satisfies the invariant.         *)
LEMMA InitIInv == Init => IInv
<1> SUFFICES ASSUME Init PROVE IInv
  OBVIOUS
<1>1. DOMAIN withdrawal_requests = {}
  BY DEF Init
<1>2. /\ DOMAIN withdrawal_requests \subseteq RequestIds
      /\ IsFiniteSet(DOMAIN withdrawal_requests)
      /\ withdrawal_requests \in [DOMAIN withdrawal_requests ->
                                    [shares : U64 \ {0}, processed : BOOLEAN]]
  BY <1>1, FS_EmptySet DEF Init
<1>3. TypeOK
  <2>1. VaultTypeOK
    <3>1. live \in BOOLEAN /\ is_paused \in BOOLEAN
      BY Zenon DEF Init
    <3>2. utilization_cap_bps \in Nat /\ min_epoch_duration \in Nat
      BY ConstantsOK DEF Init
    <3>3. 0 \in U64
      BY ConstantsOK DEF U64
    <3>4. QED
      BY <3>1, <3>2, <3>3 DEF Init, VaultTypeOK
  <2>2. TokensTypeOK
    BY ConstantsOK DEF Init, TokensTypeOK
  <2>3. QED
    BY <1>2, <2>1, <2>2 DEF TypeOK, RequestsTypeOK
<1>4. Total(share_account) = 0
  BY TotalZero DEF Init
<1>5. Units(OpenShares) = {}
  BY <1>1 DEF OpenShares, Units
<1>6. Total(OpenShares) = 0
  BY <1>5, FS_EmptySet DEF Total
<1>7. QED
  BY <1>3, <1>4, <1>6 DEF Init, IInv, SharesAccounted, AssetsBacked, VaultNeverEmpties

-----------------------------------------------------------------------------
(* Deposits. *)

(* What an update of one user's shares does to the shares held.            *)
LEMMA ShareAccountUpdate ==
  ASSUME TokensTypeOK, NEW u \in Users, NEW g \in [Users -> Nat],
         \A v \in Users : v # u => g[v] = share_account[v]
  PROVE  /\ Total(g) = Total(share_account) - share_account[u] + g[u]
         /\ share_account[u] \in Nat /\ Total(share_account) \in Nat
<1>1. IsFiniteSet(Users)
  BY ConstantsOK
<1>2. share_account \in [Users -> Nat]
  BY DEF TokensTypeOK
<1>3. QED
  BY <1>1, <1>2, TotalUpdate

(* What deposit mints: a u64 that is worth no more than what was paid.     *)
LEMMA MintedShares ==
  ASSUME TypeOK, NEW a \in Nat, a \in U64,
         EffectiveShares > 0 => total_assets > 0
  PROVE  /\ SharesToMint(a) \in U64
         /\ EffectiveShares > 0 =>
              SharesToMint(a) * total_assets <= a * EffectiveShares
<1>1. /\ total_assets \in Nat /\ EffectiveShares \in Nat /\ U64Max \in Nat
  BY ConstantsOK DEF TypeOK, VaultTypeOK, U64, EffectiveShares
<1>2. CASE EffectiveShares = 0
  BY <1>1, <1>2 DEF SharesToMint
<1>3. CASE EffectiveShares > 0
  <2> DEFINE q == (a * EffectiveShares) \div total_assets
  <2>1. a * EffectiveShares \in Nat /\ total_assets > 0
    BY <1>1, <1>3
  <2>2. q \in Nat /\ q * total_assets <= a * EffectiveShares
    BY <1>1, <2>1, DivBounds
  <2>3. SharesToMint(a) = AsU64(q)
    BY <1>3 DEF SharesToMint
  <2> HIDE DEF q
  <2>4. AsU64(q) \in U64 /\ AsU64(q) \in Nat /\ AsU64(q) <= q
    BY <1>1, <2>2, CastBounds DEF U64
  <2>5. AsU64(q) * total_assets <= q * total_assets
    BY <1>1, <2>2, <2>4
  <2>6. SharesToMint(a) * total_assets <= a * EffectiveShares
    <3> DEFINE m == AsU64(q) * total_assets
               n == q * total_assets
               b == a * EffectiveShares
    <3>1. m \in Nat /\ n \in Nat /\ b \in Nat /\ m <= n /\ n <= b
      BY <1>1, <2>1, <2>2, <2>4, <2>5
    <3> HIDE DEF m, n, b
    <3>2. m <= b
      BY <3>1
    <3>3. QED
      BY <2>3, <3>2 DEF m, b
  <2>7. QED
    BY <2>3, <2>4, <2>6
<1>4. QED
  BY <1>1, <1>2, <1>3

(* deposit preserves the invariant.                                       *)
LEMMA DepositStep ==
  ASSUME IInv, NEW u \in Users, NEW a \in Amounts, Deposit(u, a)
  PROVE  /\ IInv'
         /\ EffectiveShares > 0 =>
              total_assets' * EffectiveShares >= total_assets * EffectiveShares'
<1> DEFINE s == SharesToMint(a)
<1>1. a \in Nat /\ a \in U64 /\ a > 0 /\ U64Max \in Nat /\ VirtualOffset \in U64 \ {0}
  BY ConstantsOK DEF Deposit, U64
<1>2. TypeOK
  BY DEF IInv
<1>3. /\ s \in U64
      /\ EffectiveShares > 0 => s * total_assets <= a * EffectiveShares
  BY <1>1, <1>2, MintedShares DEF Deposit
<1> HIDE DEF s
<1>4. /\ s > 0 /\ a <= wallet[u]
      /\ total_assets + a <= U64Max /\ total_shares + s <= U64Max
      /\ total_assets' = total_assets + a
      /\ total_shares' = total_shares + s
      /\ virtual_offset' = IF EffectiveShares = 0 THEN VirtualOffset ELSE virtual_offset
      /\ share_account' = [share_account EXCEPT ![u] = share_account[u] + s]
      /\ wallet' = [wallet EXCEPT ![u] = wallet[u] - a]
      /\ vault_token_account' = vault_token_account + a
      /\ UNCHANGED <<pending_withdrawals, withdrawal_requests, share_escrow>>
  BY DEF Deposit, FitsU64, s
<1>5. VaultTypeOK'
  <2>1. UNCHANGED <<now, live, is_paused, pending_withdrawals, usdcVars, paramVars,
                    epoch_notional_exposed, epoch_premium_earned, queueVars, market_makers>>
    BY DEF Deposit
  <2>2. epoch' \in Nat /\ last_roll_timestamp' \in Nat
    BY <1>2 DEF Deposit, TypeOK, VaultTypeOK
  <2>3. total_assets' \in U64 /\ total_shares' \in U64
    BY <1>1, <1>2, <1>3, <1>4 DEF TypeOK, VaultTypeOK, U64
  <2>4. virtual_offset' \in {0, VirtualOffset}
    BY <1>2, <1>4 DEF TypeOK, VaultTypeOK
  <2>5. QED
    BY <1>2, <2>1, <2>2, <2>3, <2>4 DEF TypeOK, VaultTypeOK, usdcVars, paramVars, queueVars
<1>6. share_account[u] + s \in Nat
  BY <1>2, <1>3, <1>1 DEF TypeOK, TokensTypeOK, U64
<1>7. TokensTypeOK'
  <2>1. UNCHANGED <<outside_usdc, vault_premium_account>>
    BY DEF Deposit, usdcVars
  <2>2. QED
    BY <1>1, <1>2, <1>4, <1>6, <2>1 DEF TypeOK, TokensTypeOK
<1>8. RequestsTypeOK'
  BY <1>2, <1>4 DEF TypeOK, RequestsTypeOK
<1>9. SharesAccounted'
  <2>1. /\ Total(share_account') = Total(share_account) - share_account[u] + (share_account[u] + s)
        /\ share_account[u] \in Nat /\ Total(share_account) \in Nat
    <3>1. /\ share_account' \in [Users -> Nat]
          /\ share_account'[u] = share_account[u] + s
          /\ \A v \in Users : v # u => share_account'[v] = share_account[v]
      BY <1>2, <1>4, <1>7 DEF TypeOK, TokensTypeOK
    <3>2. QED
      BY <1>2, <3>1, ShareAccountUpdate DEF TypeOK
  <2>2. OpenShares' = OpenShares
    BY <1>4 DEF OpenShares
  <2>3. Total(OpenShares)' = Total(OpenShares)
    BY <2>2 DEF Total, Units
  <2>4. s \in Nat /\ share_escrow \in Nat
    BY <1>1, <1>2, <1>3 DEF TypeOK, TokensTypeOK, U64
  <2>5. QED
    BY <1>4, <2>1, <2>3, <2>4 DEF IInv, SharesAccounted
<1>10. AssetsBacked'
  BY <1>1, <1>2, <1>4 DEF IInv, AssetsBacked, TypeOK, VaultTypeOK, TokensTypeOK, U64
<1>11. VaultNeverEmpties'
  BY <1>1, <1>2, <1>4 DEF IInv, VaultNeverEmpties, TypeOK, VaultTypeOK, U64, EffectiveShares
<1>12. ASSUME EffectiveShares > 0
       PROVE  total_assets' * EffectiveShares >= total_assets * EffectiveShares'
  <2>1. /\ total_assets \in Nat /\ EffectiveShares \in Nat /\ s \in Nat
    BY <1>1, <1>2, <1>3 DEF TypeOK, VaultTypeOK, U64, EffectiveShares
  <2>2. EffectiveShares' = EffectiveShares + s
    BY <1>1, <1>2, <1>4, <1>12, <2>1 DEF EffectiveShares, TypeOK, VaultTypeOK, U64
  <2>3. (total_assets + a) * EffectiveShares >= total_assets * (EffectiveShares + s)
    BY <1>1, <1>3, <1>12, <2>1, MintKeepsPrice
  <2>4. QED
    BY <1>4, <2>2, <2>3
<1>13. QED
  BY <1>5, <1>7, <1>8, <1>9, <1>10, <1>11, <1>12 DEF IInv, TypeOK

-----------------------------------------------------------------------------
(* Requests. *)

(* What the open requests hold is a ledger of natural numbers.             *)
LEMMA OpenSharesType ==
  ASSUME RequestsTypeOK, U64Max \in Nat
  PROVE  /\ IsFiniteSet(DOMAIN withdrawal_requests)
         /\ OpenShares \in [DOMAIN withdrawal_requests -> Nat]
         /\ Total(OpenShares) \in Nat
<1>1. IsFiniteSet(DOMAIN withdrawal_requests)
  BY DEF RequestsTypeOK
<1>2. ASSUME NEW r \in DOMAIN withdrawal_requests
      PROVE  withdrawal_requests[r].shares \in Nat
  BY DEF RequestsTypeOK, U64
<1>3. OpenShares \in [DOMAIN withdrawal_requests -> Nat]
  BY <1>2 DEF OpenShares
<1>4. QED
  BY <1>1, <1>3, UnitsFinite

(* request_withdrawal preserves the invariant: the new request has an      *)
(* address no other request has.                                           *)
LEMMA RequestStep ==
  ASSUME IInv, NEW u \in Users, NEW s \in Amounts, RequestWithdrawal(u, s)
  PROVE  IInv'
<1> DEFINE r == <<u, epoch>>
           q == [shares |-> s, processed |-> FALSE]
           D == DOMAIN withdrawal_requests
<1>1. s \in Nat /\ s \in U64 \ {0} /\ U64Max \in Nat
  BY ConstantsOK DEF RequestWithdrawal, U64
<1>2. TypeOK /\ epoch \in Nat
  BY DEF IInv, TypeOK, VaultTypeOK
<1>3. /\ r \notin D
      /\ s <= share_account[u]
      /\ pending_withdrawals + s <= U64Max
      /\ withdrawal_requests' = SetAccount(withdrawal_requests, r, q)
      /\ share_account' = [share_account EXCEPT ![u] = share_account[u] - s]
      /\ share_escrow' = share_escrow + s
      /\ pending_withdrawals' = pending_withdrawals + s
  BY DEF RequestWithdrawal, FitsU64, RequestFree
<1>4. UNCHANGED <<now, live, total_assets, total_shares, virtual_offset,
                  wallet, vault_token_account, epoch, last_roll_timestamp,
                  epoch_notional_exposed, epoch_premium_earned,
                  premium_balance_usdc, outside_usdc, vault_premium_account,
                  utilization_cap_bps, min_epoch_duration,
                  pending_utilization_cap, pending_min_epoch_duration,
                  param_change_unlock_time, is_paused, market_makers>>
  BY DEF RequestWithdrawal, epochVars, usdcVars, paramVars, queueVars
<1>5. VaultTypeOK'
  <2>1. pending_withdrawals' \in U64
    BY <1>1, <1>2, <1>3 DEF TypeOK, VaultTypeOK, U64
  <2>2. QED
    BY <1>2, <1>4, <2>1 DEF TypeOK, VaultTypeOK
<1>6. TokensTypeOK'
  BY <1>1, <1>2, <1>3, <1>4 DEF TypeOK, TokensTypeOK
<1>7. RequestsTypeOK'
  <2>1. IsFiniteSet(D) /\ D \subseteq RequestIds
        /\ withdrawal_requests \in [D -> [shares : U64 \ {0}, processed : BOOLEAN]]
    BY <1>2 DEF TypeOK, RequestsTypeOK
  <2>2. IsFiniteSet(D \cup {r})
    BY <2>1, FS_AddElement
  <2>3. r \in RequestIds
    BY <1>2 DEF RequestIds
  <2>4. q \in [shares : U64 \ {0}, processed : BOOLEAN]
    BY <1>1
  <2>5. DOMAIN withdrawal_requests' = D \cup {r}
    BY <1>3 DEF SetAccount
  <2> HIDE DEF q, r
  <2>6. withdrawal_requests' \in [D \cup {r} -> [shares : U64 \ {0}, processed : BOOLEAN]]
    BY <1>3, <2>1, <2>4 DEF SetAccount
  <2>7. QED
    BY <2>1, <2>2, <2>3, <2>5, <2>6 DEF RequestsTypeOK
<1>8. SharesAccounted'
  <2>1. Total(share_account)' = Total(share_account) - s
    <3>1. /\ share_account' \in [Users -> Nat]
          /\ share_account'[u] = share_account[u] - s
          /\ \A v \in Users : v # u => share_account'[v] = share_account[v]
      BY <1>2, <1>3, <1>6 DEF TypeOK, TokensTypeOK
    <3>2. /\ Total(share_account') = Total(share_account) - share_account[u] + share_account'[u]
          /\ share_account[u] \in Nat /\ Total(share_account) \in Nat
      BY <1>2, <3>1, ShareAccountUpdate DEF TypeOK
    <3>3. QED
      BY <1>1, <3>1, <3>2
  <2>2. /\ IsFiniteSet(D) /\ OpenShares \in [D -> Nat] /\ Total(OpenShares) \in Nat
    BY <1>1, <1>2, OpenSharesType DEF TypeOK
  <2>3. OpenShares' = SetAccount(OpenShares, r, s)
    BY <1>3 DEF OpenShares, SetAccount
  <2>4. Total(SetAccount(OpenShares, r, s)) = Total(OpenShares) + s
    <3>1. r \notin D
      BY <1>3
    <3> HIDE DEF r, D
    <3>2. QED
      BY <1>1, <2>2, <3>1, TotalOpenAccount
  <2>5. Total(OpenShares)' = Total(OpenShares) + s
    BY <2>3, <2>4
  <2>6. Total(share_account) \in Nat /\ share_escrow \in Nat
    BY <1>2, ConstantsOK, UnitsFinite DEF TypeOK, TokensTypeOK
  <2>7. QED
    BY <1>1, <1>3, <1>4, <2>1, <2>2, <2>5, <2>6 DEF IInv, SharesAccounted
<1>9. AssetsBacked' /\ VaultNeverEmpties'
  BY <1>4 DEF IInv, AssetsBacked, VaultNeverEmpties
<1>10. QED
  BY <1>5, <1>6, <1>7, <1>8, <1>9 DEF IInv, TypeOK

-----------------------------------------------------------------------------
(* Withdrawals. *)

(* What an open request is worth.  Below the effective shares it is never  *)
(* the whole of the assets.                                                *)
LEMMA RequestWorth ==
  ASSUME TypeOK, VaultNeverEmpties, U64Max \in Nat, VirtualOffset \in Nat \ {0},
         NEW s \in Nat, s > 0, s <= total_shares
  PROVE  /\ EffectiveShares \in Nat /\ s < EffectiveShares
         /\ total_assets \in Nat /\ total_assets > 0 /\ virtual_offset # 0
         /\ premium_balance_usdc \in Nat
         /\ AssetsOf(s) \in 0..(total_assets - 1)
         /\ AssetsOf(s) * EffectiveShares <= s * total_assets
         /\ PremiumOf(s) \in 0..premium_balance_usdc
         /\ PremiumOf(s) * EffectiveShares <= s * premium_balance_usdc
<1>1. /\ total_assets \in Nat /\ total_shares \in Nat /\ premium_balance_usdc \in Nat
      /\ virtual_offset \in {0, VirtualOffset}
  BY DEF TypeOK, VaultTypeOK, U64
<1>2. virtual_offset # 0 /\ total_assets > 0
  BY <1>1 DEF VaultNeverEmpties
<1>3. EffectiveShares \in Nat /\ s < EffectiveShares
  BY <1>1, <1>2 DEF EffectiveShares
<1> DEFINE E == EffectiveShares
<1>4. E \in Nat /\ s < E /\ s <= E /\ E > 0
  BY <1>3
<1>5. AssetsOf(s) = (s * total_assets) \div E /\ PremiumOf(s) = (s * premium_balance_usdc) \div E
  BY DEF AssetsOf, PremiumOf
<1> HIDE DEF E
<1>6. (s * total_assets) \div E \in 0..(total_assets - 1)
  BY <1>1, <1>2, <1>4, PartWorthLess
<1>7. (s * premium_balance_usdc) \div E \in 0..premium_balance_usdc
  BY <1>1, <1>4, PartWorthAtMost
<1>8. s * total_assets \in Nat /\ s * premium_balance_usdc \in Nat
  BY <1>1
<1>9. ((s * total_assets) \div E) * E <= s * total_assets
  BY <1>4, <1>8, DivBounds
<1>10. ((s * premium_balance_usdc) \div E) * E <= s * premium_balance_usdc
  BY <1>4, <1>8, DivBounds
<1>11. QED
  BY <1>1, <1>2, <1>4, <1>5, <1>6, <1>7, <1>9, <1>10 DEF E

(* process_withdrawal preserves the invariant.                             *)
LEMMA ProcessStep ==
  ASSUME IInv, NEW u \in Users, NEW e \in Nat, NEW m \in Nat,
         ProcessWithdrawal(u, e, m)
  PROVE  /\ IInv'
         /\ total_assets' * EffectiveShares >= total_assets * EffectiveShares'
         /\ premium_balance_usdc' * EffectiveShares >= premium_balance_usdc * EffectiveShares'
<1> DEFINE r == <<u, e>>
           D == DOMAIN withdrawal_requests
           s == withdrawal_requests[r].shares
           amount == AssetsOf(s)
           claim == SmallerOf(PremiumOf(s), vault_premium_account)
<1>1. U64Max \in Nat /\ VirtualOffset \in Nat \ {0}
  BY ConstantsOK DEF U64
<1>2. TypeOK /\ VaultNeverEmpties
  BY DEF IInv
<1>3. r \in D /\ ~withdrawal_requests[r].processed
  BY DEF ProcessWithdrawal, Claimable
<1>4. /\ amount <= vault_token_account
      /\ s <= share_escrow /\ s <= total_shares /\ s <= pending_withdrawals
      /\ claim <= premium_balance_usdc
      /\ share_escrow' = share_escrow - s
      /\ vault_token_account' = vault_token_account - amount
      /\ wallet' = [wallet EXCEPT ![u] = wallet[u] + amount]
      /\ vault_premium_account' = vault_premium_account - claim
      /\ outside_usdc' = outside_usdc + claim
      /\ premium_balance_usdc' = premium_balance_usdc - claim
      /\ total_assets' = total_assets - amount
      /\ total_shares' = total_shares - s
      /\ pending_withdrawals' = pending_withdrawals - s
      /\ withdrawal_requests' = [withdrawal_requests EXCEPT ![r].processed = TRUE]
  BY DEF ProcessWithdrawal
<1>5. UNCHANGED <<now, live, virtual_offset, share_account, epoch, last_roll_timestamp,
                  epoch_notional_exposed, epoch_premium_earned,
                  utilization_cap_bps, min_epoch_duration,
                  pending_utilization_cap, pending_min_epoch_duration,
                  param_change_unlock_time, is_paused, market_makers>>
  BY DEF ProcessWithdrawal, epochVars, paramVars, queueVars
<1>6. s \in Nat /\ s > 0
  BY <1>1, <1>2, <1>3 DEF TypeOK, RequestsTypeOK, U64
<1> HIDE DEF s
<1>7. /\ EffectiveShares \in Nat /\ s < EffectiveShares
      /\ total_assets \in Nat /\ virtual_offset # 0
      /\ premium_balance_usdc \in Nat
      /\ amount \in 0..(total_assets - 1)
      /\ amount * EffectiveShares <= s * total_assets
      /\ PremiumOf(s) \in Nat
      /\ PremiumOf(s) * EffectiveShares <= s * premium_balance_usdc
  BY <1>1, <1>2, <1>4, <1>6, RequestWorth
<1> HIDE DEF amount
<1>8. /\ claim \in Nat /\ claim <= PremiumOf(s) /\ claim <= vault_premium_account
  BY <1>2, <1>7 DEF SmallerOf, TypeOK, TokensTypeOK
<1> HIDE DEF claim
<1>9. VaultTypeOK'
  <2>1. /\ total_assets' \in U64 /\ total_shares' \in U64 /\ pending_withdrawals' \in U64
        /\ premium_balance_usdc' \in Nat
    BY <1>1, <1>2, <1>4, <1>6, <1>7, <1>8 DEF TypeOK, VaultTypeOK, U64
  <2>2. QED
    BY <1>2, <1>5, <2>1 DEF TypeOK, VaultTypeOK
<1>10. TokensTypeOK'
  BY <1>2, <1>4, <1>5, <1>6, <1>7, <1>8 DEF TypeOK, TokensTypeOK
<1>11. RequestsTypeOK'
  BY <1>2, <1>3, <1>4 DEF TypeOK, RequestsTypeOK
<1>12. SharesAccounted'
  <2>1. /\ IsFiniteSet(D) /\ OpenShares \in [D -> Nat] /\ Total(OpenShares) \in Nat
    BY <1>1, <1>2, OpenSharesType DEF TypeOK
  <2>2. OpenShares[r] = s
    BY <1>3 DEF OpenShares, s
  <2>3. /\ DOMAIN withdrawal_requests' = D
        /\ withdrawal_requests'[r].processed
        /\ \A x \in D : x # r => withdrawal_requests'[x] = withdrawal_requests[x]
    BY <1>2, <1>3, <1>4 DEF TypeOK, RequestsTypeOK
  <2>4. OpenShares'[r] = 0 /\ \A x \in D : x # r => OpenShares'[x] = OpenShares[x]
    BY <1>3, <2>3 DEF OpenShares
  <2>5. OpenShares' \in [D -> Nat]
    <3>1. OpenShares' = [x \in D |-> OpenShares'[x]]
      BY <2>3 DEF OpenShares
    <3>2. \A x \in D : OpenShares'[x] \in Nat
      BY <2>1, <2>4
    <3>3. QED
      BY <3>1, <3>2
  <2>6. Total(OpenShares') = Total(OpenShares) - s + 0
    <3> DEFINE f == OpenShares
               g == OpenShares'
    <3>1. /\ r \in D /\ IsFiniteSet(D) /\ f \in [D -> Nat] /\ g \in [D -> Nat]
          /\ \A x \in D : x # r => g[x] = f[x]
      BY <1>3, <2>1, <2>4, <2>5
    <3> HIDE DEF f, g, D, r
    <3>2. Total(g) = Total(f) - f[r] + g[r]
      BY <3>1, TotalUpdate
    <3>3. QED
      BY <2>2, <2>4, <3>2 DEF f, g
  <2>7. Total(share_account) \in Nat /\ share_escrow \in Nat
    BY <1>2, ConstantsOK, UnitsFinite DEF TypeOK, TokensTypeOK
  <2>8. QED
    BY <1>4, <1>5, <1>6, <2>1, <2>6, <2>7 DEF IInv, SharesAccounted
<1>13. AssetsBacked'
  BY <1>2, <1>4, <1>7 DEF IInv, AssetsBacked, TypeOK, VaultTypeOK, TokensTypeOK, U64
<1>14. VaultNeverEmpties'
  BY <1>4, <1>5, <1>7 DEF VaultNeverEmpties
<1>15. EffectiveShares' = EffectiveShares - s
  BY <1>1, <1>2, <1>4, <1>5, <1>6 DEF EffectiveShares, TypeOK, VaultTypeOK, U64
<1>16. total_assets' * EffectiveShares >= total_assets * EffectiveShares'
  <2>1. (total_assets - amount) * EffectiveShares >= total_assets * (EffectiveShares - s)
    BY <1>6, <1>7, RedeemKeepsPrice
  <2>2. QED
    BY <1>4, <1>15, <2>1
<1>17. premium_balance_usdc' * EffectiveShares >= premium_balance_usdc * EffectiveShares'
  <2>1. claim * EffectiveShares <= s * premium_balance_usdc
    <3> DEFINE E == EffectiveShares
               p == PremiumOf(s)
               b == s * premium_balance_usdc
    <3>1. E \in Nat /\ p \in Nat /\ b \in Nat /\ p * E <= b /\ claim <= p
      BY <1>6, <1>7, <1>8
    <3> HIDE DEF E, p, b
    <3>2. claim * E <= p * E
      BY <1>8, <3>1
    <3>3. claim * E \in Nat /\ p * E \in Nat
      BY <1>8, <3>1
    <3>4. claim * E <= b
      BY <3>1, <3>2, <3>3
    <3>5. QED
      BY <3>4 DEF E, b
  <2>2. (premium_balance_usdc - claim) * EffectiveShares
          >= premium_balance_usdc * (EffectiveShares - s)
    BY <1>6, <1>7, <1>8, <2>1, RedeemKeepsPrice
  <2>3. QED
    BY <1>4, <1>15, <2>2
<1>18. QED
  BY <1>9, <1>10, <1>11, <1>12, <1>13, <1>14, <1>16, <1>17 DEF IInv, TypeOK

-----------------------------------------------------------------------------
(* Transfers past the program. *)

(* A transfer of shares between users preserves the invariant.             *)
LEMMA TransferSharesStep ==
  ASSUME IInv, NEW u \in Users, NEW v \in Users, NEW n \in Nat, TransferShares(u, v, n)
  PROVE  IInv'
<1> DEFINE f == share_account
           g == [share_account EXCEPT ![u] = share_account[u] - n]
           h == share_account'
<1>1. TypeOK /\ f \in [Users -> Nat] /\ IsFiniteSet(Users)
  BY ConstantsOK DEF IInv, TypeOK, TokensTypeOK
<1>2. /\ u # v /\ n <= f[u]
      /\ h = [f EXCEPT ![u] = f[u] - n, ![v] = f[v] + n]
  BY DEF TransferShares
<1>3. /\ g \in [Users -> Nat] /\ g[u] = f[u] - n /\ g[v] = f[v]
      /\ \A x \in Users : x # u => g[x] = f[x]
  BY <1>1, <1>2
<1>4. /\ h \in [Users -> Nat] /\ h[v] = g[v] + n
      /\ \A x \in Users : x # v => h[x] = g[x]
  BY <1>1, <1>2
<1>5. /\ UNCHANGED <<total_assets, total_shares, virtual_offset, pending_withdrawals,
                     withdrawal_requests, wallet, vault_token_account, share_escrow>>
      /\ UNCHANGED <<now, live, epochVars, usdcVars, paramVars, queueVars, is_paused, market_makers>>
  BY DEF TransferShares
<1> HIDE DEF f, g, h
<1>6. /\ Total(g) = Total(f) - f[u] + g[u]
      /\ f[u] \in Nat /\ g[u] \in Nat /\ Total(f) \in Nat
  BY <1>1, <1>3, TotalUpdate
<1>7. /\ Total(h) = Total(g) - g[v] + h[v]
      /\ g[v] \in Nat /\ Total(g) \in Nat
  BY <1>1, <1>3, <1>4, TotalUpdate
<1>8. Total(h) = Total(f)
  BY <1>3, <1>4, <1>6, <1>7
<1>9. Total(share_account)' = Total(share_account)
  BY <1>8 DEF f, h
<1>10. TokensTypeOK'
  BY <1>1, <1>4, <1>5 DEF TypeOK, TokensTypeOK, usdcVars, h
<1>11. VaultTypeOK' /\ RequestsTypeOK'
  BY <1>1, <1>5 DEF TypeOK, VaultTypeOK, RequestsTypeOK, epochVars, usdcVars, paramVars, queueVars
<1>12. Total(OpenShares)' = Total(OpenShares)
  BY <1>5 DEF OpenShares, Total, Units
<1>13. QED
  BY <1>5, <1>9, <1>10, <1>11, <1>12
     DEF IInv, TypeOK, SharesAccounted, AssetsBacked, VaultNeverEmpties

(* Shares sent to the escrow without a request preserve the invariant.     *)
LEMMA DonateSharesStep ==
  ASSUME IInv, NEW u \in Users, NEW n \in Nat, DonateShares(u, n)
  PROVE  IInv'
<1>1. TypeOK /\ TokensTypeOK
  BY DEF IInv, TypeOK
<1>2. /\ n <= share_account[u]
      /\ share_account' = [share_account EXCEPT ![u] = share_account[u] - n]
      /\ share_escrow' = share_escrow + n
      /\ UNCHANGED <<total_assets, total_shares, virtual_offset, pending_withdrawals,
                     withdrawal_requests, wallet, vault_token_account>>
      /\ UNCHANGED <<now, live, epochVars, usdcVars, paramVars, queueVars, is_paused, market_makers>>
  BY DEF DonateShares
<1>3. /\ share_account' \in [Users -> Nat]
      /\ share_account'[u] = share_account[u] - n
      /\ \A v \in Users : v # u => share_account'[v] = share_account[v]
  BY <1>1, <1>2 DEF TokensTypeOK
<1>4. /\ Total(share_account') = Total(share_account) - share_account[u] + share_account'[u]
      /\ share_account[u] \in Nat /\ Total(share_account) \in Nat
  BY <1>1, <1>3, ShareAccountUpdate
<1>5. Total(share_account)' = Total(share_account) - n
  BY <1>3, <1>4
<1>6. TokensTypeOK'
  BY <1>1, <1>2, <1>3 DEF TokensTypeOK, usdcVars
<1>7. VaultTypeOK' /\ RequestsTypeOK'
  BY <1>1, <1>2 DEF TypeOK, VaultTypeOK, RequestsTypeOK, epochVars, usdcVars, paramVars, queueVars
<1>8. Total(OpenShares)' = Total(OpenShares)
  BY <1>2 DEF OpenShares, Total, Units
<1>9. SharesAccounted'
  <2>1. share_escrow \in Nat /\ pending_withdrawals \in Nat
    BY <1>1, ConstantsOK DEF TypeOK, TokensTypeOK, VaultTypeOK, U64
  <2>2. QED
    BY <1>2, <1>4, <1>5, <1>8, <2>1 DEF IInv, SharesAccounted
<1>10. QED
  BY <1>2, <1>6, <1>7, <1>9 DEF IInv, TypeOK, AssetsBacked, VaultNeverEmpties

(* Assets sent to the vault without a deposit preserve the invariant.      *)
LEMMA DonateAssetsStep ==
  ASSUME IInv, NEW u \in Users, NEW n \in Nat, DonateAssets(u, n)
  PROVE  IInv'
<1>1. TypeOK
  BY DEF IInv
<1>2. /\ n <= wallet[u]
      /\ wallet' = [wallet EXCEPT ![u] = wallet[u] - n]
      /\ vault_token_account' = vault_token_account + n
      /\ UNCHANGED <<total_assets, total_shares, virtual_offset, pending_withdrawals,
                     withdrawal_requests, share_account, share_escrow>>
      /\ UNCHANGED <<now, live, epochVars, usdcVars, paramVars, queueVars, is_paused, market_makers>>
  BY DEF DonateAssets
<1>3. TokensTypeOK'
  BY <1>1, <1>2 DEF TypeOK, TokensTypeOK, usdcVars
<1>4. VaultTypeOK' /\ RequestsTypeOK'
  BY <1>1, <1>2 DEF TypeOK, VaultTypeOK, RequestsTypeOK, epochVars, usdcVars, paramVars, queueVars
<1>5. SharesAccounted'
  BY <1>2 DEF IInv, SharesAccounted, OpenShares, Total, Units
<1>6. AssetsBacked'
  BY <1>1, <1>2, ConstantsOK DEF IInv, AssetsBacked, TypeOK, VaultTypeOK, TokensTypeOK, U64
<1>7. QED
  BY <1>2, <1>3, <1>4, <1>5, <1>6 DEF IInv, TypeOK, VaultNeverEmpties

-----------------------------------------------------------------------------
(* The other instructions leave the shares and the assets alone. *)

(* A step that leaves shares and assets alone keeps the parts about them.  *)
LEMMA FrameStep ==
  ASSUME IInv, UNCHANGED shareVars, VaultTypeOK',
         outside_usdc' \in Nat, vault_premium_account' \in Nat
  PROVE  IInv'
<1>1. RequestsTypeOK' /\ TokensTypeOK'
  BY DEF IInv, TypeOK, RequestsTypeOK, TokensTypeOK, shareVars
<1>2. SharesAccounted'
  BY DEF IInv, SharesAccounted, OpenShares, Total, Units, shareVars
<1>3. QED
  BY <1>1, <1>2 DEF IInv, TypeOK, AssetsBacked, VaultNeverEmpties, shareVars

(* The authority's epoch instructions preserve the invariant.              *)
LEMMA EpochStep ==
  ASSUME IInv, EpochNext
  PROVE  IInv' /\ UNCHANGED shareVars
<1>1. /\ VaultTypeOK /\ U64Max \in Nat
      /\ Premiums \subseteq U64 /\ Notionals \subseteq U64
      /\ outside_usdc \in Nat /\ vault_premium_account \in Nat
  BY ConstantsOK DEF IInv, TypeOK, TokensTypeOK
<1>2. \A n \in U64 : n \in Nat
  BY <1>1 DEF U64
<1>3. CASE \E p \in Premiums : AdvanceEpoch(p)
  <2>1. PICK p \in Premiums : AdvanceEpoch(p)
    BY <1>3
  <2>2. VaultTypeOK'
    BY <1>1, <1>2, <2>1
       DEF VaultTypeOK, AdvanceEpoch, shareVars, paramVars, queueVars, U64
  <2>3. UNCHANGED shareVars /\ outside_usdc' \in Nat /\ vault_premium_account' \in Nat
    BY <1>1, <2>1 DEF AdvanceEpoch
  <2>4. QED
    BY <2>2, <2>3, FrameStep
<1>4. CASE \E p \in Premiums : CollectPremium(p)
  <2>1. PICK p \in Premiums : CollectPremium(p)
    BY <1>4
  <2>2. VaultTypeOK'
    BY <1>1, <1>2, <2>1
       DEF VaultTypeOK, CollectPremium, FitsU64, shareVars, paramVars, queueVars, U64
  <2>3. UNCHANGED shareVars /\ outside_usdc' \in Nat /\ vault_premium_account' \in Nat
    BY <1>1, <1>2, <2>1 DEF CollectPremium
  <2>4. QED
    BY <2>2, <2>3, FrameStep
<1>5. CASE \E p \in Premiums, n \in Notionals : RecordNotionalExposure(n, p)
  <2>1. PICK p \in Premiums, n \in Notionals : RecordNotionalExposure(n, p)
    BY <1>5
  <2>2. VaultTypeOK'
    BY <1>1, <1>2, <2>1
       DEF VaultTypeOK, RecordNotionalExposure, FitsU64, shareVars, usdcVars, paramVars, queueVars, U64
  <2>3. UNCHANGED shareVars /\ outside_usdc' \in Nat /\ vault_premium_account' \in Nat
    BY <1>1, <2>1 DEF RecordNotionalExposure, usdcVars
  <2>4. QED
    BY <2>2, <2>3, FrameStep
<1>6. CASE \E p \in Premiums, m \in MarketMakers : PaySettlement(m, p)
  <2>1. PICK p \in Premiums, m \in MarketMakers : PaySettlement(m, p)
    BY <1>6
  <2>2. VaultTypeOK'
    BY <1>1, <2>1
       DEF VaultTypeOK, PaySettlement, shareVars, epochVars, paramVars, queueVars
  <2>3. UNCHANGED shareVars /\ outside_usdc' \in Nat /\ vault_premium_account' \in Nat
    BY <1>1, <1>2, <2>1 DEF PaySettlement
  <2>4. QED
    BY <2>2, <2>3, FrameStep
<1>7. CASE ReconcilePremiumBalance
  <2>1. VaultTypeOK'
    BY <1>1, <1>7
       DEF VaultTypeOK, ReconcilePremiumBalance, shareVars, epochVars, paramVars, queueVars
  <2>2. UNCHANGED shareVars /\ outside_usdc' \in Nat /\ vault_premium_account' \in Nat
    BY <1>1, <1>7 DEF ReconcilePremiumBalance
  <2>3. QED
    BY <2>1, <2>2, FrameStep
<1>8. QED
  BY <1>3, <1>4, <1>5, <1>6, <1>7 DEF EpochNext

(* The authority's administrative instructions preserve the invariant.     *)
LEMMA AdminStep ==
  ASSUME IInv, AdminNext
  PROVE  IInv' /\ UNCHANGED shareVars
<1>1. /\ VaultTypeOK /\ TimelockDuration \in Nat
      /\ Durations \subseteq Nat /\ Caps \subseteq Nat
      /\ outside_usdc \in Nat /\ vault_premium_account \in Nat
  BY ConstantsOK DEF IInv, TypeOK, TokensTypeOK
<1>2. ASSUME UNCHANGED <<now, shareVars, epochVars, usdcVars>>,
             live' \in BOOLEAN, is_paused' \in BOOLEAN,
             utilization_cap_bps' \in Nat, min_epoch_duration' \in Nat,
             pending_utilization_cap' \in Nat, pending_min_epoch_duration' \in Nat,
             param_change_unlock_time' \in Nat, market_makers' \subseteq MarketMakers
      PROVE  IInv' /\ UNCHANGED shareVars
  <2>1. VaultTypeOK'
    BY <1>1, <1>2 DEF VaultTypeOK, shareVars, epochVars, usdcVars
  <2>2. UNCHANGED shareVars /\ outside_usdc' \in Nat /\ vault_premium_account' \in Nat
    BY <1>1, <1>2 DEF usdcVars
  <2>3. QED
    BY <2>1, <2>2, FrameStep
<1>3. CASE \E m \in MarketMakers : AddMarketMaker(m) \/ RemoveMarketMaker(m)
  <2>1. PICK m \in MarketMakers : AddMarketMaker(m) \/ RemoveMarketMaker(m)
    BY <1>3
  <2>2. /\ UNCHANGED <<now, live, shareVars, epochVars, usdcVars, paramVars, queueVars, is_paused>>
        /\ market_makers' \subseteq MarketMakers
    BY <1>1, <2>1 DEF AddMarketMaker, RemoveMarketMaker, VaultTypeOK
  <2>3. QED
    BY <1>1, <1>2, <2>2 DEF VaultTypeOK, paramVars, queueVars
<1>4. CASE \E b \in BOOLEAN : SetPause(b)
  <2>1. PICK b \in BOOLEAN : SetPause(b)
    BY <1>4
  <2>2. /\ UNCHANGED <<now, live, shareVars, epochVars, usdcVars, paramVars, queueVars, market_makers>>
        /\ is_paused' \in BOOLEAN
    BY <2>1, Zenon DEF SetPause
  <2>3. QED
    BY <1>1, <1>2, <2>2 DEF VaultTypeOK, paramVars, queueVars
<1>5. CASE \E d \in Options(Durations), c \in Options(Caps) : QueueParamChange(d, c)
  <2>1. PICK d \in Options(Durations), c \in Options(Caps) : QueueParamChange(d, c)
    BY <1>5
  <2>2. d \subseteq Nat /\ c \subseteq Nat
    BY <1>1, <2>1 DEF Options
  <2>3. UNCHANGED <<now, live, shareVars, epochVars, usdcVars, paramVars, is_paused, market_makers>>
    BY <2>1 DEF QueueParamChange
  <2>4. pending_utilization_cap' \in Nat /\ pending_min_epoch_duration' \in Nat
    BY <1>1, <2>1, <2>2 DEF QueueParamChange, VaultTypeOK
  <2>5. param_change_unlock_time' \in Nat
    BY <1>1, <2>1 DEF QueueParamChange, UnlockTime, VaultTypeOK
  <2>6. QED
    BY <1>1, <1>2, <2>3, <2>4, <2>5 DEF VaultTypeOK, paramVars
<1>6. CASE ExecuteParamChange
  <2>1. /\ UNCHANGED <<now, live, shareVars, epochVars, usdcVars, is_paused, market_makers>>
        /\ utilization_cap_bps' \in Nat /\ min_epoch_duration' \in Nat
        /\ pending_utilization_cap' = 0 /\ pending_min_epoch_duration' = 0
        /\ param_change_unlock_time' = 0
    BY <1>1, <1>6 DEF ExecuteParamChange, VaultTypeOK
  <2>2. QED
    BY <1>1, <1>2, <2>1 DEF VaultTypeOK
<1>7. CASE CancelParamChange
  <2>1. /\ UNCHANGED <<now, live, shareVars, epochVars, usdcVars, paramVars, is_paused, market_makers>>
        /\ pending_utilization_cap' = 0 /\ pending_min_epoch_duration' = 0
        /\ param_change_unlock_time' = 0
    BY <1>7 DEF CancelParamChange
  <2>2. QED
    BY <1>1, <1>2, <2>1 DEF VaultTypeOK, paramVars
<1>8. CASE CloseVault \/ ForceCloseVault
  <2>1. /\ UNCHANGED <<now, shareVars, epochVars, usdcVars, paramVars, queueVars, is_paused, market_makers>>
        /\ live' = FALSE
    BY <1>8 DEF CloseVault, ForceCloseVault
  <2>2. QED
    BY <1>1, <1>2, <2>1 DEF VaultTypeOK, paramVars, queueVars
<1>9. QED
  BY <1>3, <1>4, <1>5, <1>6, <1>7, <1>8 DEF AdminNext

(* Time and the transfers past the program preserve the invariant.         *)
LEMMA EnvironmentStep ==
  ASSUME IInv, EnvironmentNext
  PROVE  IInv' /\ UNCHANGED <<total_assets, total_shares, virtual_offset>>
<1>1. /\ VaultTypeOK /\ U64Max \in Nat
      /\ Premiums \subseteq U64 /\ Donations \subseteq U64
      /\ outside_usdc \in Nat /\ vault_premium_account \in Nat
  BY ConstantsOK DEF IInv, TypeOK, TokensTypeOK
<1>2. CASE Tick
  <2>1. VaultTypeOK'
    BY <1>1, <1>2
       DEF Tick, VaultTypeOK, shareVars, epochVars, usdcVars, paramVars, queueVars
  <2>2. UNCHANGED <<shareVars, usdcVars>>
    BY <1>2 DEF Tick
  <2>3. QED
    BY <1>1, <2>1, <2>2, FrameStep DEF usdcVars, shareVars
<1>3. CASE \E p \in Premiums : TransferPremium(p)
  <2>1. PICK p \in Premiums : TransferPremium(p)
    BY <1>3
  <2>2. VaultTypeOK'
    BY <1>1, <2>1 DEF TransferPremium, VaultTypeOK, shareVars, epochVars, paramVars, queueVars
  <2>3. UNCHANGED shareVars /\ outside_usdc' \in Nat /\ vault_premium_account' \in Nat
    BY <1>1, <2>1 DEF TransferPremium, U64
  <2>4. QED
    BY <2>2, <2>3, FrameStep DEF shareVars
<1>4. CASE \E u \in Users, a \in Donations :
             \/ DonateShares(u, a)
             \/ DonateAssets(u, a)
             \/ \E v \in Users : TransferShares(u, v, a)
  <2>1. PICK u \in Users, a \in Donations :
             \/ DonateShares(u, a)
             \/ DonateAssets(u, a)
             \/ \E v \in Users : TransferShares(u, v, a)
    BY <1>4
  <2>2. a \in Nat
    BY <1>1 DEF U64
  <2>3. IInv'
    BY <2>1, <2>2, DonateSharesStep, DonateAssetsStep, TransferSharesStep
  <2>4. UNCHANGED <<total_assets, total_shares, virtual_offset>>
    BY <2>1 DEF DonateShares, DonateAssets, TransferShares
  <2>5. QED
    BY <2>3, <2>4
<1>5. QED
  BY <1>2, <1>3, <1>4 DEF EnvironmentNext

-----------------------------------------------------------------------------
(* The inductive invariant. *)

(* The instructions that users sign preserve the invariant.                *)
LEMMA UserStep ==
  ASSUME IInv, UserNext
  PROVE  \/ \E u \in Users, a \in Amounts : Deposit(u, a)
         \/ \E u \in Users, a \in Amounts : RequestWithdrawal(u, a)
         \/ \E u \in Users, e \in Nat, m \in Nat : ProcessWithdrawal(u, e, m)
<1>1. /\ \A m \in Amounts \cup {0} : m \in Nat
      /\ \A e \in 0..MaxEpoch : e \in Nat
  BY ConstantsOK DEF U64
<1>2. QED
  BY <1>1 DEF UserNext

(* Every step, and every stuttering step, preserves the invariant.         *)
LEMMA NextIInv == IInv /\ [Next]_vars => IInv'
<1> SUFFICES ASSUME IInv, [Next]_vars PROVE IInv'
  OBVIOUS
<1>1. CASE UserNext
  BY <1>1, UserStep, DepositStep, RequestStep, ProcessStep
<1>2. CASE EpochNext
  BY <1>2, EpochStep
<1>3. CASE AdminNext
  BY <1>3, AdminStep
<1>4. CASE EnvironmentNext
  BY <1>4, EnvironmentStep
<1>5. CASE UNCHANGED vars
  <2>1. UNCHANGED shareVars /\ UNCHANGED usdcVars
    BY <1>5 DEF vars
  <2>2. VaultTypeOK'
    BY <1>5 DEF IInv, TypeOK, VaultTypeOK, vars, shareVars, epochVars, usdcVars, paramVars, queueVars
  <2>3. outside_usdc' \in Nat /\ vault_premium_account' \in Nat
    BY <2>1 DEF usdcVars, IInv, TypeOK, TokensTypeOK
  <2>4. QED
    BY <2>1, <2>2, <2>3, FrameStep
<1>6. QED
  BY <1>1, <1>2, <1>3, <1>4, <1>5 DEF Next

(* Every reachable state of the vault program satisfies the inductive      *)
(* invariant: no instruction of lib.rs and no transfer past it breaks it.  *)
THEOREM Invariance == Spec => []IInv
BY InitIInv, NextIInv, PTL DEF Spec

-----------------------------------------------------------------------------
(* The invariants. *)

(* Every field keeps the type the Vault and WithdrawalRequest structs of   *)
(* lib.rs give it, and no token account goes below zero.                   *)
THEOREM TypeCorrect == Spec => []TypeOK
<1>1. IInv => TypeOK
  BY DEF IInv
<1>2. QED
  BY <1>1, Invariance, PTL

(* deposit, request_withdrawal and process_withdrawal keep the three       *)
(* counts of the vault's shares together.                                  *)
THEOREM SharesAlwaysAccounted == Spec => []SharesAccounted
<1>1. IInv => SharesAccounted
  BY DEF IInv
<1>2. QED
  BY <1>1, Invariance, PTL

(* total_assets is never more than the vault's token account holds.        *)
THEOREM AssetsAlwaysBacked == Spec => []AssetsBacked
<1>1. IInv => AssetsBacked
  BY DEF IInv
<1>2. QED
  BY <1>1, Invariance, PTL

(* After the first deposit the vault always holds assets, so that deposit  *)
(* never divides by zero.                                                  *)
THEOREM NeverEmpties == Spec => []VaultNeverEmpties
<1>1. IInv => VaultNeverEmpties
  BY DEF IInv
<1>2. QED
  BY <1>1, Invariance, PTL

(* What process_withdrawal moves is there for every open request.          *)
LEMMA Honourable == IInv => RequestsHonourable
<1> SUFFICES ASSUME IInv, NEW r \in DOMAIN withdrawal_requests,
                    ~withdrawal_requests[r].processed
             PROVE  LET shares == withdrawal_requests[r].shares
                    IN  /\ shares <= share_escrow /\ shares <= pending_withdrawals
                        /\ shares <= total_shares
                        /\ AssetsOf(shares) <= total_assets
                        /\ AssetsOf(shares) <= vault_token_account
                        /\ PremiumOf(shares) <= premium_balance_usdc
  BY DEF RequestsHonourable
<1> DEFINE s == withdrawal_requests[r].shares
<1>1. /\ TypeOK /\ VaultNeverEmpties /\ AssetsBacked
      /\ U64Max \in Nat /\ VirtualOffset \in Nat \ {0}
  BY ConstantsOK DEF IInv, U64
<1>2. s \in Nat /\ s > 0
  BY <1>1 DEF TypeOK, RequestsTypeOK, U64
<1>3. s <= Total(OpenShares)
  <2>1. OpenShares[r] = s
    BY DEF OpenShares
  <2>2. /\ IsFiniteSet(DOMAIN withdrawal_requests)
        /\ OpenShares \in [DOMAIN withdrawal_requests -> Nat]
    BY <1>1, OpenSharesType DEF TypeOK
  <2>3. OpenShares[r] <= Total(OpenShares)
    BY <2>2, AccountWithinTotal
  <2>4. QED
    BY <2>1, <2>3
<1> HIDE DEF s
<1>4. s <= pending_withdrawals /\ s <= share_escrow /\ s <= total_shares
  <2>1. /\ pending_withdrawals \in Nat /\ share_escrow \in Nat
        /\ share_account \in [Users -> Nat] /\ IsFiniteSet(Users)
    BY <1>1, ConstantsOK DEF TypeOK, VaultTypeOK, TokensTypeOK, U64
  <2>2. Total(share_account) \in Nat
    BY <2>1, UnitsFinite
  <2>3. QED
    BY <1>2, <1>3, <2>1, <2>2 DEF IInv, SharesAccounted
<1>5. /\ total_assets \in Nat /\ premium_balance_usdc \in Nat
      /\ AssetsOf(s) \in 0..(total_assets - 1)
      /\ PremiumOf(s) \in 0..premium_balance_usdc
  BY <1>1, <1>2, <1>4, RequestWorth
<1>6. total_assets <= vault_token_account /\ vault_token_account \in Nat
  BY <1>1 DEF AssetsBacked, TypeOK, TokensTypeOK
<1>7. QED
  BY <1>4, <1>5, <1>6 DEF s

(* process_withdrawal has the assets, the shares and the premium for every *)
(* open request.                                                           *)
THEOREM RequestsAlwaysHonourable == Spec => []RequestsHonourable
BY Honourable, Invariance, PTL

-----------------------------------------------------------------------------
(* The steps. *)

(* Where only a withdrawal could do harm: in every other step the shares   *)
(* and the reported assets stay or grow together.                          *)
LEMMA StepsThatMoveAssets ==
  ASSUME IInv, [Next]_vars
  PROVE  \/ \E u \in Users, a \in Amounts : Deposit(u, a)
         \/ \E u \in Users, e \in Nat, m \in Nat : ProcessWithdrawal(u, e, m)
         \/ UNCHANGED <<total_assets, total_shares, virtual_offset>>
<1>1. CASE UserNext
  <2>1. ASSUME NEW u \in Users, NEW a \in Amounts, RequestWithdrawal(u, a)
        PROVE  UNCHANGED <<total_assets, total_shares, virtual_offset>>
    BY <2>1 DEF RequestWithdrawal
  <2>2. QED
    BY <1>1, <2>1, UserStep
<1>2. CASE EpochNext \/ AdminNext
  BY <1>2, EpochStep, AdminStep DEF shareVars
<1>3. CASE EnvironmentNext
  BY <1>3, EnvironmentStep
<1>4. CASE UNCHANGED vars
  BY <1>4 DEF vars, shareVars
<1>5. QED
  BY <1>1, <1>2, <1>3, <1>4 DEF Next

(* The shares in circulation are a natural number.                         *)
LEMMA SharesNaturals ==
  ASSUME IInv
  PROVE  /\ total_assets \in Nat /\ total_shares \in Nat /\ EffectiveShares \in Nat
         /\ premium_balance_usdc \in Nat
BY ConstantsOK DEF IInv, TypeOK, VaultTypeOK, U64, EffectiveShares

(* No step of the program makes a share worth less of the underlying       *)
(* asset: deposit rounds the shares it mints down, process_withdrawal the  *)
(* assets it pays.                                                         *)
THEOREM PriceNeverFalls == Spec => NoDilution
<1>1. IInv /\ [Next]_vars =>
        [EffectiveShares > 0 =>
           total_assets' * EffectiveShares >= total_assets * EffectiveShares']_vars
  <2> SUFFICES ASSUME IInv, [Next]_vars, EffectiveShares > 0
               PROVE  total_assets' * EffectiveShares >= total_assets * EffectiveShares'
    OBVIOUS
  <2>1. CASE UNCHANGED <<total_assets, total_shares, virtual_offset>>
    <3>1. total_assets' = total_assets /\ EffectiveShares' = EffectiveShares
      BY <2>1 DEF EffectiveShares
    <3>2. total_assets * EffectiveShares \in Nat
      BY SharesNaturals
    <3>3. QED
      BY <3>1, <3>2
  <2>2. QED
    BY <2>1, StepsThatMoveAssets, DepositStep, ProcessStep
<1>2. QED
  BY <1>1, Invariance, PTL DEF Spec, NoDilution

(* A withdrawal pays from the premium balance no more than the part of the *)
(* shares that leave with it.                                              *)
THEOREM PremiumStays == Spec => WithdrawalLeavesPremium
<1>1. IInv /\ [Next]_vars =>
        [total_shares' < total_shares =>
           premium_balance_usdc' * EffectiveShares
             >= premium_balance_usdc * EffectiveShares']_vars
  <2> SUFFICES ASSUME IInv, [Next]_vars, total_shares' < total_shares
               PROVE  premium_balance_usdc' * EffectiveShares
                        >= premium_balance_usdc * EffectiveShares'
    OBVIOUS
  <2>1. ASSUME NEW u \in Users, NEW a \in Amounts, Deposit(u, a)
        PROVE  FALSE
    <3>1. total_shares' = total_shares + SharesToMint(a) /\ SharesToMint(a) > 0
      BY <2>1 DEF Deposit
    <3>2. a \in Nat /\ a \in U64
      BY ConstantsOK DEF U64
    <3>3. SharesToMint(a) \in Nat
      BY <2>1, <3>2, MintedShares, ConstantsOK DEF Deposit, IInv, U64
    <3>4. QED
      BY <3>1, <3>3, SharesNaturals
  <2>2. ~UNCHANGED <<total_assets, total_shares, virtual_offset>>
    BY SharesNaturals
  <2>3. QED
    BY <2>1, <2>2, StepsThatMoveAssets, ProcessStep
<1>2. QED
  BY <1>1, Invariance, PTL DEF Spec, WithdrawalLeavesPremium

(* Only process_withdrawal takes tokens out of the vault's account.        *)
LEMMA StepsThatPayOut ==
  ASSUME IInv, [Next]_vars, vault_token_account' < vault_token_account
  PROVE  \E u \in Users, e \in Nat, m \in Nat : ProcessWithdrawal(u, e, m)
<1>1. vault_token_account \in Nat
  BY DEF IInv, TypeOK, TokensTypeOK
<1>2. ASSUME NEW u \in Users, NEW n \in Nat, vault_token_account' = vault_token_account + n
      PROVE  FALSE
  BY <1>1, <1>2
<1>3. vault_token_account' # vault_token_account
  BY <1>1
<1>4. CASE UserNext
  <2>1. ASSUME NEW u \in Users, NEW a \in Amounts, Deposit(u, a)
        PROVE  FALSE
    <3>1. a \in Nat
      BY ConstantsOK DEF U64
    <3>2. vault_token_account' = vault_token_account + a
      BY <2>1 DEF Deposit
    <3>3. QED
      BY <1>2, <3>1, <3>2
  <2>2. ASSUME NEW u \in Users, NEW a \in Amounts, RequestWithdrawal(u, a)
        PROVE  FALSE
    BY <1>3, <2>2 DEF RequestWithdrawal
  <2>3. QED
    BY <1>4, <2>1, <2>2, UserStep
<1>5. CASE EpochNext \/ AdminNext
  BY <1>3, <1>5, EpochStep, AdminStep DEF shareVars
<1>6. CASE EnvironmentNext
  <2>1. ASSUME NEW u \in Users, NEW n \in Donations, DonateAssets(u, n)
        PROVE  FALSE
    <3>1. n \in Nat
      BY ConstantsOK DEF U64
    <3>2. vault_token_account' = vault_token_account + n
      BY <2>1 DEF DonateAssets
    <3>3. QED
      BY <1>2, <3>1, <3>2
  <2>2. QED
    BY <1>3, <1>6, <2>1
       DEF EnvironmentNext, Tick, TransferPremium, DonateShares, TransferShares, shareVars
<1>7. CASE UNCHANGED vars
  BY <1>3, <1>7 DEF vars, shareVars
<1>8. QED
  BY <1>4, <1>5, <1>6, <1>7 DEF Next

(* Tokens leave the vault only to pay, once, a request of an earlier epoch,*)
(* and all of them go to the user who made it.                             *)
THEOREM WithdrawalsAlwaysGated == Spec => WithdrawalsEpochGated
<1>1. IInv /\ [Next]_vars =>
        [vault_token_account' < vault_token_account =>
           \E r \in DOMAIN withdrawal_requests :
             /\ r[2] < epoch
             /\ ~withdrawal_requests[r].processed
             /\ withdrawal_requests'[r].processed
             /\ wallet'[r[1]] - wallet[r[1]]
                  = vault_token_account - vault_token_account']_vars
  <2> SUFFICES ASSUME IInv, [Next]_vars, vault_token_account' < vault_token_account
               PROVE  \E r \in DOMAIN withdrawal_requests :
                        /\ r[2] < epoch
                        /\ ~withdrawal_requests[r].processed
                        /\ withdrawal_requests'[r].processed
                        /\ wallet'[r[1]] - wallet[r[1]]
                             = vault_token_account - vault_token_account'
    OBVIOUS
  <2>1. PICK u \in Users, e \in Nat, m \in Nat : ProcessWithdrawal(u, e, m)
    BY StepsThatPayOut
  <2> DEFINE r == <<u, e>>
             s == withdrawal_requests[r].shares
             x == AssetsOf(s)
  <2>2. /\ TypeOK /\ VaultNeverEmpties /\ epoch \in Nat
        /\ wallet \in [Users -> Nat] /\ vault_token_account \in Nat
        /\ U64Max \in Nat /\ VirtualOffset \in Nat \ {0}
    BY ConstantsOK DEF IInv, TypeOK, VaultTypeOK, TokensTypeOK, U64
  <2>3. /\ r \in DOMAIN withdrawal_requests /\ ~withdrawal_requests[r].processed
        /\ epoch > e /\ s <= total_shares
    BY <2>1 DEF ProcessWithdrawal, Claimable
  <2>4. /\ wallet' = [wallet EXCEPT ![u] = wallet[u] + x]
        /\ vault_token_account' = vault_token_account - x
        /\ withdrawal_requests' = [withdrawal_requests EXCEPT ![r].processed = TRUE]
    BY <2>1 DEF ProcessWithdrawal
  <2>5. withdrawal_requests'[r].processed
    BY <2>2, <2>3, <2>4 DEF TypeOK, RequestsTypeOK
  <2>6. s \in Nat /\ s > 0
    BY <2>2, <2>3 DEF TypeOK, RequestsTypeOK, U64
  <2> HIDE DEF s
  <2>7. x \in Nat
    BY <2>2, <2>3, <2>6, RequestWorth
  <2> HIDE DEF x
  <2>8. wallet'[u] - wallet[u] = vault_token_account - vault_token_account'
    BY <2>2, <2>4, <2>7
  <2>9. r[1] = u /\ r[2] = e /\ e < epoch
    BY <2>2, <2>3
  <2>10. QED
    BY <2>3, <2>5, <2>8, <2>9
<1>2. QED
  BY <1>1, Invariance, PTL DEF Spec, WithdrawalsEpochGated

-----------------------------------------------------------------------------
(* What a depositor relies on: the vault is the fund of ShareFund. *)

(* What one user has asked for is a ledger of natural numbers.             *)
LEMMA OpenSharesOfType ==
  ASSUME RequestsTypeOK, U64Max \in Nat, NEW u
  PROVE  /\ OpenSharesOf(u) \in [DOMAIN withdrawal_requests -> Nat]
         /\ Total(OpenSharesOf(u)) \in Nat
<1>1. IsFiniteSet(DOMAIN withdrawal_requests) /\ OpenShares \in [DOMAIN withdrawal_requests -> Nat]
  BY OpenSharesType
<1>2. OpenSharesOf(u) \in [DOMAIN withdrawal_requests -> Nat]
  BY <1>1 DEF OpenSharesOf
<1> QED
  BY <1>1, <1>2, UnitsFinite

(* Where no request is made or paid, what is asked for stays.              *)
LEMMA AskedStays ==
  ASSUME withdrawal_requests' = withdrawal_requests
  PROVE  SharesAsked' = SharesAsked
BY DEF SharesAsked, OpenSharesOf, OpenShares, Total, Units

(* deposit buys, the first one on its own terms.                           *)
LEMMA DepositIsBuying ==
  ASSUME IInv, NEW u \in Users, NEW a \in Amounts, Deposit(u, a)
  PROVE  Fund!Opens(u) \/ Fund!Buys(u)
<1> DEFINE s == SharesToMint(a)
           E == EffectiveShares
<1>1. a \in Nat /\ a \in U64 /\ a > 0 /\ U64Max \in Nat /\ VirtualOffset \in Nat
  BY ConstantsOK DEF Deposit, U64
<1>2. TypeOK /\ VaultNeverEmpties
  BY DEF IInv
<1>3. /\ s \in Nat /\ E \in Nat /\ total_assets \in Nat /\ total_shares \in Nat
      /\ wallet \in [Users -> Nat] /\ share_account \in [Users -> Nat]
      /\ E > 0 => s * total_assets <= a * E
  BY <1>1, <1>2, MintedShares DEF Deposit, TypeOK, VaultTypeOK, TokensTypeOK, U64, EffectiveShares
<1>4. /\ s > 0 /\ a <= wallet[u]
      /\ total_assets' = total_assets + a
      /\ total_shares' = total_shares + s
      /\ virtual_offset' = IF E = 0 THEN VirtualOffset ELSE virtual_offset
      /\ share_account' = [share_account EXCEPT ![u] = share_account[u] + s]
      /\ wallet' = [wallet EXCEPT ![u] = wallet[u] - a]
      /\ withdrawal_requests' = withdrawal_requests
  BY DEF Deposit
<1>5. SharesAsked' = SharesAsked
  BY <1>4, AskedStays
<1>6. wallet[u] - wallet'[u] = a /\ share_account'[u] - share_account[u] = s
  BY <1>1, <1>3, <1>4
<1>7. Fund!Pays(u, a, s)
  BY <1>1, <1>4, <1>5 DEF Fund!Pays
<1>8. CASE E = 0
  <2>1. s = a
    BY <1>8 DEF SharesToMint
  <2>2. total_shares = 0
    <3>1. total_shares + virtual_offset = 0 /\ virtual_offset \in {0, VirtualOffset}
      BY <1>2, <1>8 DEF TypeOK, VaultTypeOK, EffectiveShares
    <3>2. virtual_offset \in Nat
      BY <1>1, <3>1
    <3> HIDE DEF E
    <3> QED BY <1>3, <3>1, <3>2
  <2>3. EffectiveShares' = a + VirtualOffset
    BY <1>1, <1>4, <1>8, <2>1, <2>2 DEF EffectiveShares
  <2> QED BY <1>6, <1>7, <1>8, <2>1, <2>3 DEF Fund!Opens
<1>9. CASE E > 0
  <2>1. EffectiveShares' = E + s
    BY <1>2, <1>3, <1>4, <1>9 DEF EffectiveShares, TypeOK, VaultTypeOK
  <2> QED BY <1>3, <1>6, <1>7, <1>9, <2>1 DEF Fund!Buys
<1> QED BY <1>3, <1>8, <1>9

(* request_withdrawal asks, for its caller alone.                          *)
LEMMA RequestIsAsking ==
  ASSUME IInv, NEW u \in Users, NEW s \in Amounts, RequestWithdrawal(u, s)
  PROVE  Fund!Asks(u)
<1> DEFINE r == <<u, epoch>>
           q == [shares |-> s, processed |-> FALSE]
           D == DOMAIN withdrawal_requests
<1>1. s \in Nat /\ s > 0 /\ U64Max \in Nat
  BY ConstantsOK DEF RequestWithdrawal, U64
<1>2. RequestsTypeOK /\ share_account \in [Users -> Nat] /\ IsFiniteSet(D)
  BY DEF IInv, TypeOK, RequestsTypeOK, TokensTypeOK
<1>3. /\ r \notin D /\ s <= share_account[u]
      /\ withdrawal_requests' = SetAccount(withdrawal_requests, r, q)
      /\ share_account' = [share_account EXCEPT ![u] = share_account[u] - s]
      /\ UNCHANGED <<wallet, total_assets, total_shares, virtual_offset>>
  BY DEF RequestWithdrawal, RequestFree
<1>4. ASSUME NEW v \in Users
      PROVE  /\ SharesAsked'[v] = SharesAsked[v] + (IF v = u THEN s ELSE 0)
             /\ SharesAsked[v] \in Nat
  <2> DEFINE n == IF v = u THEN s ELSE 0
             f == OpenSharesOf(v)
  <2>1. OpenSharesOf(v)' = SetAccount(f, r, n)
    BY <1>3 DEF OpenSharesOf, OpenShares, SetAccount
  <2>2. f \in [D -> Nat] /\ Total(f) \in Nat /\ n \in Nat
    BY <1>1, <1>2, OpenSharesOfType
  <2>3. SharesAsked'[v] = Total(OpenSharesOf(v)') /\ SharesAsked[v] = Total(f)
    BY DEF SharesAsked, Total, Units
  <2> HIDE DEF f, n, r, D
  <2>4. Total(SetAccount(f, r, n)) = Total(f) + n
    BY <1>2, <1>3, <2>2, TotalOpenAccount
  <2> QED BY <2>1, <2>2, <2>3, <2>4 DEF n
<1>5. SharesAsked' = [SharesAsked EXCEPT ![u] = SharesAsked[u] + s]
  <2>1. SharesAsked' = [v \in Users |-> SharesAsked'[v]] /\ DOMAIN SharesAsked = Users
    BY DEF SharesAsked
  <2>2. \A v \in Users : SharesAsked'[v] = IF v = u THEN SharesAsked[u] + s ELSE SharesAsked[v]
    BY <1>4
  <2> QED BY <2>1, <2>2
<1>6. share_account[u] - share_account'[u] = s
  BY <1>1, <1>2, <1>3
<1>7. EffectiveShares' = EffectiveShares
  BY <1>3 DEF EffectiveShares
<1>8. s \in 1..share_account[u]
  BY <1>1, <1>2, <1>3
<1> QED
  BY <1>3, <1>5, <1>6, <1>7, <1>8 DEF Fund!Asks

(* process_withdrawal redeems shares that its user had asked for.          *)
LEMMA ProcessIsRedeeming ==
  ASSUME IInv, NEW u \in Users, NEW e \in Nat, NEW m \in Nat,
         ProcessWithdrawal(u, e, m)
  PROVE  Fund!Redeems(u)
<1> DEFINE r == <<u, e>>
           D == DOMAIN withdrawal_requests
           s == withdrawal_requests[r].shares
           amount == AssetsOf(s)
<1>1. U64Max \in Nat /\ VirtualOffset \in Nat \ {0}
  BY ConstantsOK DEF U64
<1>2. /\ TypeOK /\ VaultNeverEmpties /\ RequestsTypeOK /\ IsFiniteSet(D)
      /\ wallet \in [Users -> Nat] /\ total_shares \in Nat
      /\ virtual_offset \in Nat
  BY <1>1 DEF IInv, TypeOK, RequestsTypeOK, TokensTypeOK, VaultTypeOK, U64
<1>3. r \in D /\ ~withdrawal_requests[r].processed
  BY DEF ProcessWithdrawal, Claimable
<1>4. /\ s <= total_shares
      /\ wallet' = [wallet EXCEPT ![u] = wallet[u] + amount]
      /\ total_assets' = total_assets - amount
      /\ total_shares' = total_shares - s
      /\ withdrawal_requests' = [withdrawal_requests EXCEPT ![r].processed = TRUE]
      /\ UNCHANGED <<virtual_offset, share_account>>
  BY DEF ProcessWithdrawal
<1>5. s \in Nat /\ s > 0
  BY <1>1, <1>2, <1>3 DEF RequestsTypeOK, U64
<1>6. /\ DOMAIN withdrawal_requests' = D
      /\ withdrawal_requests'[r].processed
      /\ \A x \in D : x # r => withdrawal_requests'[x] = withdrawal_requests[x]
  BY <1>2, <1>3, <1>4 DEF RequestsTypeOK
<1> HIDE DEF s
<1>7. /\ EffectiveShares \in Nat /\ s < EffectiveShares
      /\ amount \in Nat /\ amount * EffectiveShares <= s * total_assets
  BY <1>1, <1>2, <1>4, <1>5, RequestWorth
<1> HIDE DEF amount
<1>8. ASSUME NEW v \in Users
      PROVE  /\ SharesAsked'[v] = SharesAsked[v] - (IF v = u THEN s ELSE 0)
             /\ SharesAsked[v] \in Nat /\ (v = u => s <= SharesAsked[v])
  <2> DEFINE n == IF v = u THEN s ELSE 0
             f == OpenSharesOf(v)
             g == OpenSharesOf(v)'
  <2>1. f[r] = n
    BY <1>3 DEF OpenSharesOf, OpenShares, s
  <2>2. g[r] = 0 /\ \A x \in D : x # r => g[x] = f[x]
    BY <1>3, <1>6 DEF OpenSharesOf, OpenShares
  <2>3. f \in [D -> Nat] /\ Total(f) \in Nat /\ n \in Nat
    BY <1>1, <1>2, <1>5, OpenSharesOfType
  <2>4. g \in [D -> Nat]
    <3>1. g = [x \in D |-> g[x]]
      BY <1>6 DEF OpenSharesOf
    <3>2. \A x \in D : g[x] \in Nat
      BY <2>2, <2>3
    <3> QED BY <3>1, <3>2
  <2>5. SharesAsked'[v] = Total(g) /\ SharesAsked[v] = Total(f)
    BY DEF SharesAsked, Total, Units
  <2> HIDE DEF f, g, n, r, D
  <2>6. Total(g) = Total(f) - f[r] + g[r]
    BY <1>2, <1>3, <2>2, <2>3, <2>4, TotalUpdate
  <2>7. f[r] <= Total(f)
    BY <1>2, <1>3, <2>3, AccountWithinTotal
  <2> QED BY <2>1, <2>2, <2>3, <2>5, <2>6, <2>7 DEF n
<1>9. SharesAsked' = [SharesAsked EXCEPT ![u] = SharesAsked[u] - s]
  <2>1. SharesAsked' = [v \in Users |-> SharesAsked'[v]] /\ DOMAIN SharesAsked = Users
    BY DEF SharesAsked
  <2>2. \A v \in Users : SharesAsked'[v] = IF v = u THEN SharesAsked[u] - s ELSE SharesAsked[v]
    BY <1>8
  <2> QED BY <2>1, <2>2
<1>10. /\ SharesAsked[u] - SharesAsked'[u] = s /\ s <= SharesAsked[u]
       /\ wallet'[u] - wallet[u] = amount
  BY <1>2, <1>4, <1>5, <1>7, <1>8
<1>11. EffectiveShares' = EffectiveShares - s /\ EffectiveShares' < EffectiveShares
  BY <1>2, <1>4, <1>5 DEF EffectiveShares
<1> DEFINE given == SharesAsked[u] - SharesAsked'[u]
           got == wallet'[u] - wallet[u]
<1>12. given = s /\ got = amount
  BY <1>10
<1> HIDE DEF given, got
<1>13. /\ EffectiveShares' < EffectiveShares /\ got >= 0
       /\ wallet' = [wallet EXCEPT ![u] = wallet[u] + got]
       /\ total_assets' = total_assets - got
       /\ EffectiveShares' = EffectiveShares - given /\ given <= SharesAsked[u]
       /\ got * EffectiveShares <= given * total_assets
       /\ SharesAsked' = [SharesAsked EXCEPT ![u] = SharesAsked[u] - given]
       /\ UNCHANGED share_account
  BY <1>4, <1>7, <1>9, <1>10, <1>11, <1>12
<1> QED
  BY <1>13 DEF Fund!Redeems, given, got

(* Transfers past the program give, or lose to nobody.                     *)
LEMMA TransfersAreGifts ==
  ASSUME IInv, NEW u \in Users, NEW n \in Donations,
         \/ DonateShares(u, n) \/ DonateAssets(u, n)
         \/ \E v \in Users : TransferShares(u, v, n)
  PROVE  Fund!Loses(u) \/ \E v \in Users : Fund!Gives(u, v)
<1>1. n \in Nat /\ wallet \in [Users -> Nat] /\ share_account \in [Users -> Nat]
  BY ConstantsOK DEF IInv, TypeOK, TokensTypeOK, U64
<1>2. SharesAsked' = SharesAsked /\ EffectiveShares' = EffectiveShares /\ total_assets' = total_assets
  <2>1. UNCHANGED <<withdrawal_requests, total_assets, total_shares, virtual_offset>>
    BY DEF DonateShares, DonateAssets, TransferShares
  <2> QED BY <2>1, AskedStays DEF EffectiveShares
<1>3. CASE DonateShares(u, n)
  <2>1. /\ n > 0 /\ n <= share_account[u] /\ wallet' = wallet
        /\ share_account' = [share_account EXCEPT ![u] = share_account[u] - n]
    BY <1>3 DEF DonateShares
  <2>2. share_account'[u] = share_account[u] - n
    BY <1>1, <2>1
  <2>3. share_account'[u] \in 0..(share_account[u] - 1)
    BY <1>1, <2>1, <2>2
  <2> QED BY <1>2, <2>1, <2>2, <2>3 DEF Fund!Loses
<1>4. CASE DonateAssets(u, n)
  <2>1. /\ n > 0 /\ n <= wallet[u] /\ share_account' = share_account
        /\ wallet' = [wallet EXCEPT ![u] = wallet[u] - n]
    BY <1>4 DEF DonateAssets
  <2>2. wallet'[u] = wallet[u] - n
    BY <1>1, <2>1
  <2>3. wallet'[u] \in 0..(wallet[u] - 1)
    BY <1>1, <2>1, <2>2
  <2> QED BY <1>2, <2>1, <2>2, <2>3 DEF Fund!Loses
<1>5. ASSUME NEW v \in Users, TransferShares(u, v, n) PROVE Fund!Gives(u, v)
  <2>1. /\ n > 0 /\ n <= share_account[u] /\ u # v /\ wallet' = wallet
        /\ share_account' = [share_account EXCEPT ![u] = share_account[u] - n,
                                                  ![v] = share_account[v] + n]
    BY <1>5 DEF TransferShares
  <2>2. share_account[u] - share_account'[u] = n /\ n \in 1..share_account[u]
    BY <1>1, <2>1
  <2> QED BY <1>2, <2>1, <2>2 DEF Fund!Gives
<1> QED BY <1>3, <1>4, <1>5

(* The steps of the vault that are none of the fund's.                     *)
LEMMA OthersLeaveFund ==
  ASSUME UNCHANGED shareVars
  PROVE  UNCHANGED <<wallet, share_account, SharesAsked, total_assets, EffectiveShares>>
<1>1. UNCHANGED <<wallet, share_account, withdrawal_requests, total_assets, total_shares, virtual_offset>>
  BY DEF shareVars
<1> QED BY <1>1, AskedStays DEF EffectiveShares

(* Every step of the vault is one of the fund, or none.                    *)
LEMMA StepOfFund == IInv /\ [Next]_vars => [Fund!Next]_(Fund!fundVars)
<1> SUFFICES ASSUME IInv, [Next]_vars PROVE Fund!Next \/ UNCHANGED Fund!fundVars
  OBVIOUS
<1>1. CASE UserNext
  BY <1>1, UserStep, DepositIsBuying, RequestIsAsking, ProcessIsRedeeming DEF Fund!Next
<1>2. CASE EpochNext \/ AdminNext
  BY <1>2, EpochStep, AdminStep, OthersLeaveFund DEF Fund!fundVars
<1>3. CASE EnvironmentNext
  <2>1. CASE Tick \/ \E p \in Premiums : TransferPremium(p)
    <3>1. UNCHANGED shareVars
      BY <2>1 DEF Tick, TransferPremium
    <3> QED BY <3>1, OthersLeaveFund DEF Fund!fundVars
  <2>2. CASE \E u \in Users, a \in Donations :
                \/ DonateShares(u, a) \/ DonateAssets(u, a)
                \/ \E v \in Users : TransferShares(u, v, a)
    BY <2>2, TransfersAreGifts DEF Fund!Next
  <2> QED BY <1>3, <2>1, <2>2 DEF EnvironmentNext
<1>4. CASE UNCHANGED vars
  <2>1. UNCHANGED shareVars
    BY <1>4 DEF vars
  <2> QED BY <2>1, OthersLeaveFund DEF Fund!fundVars
<1> QED BY <1>1, <1>2, <1>3, <1>4 DEF Next

(* A vault that was just made is a fund without shares.                    *)
LEMMA FundInit == Init => Fund!Init
<1> SUFFICES ASSUME Init PROVE Fund!Init
  OBVIOUS
<1>1. /\ wallet \in [Users -> Nat] /\ share_account = [u \in Users |-> 0]
      /\ total_assets = 0 /\ EffectiveShares = 0 /\ DOMAIN withdrawal_requests = {}
  BY ConstantsOK DEF Init, EffectiveShares
<1>2. ASSUME NEW u \in Users PROVE Total(OpenSharesOf(u)) = 0
  <2>1. Units(OpenSharesOf(u)) = {}
    BY <1>1 DEF OpenSharesOf, Units
  <2> QED BY <2>1, FS_EmptySet DEF Total
<1> QED
  BY <1>1, <1>2 DEF Fund!Init, SharesAsked

(* lib.rs: for depositors the vault is the fund of ShareFund. No rounding, *)
(* no order of deposits, requests, withdrawals and transfers, and nothing  *)
(* the authority does, gives anybody shares or assets at better than their *)
(* price, or takes from anybody what they have.                            *)
THEOREM VaultIsFund == Spec => ImplementsFund
BY FundInit, StepOfFund, Invariance, PTL DEF Spec, ImplementsFund, Fund!Spec

-----------------------------------------------------------------------------
(* The timelock: any durations and caps, and any instructions in between.  *)

(* A pending value was asked for, no later than now, and is locked since.  *)
LockedSince(pending, asked_for) ==
    pending > 0 => \E a \in asked_for :
        /\ a[1] = pending
        /\ a[2] \in Nat /\ a[2] <= now
        /\ a[2] + TimelockDuration <= param_change_unlock_time

TimelockInv ==
    /\ now \in Nat /\ param_change_unlock_time \in Nat
    /\ pending_utilization_cap \in Nat /\ pending_min_epoch_duration \in Nat
    /\ LockedSince(pending_utilization_cap, cap_asked)
    /\ LockedSince(pending_min_epoch_duration, duration_asked)

LockStep ==
    /\ utilization_cap_bps' # utilization_cap_bps =>
         \E a \in cap_asked : /\ a[1] = utilization_cap_bps'
                              /\ now >= a[2] + TimelockDuration
    /\ min_epoch_duration' # min_epoch_duration =>
         \E a \in duration_asked : /\ a[1] = min_epoch_duration'
                                   /\ now >= a[2] + TimelockDuration

LEMMA TimelockInit == TInit => TimelockInv
  BY DEF TInit, Init, TimelockInv, LockedSince

(* What is neither queued, executed nor cancelled leaves parameters and    *)
(* queue alone, and time never goes back.                                  *)
LEMMA OthersKeepParameters ==
  ASSUME TOther, now \in Nat
  PROVE  UNCHANGED <<paramVars, queueVars, asked>> /\ now' \in {now, now + 1}
<1>1. CASE UserNext
  <2>1. ASSUME NEW u \in Users, NEW a \in Amounts, Deposit(u, a)
        PROVE  UNCHANGED <<now, paramVars, queueVars>>
    BY <2>1, Zenon DEF Deposit
  <2>2. ASSUME NEW u \in Users, NEW a \in Amounts, RequestWithdrawal(u, a)
        PROVE  UNCHANGED <<now, paramVars, queueVars>>
    BY <2>2, Zenon DEF RequestWithdrawal
  <2>3. ASSUME NEW u \in Users, NEW e \in 0..MaxEpoch, NEW m \in Amounts \cup {0},
               ProcessWithdrawal(u, e, m)
        PROVE  UNCHANGED <<now, paramVars, queueVars>>
    BY <2>3, Zenon DEF ProcessWithdrawal
  <2> QED
    BY <1>1, <2>1, <2>2, <2>3 DEF TOther, UserNext
<1>2. CASE EpochNext
  BY <1>2 DEF TOther, EpochNext, AdvanceEpoch, RecordNotionalExposure, CollectPremium, PaySettlement,
     ReconcilePremiumBalance
<1>3. CASE EnvironmentNext
  BY <1>3 DEF TOther, EnvironmentNext, Tick, TransferShares, DonateShares, DonateAssets, TransferPremium
<1>4. CASE \/ \E m \in MarketMakers : AddMarketMaker(m) \/ RemoveMarketMaker(m)
           \/ \E b \in BOOLEAN : SetPause(b)
           \/ CloseVault \/ ForceCloseVault
  BY <1>4 DEF TOther, AddMarketMaker, RemoveMarketMaker, SetPause, CloseVault, ForceCloseVault
<1> QED
  BY <1>1, <1>2, <1>3, <1>4 DEF TOther

LEMMA StepOfOthers ==
  ASSUME TimelockInv, UNCHANGED <<paramVars, queueVars, asked>>, now' \in {now, now + 1}
  PROVE  TimelockInv' /\ LockStep
<1>1. /\ UNCHANGED <<utilization_cap_bps, min_epoch_duration, cap_asked, duration_asked>>
      /\ UNCHANGED <<pending_utilization_cap, pending_min_epoch_duration, param_change_unlock_time>>
  BY DEF paramVars, queueVars, asked
<1> QED
  BY <1>1 DEF TimelockInv, LockedSince, LockStep

(* The call sets the unlock time anew, for what it does not touch as well. *)
LEMMA QueueStep ==
  ASSUME TimelockInv, TQueue
  PROVE  TimelockInv' /\ LockStep
<1> PICK d \in Options(Durations), c \in Options(Caps) :
        /\ QueueParamChange(d, c)
        /\ duration_asked' = Asked(d, duration_asked)
        /\ cap_asked' = Asked(c, cap_asked)
  BY DEF TQueue
<1>1. /\ now' = now /\ UNCHANGED <<utilization_cap_bps, min_epoch_duration>>
      /\ param_change_unlock_time' = now + TimelockDuration
  BY DEF QueueParamChange, UnlockTime, paramVars
<1>2. /\ d = {} \/ \E x \in Nat : d = {x}
      /\ c = {} \/ \E x \in Nat : c = {x}
  BY ConstantsOK DEF Options
<1>3. ASSUME NEW pending, NEW pending2, NEW asked_for, NEW new, LockedSince(pending, asked_for),
             pending \in Nat, new = {} \/ \E x \in Nat : new = {x},
             pending2 \in IF new = {} THEN {pending} ELSE new
      PROVE  /\ pending2 \in Nat
             /\ pending2 > 0 => \E a \in Asked(new, asked_for) :
                   /\ a[1] = pending2
                   /\ a[2] \in Nat /\ a[2] <= now
                   /\ a[2] + TimelockDuration <= now + TimelockDuration
  <2>1. CASE new = {}
    BY <1>3, <2>1, ConstantsOK DEF Asked, LockedSince, TimelockInv
  <2>2. CASE new # {}
    <3>1. PICK x \in Nat : new = {x}
      BY <1>3, <2>2
    <3>2. pending2 = x /\ Asked(new, asked_for) = {<<x, now>>}
      BY <1>3, <2>2, <3>1 DEF Asked
    <3>3. <<x, now>> \in Asked(new, asked_for)
      BY <3>2
    <3>4. <<x, now>>[1] = x /\ <<x, now>>[2] = now /\ now \in Nat
      BY DEF TimelockInv
    <3> QED
      BY <3>1, <3>2, <3>3, <3>4, ConstantsOK
  <2> QED
    BY <2>1, <2>2
<1>4. /\ pending_utilization_cap' \in IF c = {} THEN {pending_utilization_cap} ELSE c
      /\ pending_min_epoch_duration' \in IF d = {} THEN {pending_min_epoch_duration} ELSE d
  BY DEF QueueParamChange
<1>5. TimelockInv'
  <2> DEFINE Locked(pending, asked_for) ==
                 /\ pending \in Nat
                 /\ pending > 0 => \E a \in asked_for :
                       /\ a[1] = pending
                       /\ a[2] \in Nat /\ a[2] <= now
                       /\ a[2] + TimelockDuration <= now + TimelockDuration
  <2>1. Locked(pending_utilization_cap', cap_asked')
    <3>1. LockedSince(pending_utilization_cap, cap_asked) /\ pending_utilization_cap \in Nat
      BY DEF TimelockInv
    <3>2. Locked(pending_utilization_cap', Asked(c, cap_asked))
      BY <1>2, <1>3, <1>4, <3>1
    <3> QED
      BY <3>2
  <2>2. Locked(pending_min_epoch_duration', duration_asked')
    <3>1. LockedSince(pending_min_epoch_duration, duration_asked) /\ pending_min_epoch_duration \in Nat
      BY DEF TimelockInv
    <3>2. Locked(pending_min_epoch_duration', Asked(d, duration_asked))
      BY <1>2, <1>3, <1>4, <3>1
    <3> QED
      BY <3>2
  <2> QED
    BY <1>1, <2>1, <2>2, ConstantsOK DEF TimelockInv, LockedSince
<1> QED
  BY <1>1, <1>5 DEF LockStep

LEMMA ExecuteOrCancelStep ==
  ASSUME TimelockInv, TExecuteOrCancel
  PROVE  TimelockInv' /\ LockStep
<1>1. CASE ExecuteParamChange
  <2>1. TimelockInv'
    BY <1>1 DEF ExecuteParamChange, TimelockInv, LockedSince
  <2>2. now >= param_change_unlock_time
    BY <1>1 DEF ExecuteParamChange
  <2>3. utilization_cap_bps' # utilization_cap_bps =>
          pending_utilization_cap > 0 /\ utilization_cap_bps' = pending_utilization_cap
    BY <1>1 DEF ExecuteParamChange
  <2>4. min_epoch_duration' # min_epoch_duration =>
          pending_min_epoch_duration > 0 /\ min_epoch_duration' = pending_min_epoch_duration
    BY <1>1 DEF ExecuteParamChange
  <2> QED
    BY <2>1, <2>2, <2>3, <2>4, ConstantsOK DEF TimelockInv, LockedSince, LockStep
<1>2. CASE CancelParamChange
  BY <1>2 DEF CancelParamChange, paramVars, TimelockInv, LockedSince, LockStep
<1> QED
  BY <1>1, <1>2 DEF TExecuteOrCancel

LEMMA TimelockNext ==
  ASSUME TimelockInv, [TNext]_<<vars, asked>>
  PROVE  TimelockInv' /\ LockStep
<1>1. CASE TNext
  BY <1>1, QueueStep, ExecuteOrCancelStep, OthersKeepParameters, StepOfOthers
  DEF TNext, TimelockInv
<1>2. CASE UNCHANGED <<vars, asked>>
  BY <1>2, StepOfOthers DEF vars
<1> QED
  BY <1>1, <1>2

(* queue_param_change, execute_param_change: whatever is queued, queued    *)
(* again for the other parameter and cancelled, no parameter takes a value *)
(* that was not the last asked for, a whole timelock ago.                  *)
THEOREM TimelockHolds == TSpec => TimelockRespected
<1>1. TInit => TimelockInv
  BY TimelockInit
<1>2. TimelockInv /\ [TNext]_<<vars, asked>> => TimelockInv'
  BY TimelockNext
<1>3. TimelockInv /\ [TNext]_<<vars, asked>> => [LockStep]_<<vars, asked>>
  BY TimelockNext
<1>4. TInit /\ [][TNext]_<<vars, asked>> => [][LockStep]_<<vars, asked>>
  BY <1>1, <1>2, <1>3, PTL
<1>5. TimelockRespected <=> [][LockStep]_<<vars, asked>>
  BY DEF TimelockRespected, LockStep
<1> QED
  BY <1>4, <1>5, PTL DEF TSpec
=============================================================================
