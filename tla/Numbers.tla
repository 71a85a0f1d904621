-------------------------------- MODULE Numbers --------------------------------
(***************************************************************************)
(* Lemmas about numbers that the proofs of several modules need.           *)
(***************************************************************************)
EXTENDS Integers, WellFoundedInduction, TLAPS

(* Rounding down: a \div b is the largest q with q * b <= a. *)
LEMMA DivBounds ==
  ASSUME NEW a \in Nat, NEW b \in Nat, b > 0
  PROVE  /\ a \div b \in Nat
         /\ (a \div b) * b <= a
         /\ a < (a \div b + 1) * b
OBVIOUS

(* A set of numbers has a smallest one, and a bounded one a greatest.      *)
LEMMA SomeSmallest ==
  ASSUME NEW S \in SUBSET Nat, S # {}
  PROVE  \E x \in S : \A y \in S : x <= y
<1> DEFINE R == {p \in Nat \X Nat : p[1] < p[2]}
<1>1. R = OpToRel(<, Nat)
  BY Zenon DEF OpToRel
<1>2. IsWellFoundedOn(R, Nat)
  BY <1>1, NatLessThanWellFounded, Zenon
<1>3. PICK x \in S : \A y \in S : ~ (<<y, x>> \in R)
  BY <1>2, WFMin
<1>4. ASSUME NEW y \in S PROVE ~ (y < x)
  <2>1. <<y, x>> \notin R
    BY <1>3
  <2>2. <<y, x>> \in Nat \X Nat
    OBVIOUS
  <2> QED BY <2>1, <2>2
<1> QED BY <1>4

LEMMA SomeGreatest ==
  ASSUME NEW n \in Nat, NEW S \in SUBSET (0..n), S # {}
  PROVE  \E x \in S : \A y \in S : y <= x
<1> DEFINE T == {n - x : x \in S}
<1>1. T \in SUBSET Nat /\ T # {}
  <2>1. \A x \in S : n - x \in Nat
    OBVIOUS
  <2> QED
    BY <2>1, Zenon
<1> HIDE DEF T
<1>2. PICK t \in T : \A y \in T : t <= y
  BY <1>1, SomeSmallest
<1> USE DEF T
<1>3. PICK x \in S : t = n - x
  OBVIOUS
<1>4. ASSUME NEW y \in S PROVE y <= x
  <2>1. n - y \in T
    OBVIOUS
  <2> HIDE DEF T
  <2>2. t <= n - y
    BY <1>2, <2>1
  <2>3. x \in 0..n /\ y \in 0..n
    OBVIOUS
  <2> QED
    BY <1>3, <2>2, <2>3
<1> HIDE DEF T
<1> QED
  BY <1>4

(* Multiplication keeps the order.                                         *)
LEMMA TimesMonotonic ==
  ASSUME NEW a \in Int, NEW b \in Int, NEW c \in Nat, a <= b
  PROVE  a * c <= b * c /\ (a + 1) * c = a * c + c
<1>1. (b - a) * c >= 0
  OBVIOUS
<1>2. (b - a) * c = b * c - a * c
  OBVIOUS
<1>3. (a + 1) * c = a * c + c
  OBVIOUS
<1>4. a * c \in Int /\ b * c \in Int
  OBVIOUS
<1> QED
  BY <1>1, <1>2, <1>3, <1>4

(* Finitely many numbers have a bound.                                     *)
LEMMA SomeBound ==
  ASSUME NEW f, NEW n \in Nat, \A i \in 1..n : f[i] \in Nat
  PROVE  \E m \in Nat : \A i \in 1..n : f[i] <= m
<1> DEFINE Bounded(k) == \E m \in Nat : \A i \in 1..k : f[i] <= m
           S == {k \in 0..n : ~Bounded(k)}
<1> SUFFICES ASSUME ~Bounded(n) PROVE FALSE
  OBVIOUS
<1>1. S \in SUBSET Nat /\ S # {}
  OBVIOUS
<1>2. PICK k \in S : \A j \in S : k <= j
  <2> HIDE DEF S
  <2> QED BY <1>1, SomeSmallest
<1>3. Bounded(0)
  OBVIOUS
<1>4. k - 1 \in 0..n /\ k \in 1..n
  <2> HIDE DEF Bounded
  <2> QED BY <1>2, <1>3
<1>5. Bounded(k - 1)
  <2> HIDE DEF Bounded
  <2> QED BY <1>2, <1>4
<1>6. PICK m \in Nat : \A i \in 1..(k - 1) : f[i] <= m
  BY <1>5
<1>7. f[k] \in Nat
  BY <1>4
<1>8. PICK h \in Nat : h >= m /\ h >= f[k]
  <2>1. CASE m <= f[k]
    BY <1>7, <2>1
  <2>2. CASE f[k] <= m
    BY <1>7, <2>2
  <2> QED
    BY <1>7, <2>1, <2>2
<1>9. \A i \in 1..k : f[i] <= h
  <2> SUFFICES ASSUME NEW i \in 1..k PROVE f[i] <= h
    OBVIOUS
  <2>1. i \in 1..n /\ (i = k \/ i \in 1..(k - 1))
    BY <1>4
  <2>2. f[i] \in Nat
    BY <2>1
  <2> QED
    BY <1>6, <1>8, <2>1, <2>2
<1> QED
  BY <1>2, <1>9

(* a \div b is the largest quotient: what does not multiply beyond a.     *)
LEMMA DivLeast ==
  ASSUME NEW a \in Int, NEW b \in Nat, b > 0, NEW q \in Int
  PROVE  /\ a \div b \in Int
         /\ q <= a \div b <=> q * b <= a
<1>1. a \div b \in Int /\ (a \div b) * b <= a /\ a < (a \div b + 1) * b
  OBVIOUS
<1>2. q <= a \div b => q * b <= (a \div b) * b
  BY <1>1, TimesMonotonic
<1>3. a \div b + 1 <= q => (a \div b + 1) * b <= q * b
  BY <1>1, TimesMonotonic
<1>4. q * b \in Int /\ (a \div b) * b \in Int /\ (a \div b + 1) * b \in Int
  BY <1>1
<1> DEFINE d == a \div b
<1> HIDE DEF d
<1> QED
  BY <1>1, <1>2, <1>3, <1>4 DEF d

LEMMA ModIs ==
  ASSUME NEW a \in Nat, NEW b \in Nat, b > 0
  PROVE  a % b \in Nat /\ a % b < b /\ a - (a % b) = (a \div b) * b
OBVIOUS

LEMMA TimesPositive ==
  ASSUME NEW a \in Nat \ {0}, NEW b \in Nat \ {0}
  PROVE  a * b \in Nat \ {0}
OBVIOUS

(* What holds at 0 and passes from each number to the next holds up to n.  *)
LEMMA InductionUpTo ==
  ASSUME NEW n \in Nat, NEW P, 0 \in P, \A i \in 0..(n - 1) : i \in P => i + 1 \in P
  PROVE  \A i \in 0..n : i \in P
<1> DEFINE S == {i \in 0..n : i \notin P}
<1> SUFFICES ASSUME S # {} PROVE FALSE
  OBVIOUS
<1>1. S \in SUBSET Nat
  OBVIOUS
<1>2. PICK k \in S : \A j \in S : k <= j
  <2> HIDE DEF S
  <2> QED BY <1>1, SomeSmallest
<1>3. k # 0 /\ k - 1 \in 0..(n - 1) /\ k - 1 \in 0..n /\ ~(k <= k - 1) /\ k - 1 + 1 = k
  BY <1>2
<1>4. k - 1 \in P
  BY <1>2, <1>3
<1> QED
  BY <1>2, <1>3, <1>4

(* A recursion over 1..n whose steps stay in a set D has a solution.       *)
Steps(n, D) == [(1..n) \X D -> D]
Solves(f, n, D, first, step) ==
    /\ f \in [0..n -> D]
    /\ f[0] = first /\ \A i \in 1..n : f[i] = step[<<i, f[i - 1]>>]

LEMMA RecursionExists ==
  ASSUME NEW n \in Nat, NEW D, NEW first \in D, NEW step, step \in Steps(n, D)
  PROVE  \E f : Solves(f, n, D, first, step)
<1> USE DEF Steps, Solves
<1> DEFINE Upto(k) == \E f \in [0..k -> D] :
                        f[0] = first /\ \A i \in 1..k : f[i] = step[<<i, f[i - 1]>>]
           P == {k \in 0..n : Upto(k)}
<1>1. 0 \in P
  <2> DEFINE f == [i \in 0..0 |-> first]
  <2>1. f \in [0..0 -> D] /\ f[0] = first /\ \A i \in 1..0 : f[i] = step[<<i, f[i - 1]>>]
    OBVIOUS
  <2> HIDE DEF f
  <2>2. Upto(0)
    BY <2>1
  <2> QED
    BY <2>2
<1>2. ASSUME NEW k \in 0..(n - 1), k \in P PROVE k + 1 \in P
  <2>1. PICK g \in [0..k -> D] : g[0] = first /\ \A i \in 1..k : g[i] = step[<<i, g[i - 1]>>]
    BY <1>2
  <2> DEFINE f == [i \in 0..(k + 1) |-> IF i = k + 1 THEN step[<<k + 1, g[k]>>] ELSE g[i]]
  <2>2. k \in Nat /\ k + 1 \in 1..n /\ k \in 0..k /\ 0 \in 0..k /\ k + 1 # 0
    BY <1>2
  <2>3. step[<<k + 1, g[k]>>] \in D
    BY <2>1, <2>2
  <2>4. \A i \in 0..k : f[i] = g[i] /\ i \in 0..(k + 1)
    BY <2>2
  <2>5. f[k + 1] = step[<<k + 1, g[k]>>] /\ k + 1 \in 0..(k + 1)
    BY <2>2
  <2>6. f \in [0..(k + 1) -> D]
    <3>1. \A i \in 0..(k + 1) : i = k + 1 \/ i \in 0..k
      BY <2>2
    <3> QED
      BY <2>1, <2>3, <3>1
  <2>7. \A i \in 1..(k + 1) : i = k + 1 \/ (i \in 1..k /\ i \in 0..k /\ i - 1 \in 0..k)
    BY <2>2
  <2>8. k + 1 - 1 = k
    BY <2>2
  <2> HIDE DEF f
  <2>9. f[0] = first
    BY <2>1, <2>2, <2>4
  <2>10. \A i \in 1..(k + 1) : f[i] = step[<<i, f[i - 1]>>]
    BY <2>1, <2>2, <2>4, <2>5, <2>7, <2>8
  <2>11. Upto(k + 1)
    BY <2>6, <2>9, <2>10
  <2> HIDE DEF Upto
  <2> QED
    BY <2>2, <2>11
<1> HIDE DEF Upto
<1>3. \A i \in 0..n : i \in P
  <2> HIDE DEF P
  <2> QED BY <1>1, <1>2, InductionUpTo
<1>4. Upto(n)
  BY <1>3
<1> QED
  BY <1>4 DEF Upto

(* ... and no other.                                                       *)
Follows(g, n, f) ==
    /\ g = [i \in 0..n |-> g[i]]
    /\ g[0] = f[0] /\ \A i \in 1..n : g[i - 1] = f[i - 1] => g[i] = f[i]

LEMMA RecursionUnique ==
  ASSUME NEW n \in Nat, NEW D, NEW first, NEW step, NEW f, Solves(f, n, D, first, step),
         NEW g, Follows(g, n, f)
  PROVE  g = f
<1> USE DEF Solves, Follows
<1> DEFINE P == {i \in 0..n : g[i] = f[i]}
<1>1. 0 \in P
  OBVIOUS
<1>2. ASSUME NEW i \in 0..(n - 1), i \in P PROVE i + 1 \in P
  <2> DEFINE k == i + 1
  <2>1. k \in 1..n /\ k \in 0..n /\ k - 1 = i
    OBVIOUS
  <2> HIDE DEF k
  <2>2. g[k - 1] = f[k - 1]
    BY <1>2, <2>1
  <2>3. g[k] = f[k]
    BY <2>1, <2>2
  <2>4. k \in P
    BY <2>1, <2>3
  <2> QED
    BY <2>4 DEF k
<1>3. \A i \in 0..n : i \in P
  <2> HIDE DEF P
  <2> QED BY <1>1, <1>2, InductionUpTo
<1>4. \A i \in 0..n : g[i] = f[i]
  BY <1>3
<1> QED
  BY <1>4
=============================================================================
