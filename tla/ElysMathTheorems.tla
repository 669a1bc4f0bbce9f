-------------------------- MODULE ElysMathTheorems --------------------------
(***************************************************************************)
(* Facts about the arithmetic of ElysMath: what RoundInt returns, and how  *)
(* a sum over numbered accounts changes when one account does.  The facts  *)
(* about sums are proved by induction on the number of accounts, in the    *)
(* form of SetInduction.                                                   *)
(***************************************************************************)
EXTENDS ElysMath, WellFoundedInduction, TLAPS

(***************************************************************************)
(* Induction over the naturals, for a set of naturals: the smallest number *)
(* outside it would have its predecessor in it.                            *)
(***************************************************************************)
LEMMA SetInduction ==
  ASSUME NEW S, 0 \in S, \A n \in Nat : n \in S => n + 1 \in S
  PROVE  Nat \subseteq S
<1> DEFINE T == Nat \ S
           R == OpToRel(<, Nat)
<1>1. SUFFICES ASSUME T # {} PROVE FALSE
  OBVIOUS
<1>2. IsWellFoundedOn(R, Nat)
  BY NatLessThanWellFounded, Zenon DEF R
<1> HIDE DEF R
<1>3. PICK x \in T : \A y \in T : ~ (<<y, x>> \in R)
  BY <1>1, <1>2, WFMin, Zenon
<1>4. \A y \in T : ~(y < x)
  BY <1>3, Zenon DEF R, OpToRel
<1>5. x \in Nat /\ x # 0 /\ x - 1 \in Nat
  OBVIOUS
<1>6. x - 1 \in S
  BY <1>4, <1>5
<1> QED
  BY <1>5, <1>6

(***************************************************************************)
(* f is the function of the prefix sums of g up to n.                      *)
(***************************************************************************)
PrefixSumOf(f, g, n) ==
  /\ f \in [0 .. n -> Int]
  /\ f[0] = 0
  /\ \A i \in 1 .. n : f[i] = f[i-1] + g[i]

(***************************************************************************)
(* Prefix sums exist, by induction on n.                                   *)
(***************************************************************************)
LEMMA PrefixSumExists ==
  ASSUME NEW N \in Nat, NEW g \in [1 .. N -> Int]
  PROVE  \E f : PrefixSumOf(f, g, N)
<1> DEFINE S == {n \in Nat : n <= N => \E f : PrefixSumOf(f, g, n)}
<1>1. 0 \in S
  <2> DEFINE z == [i \in 0 .. 0 |-> 0]
  <2>1. PrefixSumOf(z, g, 0)
    BY DEF PrefixSumOf
  <2> QED BY <2>1
<1>2. ASSUME NEW n \in Nat, n \in S PROVE n + 1 \in S
  <2>1. CASE n + 1 > N
    BY <2>1
  <2>2. CASE n + 1 <= N
    <3>1. PICK f : PrefixSumOf(f, g, n)
      BY <1>2, <2>2
    <3> DEFINE h == [i \in 0 .. n+1 |-> IF i = n+1 THEN f[n] + g[n+1] ELSE f[i]]
    <3>2. f \in [0 .. n -> Int] /\ f[0] = 0 /\ \A i \in 1 .. n : f[i] = f[i-1] + g[i]
      BY <3>1 DEF PrefixSumOf
    <3>3. f[n] + g[n+1] \in Int
      BY <2>2, <3>2
    <3>4. h \in [0 .. n+1 -> Int] /\ h[0] = 0
      BY <3>2, <3>3
    <3>5. ASSUME NEW i \in 1 .. n+1 PROVE h[i] = h[i-1] + g[i]
      <4>1. CASE i = n + 1
        BY <4>1
      <4>2. CASE i # n + 1
        <5>1. i \in 1 .. n /\ h[i] = f[i] /\ h[i-1] = f[i-1]
          BY <4>2
        <5> QED BY <3>2, <5>1
      <4> QED BY <4>1, <4>2
    <3>6. PrefixSumOf(h, g, n+1)
      <4> HIDE DEF h
      <4> QED BY <3>4, <3>5 DEF PrefixSumOf
    <3> QED BY <3>6
  <2> QED BY <2>1, <2>2
<1>3. Nat \subseteq S
  <2> HIDE DEF S
  <2> QED BY <1>1, <1>2, SetInduction
<1> QED BY <1>3

(***************************************************************************)
(* The recursive function PrefixSum computes them.                         *)
(***************************************************************************)
LEMMA PrefixSumDef ==
  ASSUME NEW N \in Nat, NEW g \in [1 .. N -> Int]
  PROVE  PrefixSumOf(PrefixSum(g, N), g, N)
<1>1. PICK f : PrefixSumOf(f, g, N)
  BY PrefixSumExists
<1>2. f = [i \in 0 .. N |-> IF i = 0 THEN 0 ELSE f[i-1] + g[i]]
  BY <1>1 DEF PrefixSumOf
<1> DEFINE P == PrefixSum(g, N)
<1>3. P = [i \in 0 .. N |-> IF i = 0 THEN 0 ELSE P[i-1] + g[i]]
  BY <1>2, Zenon DEF PrefixSum
<1> HIDE DEF P
<1> DEFINE S == {n \in Nat : n <= N => P[n] \in Int}
<1>4. 0 \in S
  BY <1>3
<1>5. \A n \in Nat : n \in S => n + 1 \in S
  BY <1>3
<1>6. Nat \subseteq S
  <2> HIDE DEF S
  <2> QED BY <1>4, <1>5, SetInduction
<1>7. P \in [0 .. N -> Int]
  <2>1. \A i \in 0 .. N : P[i] \in Int
    BY <1>6
  <2>2. P = [i \in 0 .. N |-> P[i]]
    BY <1>3
  <2> QED BY <2>1, <2>2
<1>8. PrefixSumOf(P, g, N)
  BY <1>3, <1>7 DEF PrefixSumOf
<1> QED BY <1>8 DEF P

(***************************************************************************)
(* A sum of integers is an integer.                                        *)
(***************************************************************************)
LEMMA SumInt ==
  ASSUME NEW N \in Nat, NEW g \in [1 .. N -> Int]
  PROVE  Sum(g, N) \in Int
BY PrefixSumDef DEF PrefixSumOf, Sum

(***************************************************************************)
(* When one account of a ledger changes, its total changes by the same     *)
(* amount.                                                                 *)
(***************************************************************************)
LEMMA SumUpdate ==
  ASSUME NEW N \in Nat, NEW g \in [1 .. N -> Int],
         NEW h \in [1 .. N -> Int], NEW b \in 1 .. N,
         \A i \in 1 .. N : i # b => h[i] = g[i]
  PROVE  Sum(h, N) = Sum(g, N) + h[b] - g[b]
<1> DEFINE G == PrefixSum(g, N)
           H == PrefixSum(h, N)
<1>1. PrefixSumOf(G, g, N) /\ PrefixSumOf(H, h, N)
  BY PrefixSumDef
<1> HIDE DEF G, H
<1> DEFINE S == {n \in Nat : n <= N => H[n] = G[n] + (IF n >= b THEN h[b] - g[b] ELSE 0)}
<1>2. 0 \in S
  BY <1>1 DEF PrefixSumOf
<1>3. ASSUME NEW n \in Nat, n \in S PROVE n + 1 \in S
  <2>1. SUFFICES ASSUME n + 1 <= N
                 PROVE  H[n+1] = G[n+1] + (IF n + 1 >= b THEN h[b] - g[b] ELSE 0)
    OBVIOUS
  <2>2. n + 1 \in 1 .. N /\ (n + 1) - 1 = n /\ n \in 0 .. N
    BY <2>1
  <2>3. H[n+1] = H[n] + h[n+1] /\ G[n+1] = G[n] + g[n+1]
    BY <1>1, <2>2 DEF PrefixSumOf
  <2>4. H[n] = G[n] + (IF n >= b THEN h[b] - g[b] ELSE 0)
    BY <1>3, <2>1
  <2>5. H[n] \in Int /\ G[n] \in Int /\ h[n+1] \in Int /\ g[n+1] \in Int
    BY <1>1, <2>2 DEF PrefixSumOf
  <2>6. CASE n + 1 = b
    <3>1. H[n] = G[n]
      BY <2>4, <2>5, <2>6
    <3>2. h[n+1] = h[b] /\ g[n+1] = g[b]
      BY <2>6
    <3> QED BY <2>3, <2>5, <2>6, <3>1, <3>2
  <2>7. CASE n + 1 # b
    <3>1. h[n+1] = g[n+1] /\ h[b] \in Int /\ g[b] \in Int
      BY <2>2, <2>7
    <3>2. CASE n >= b
      <4>1. H[n] = G[n] + (h[b] - g[b])
        BY <2>4, <3>2
      <4>2. H[n+1] = G[n+1] + (h[b] - g[b])
        BY <2>3, <2>5, <3>1, <4>1
      <4> QED BY <3>2, <4>2
    <3>3. CASE n < b
      <4>1. H[n] = G[n] /\ n + 1 < b
        BY <2>4, <2>5, <2>7, <3>3
      <4> QED BY <2>3, <2>5, <3>1, <4>1
    <3> QED BY <3>2, <3>3
  <2> QED BY <2>6, <2>7
<1>4. Nat \subseteq S
  <2> HIDE DEF S
  <2> QED BY <1>2, <1>3, SetInduction
<1>5. H[N] = G[N] + (IF N >= b THEN h[b] - g[b] ELSE 0)
  BY <1>4
<1>6. G[N] \in Int /\ h[b] \in Int /\ g[b] \in Int
  BY <1>1 DEF PrefixSumOf
<1> QED BY <1>5, <1>6 DEF Sum, G, H

(***************************************************************************)
(* A total of natural amounts is natural and at least each of them.        *)
(***************************************************************************)
LEMMA SumBound ==
  ASSUME NEW N \in Nat, NEW g \in [1 .. N -> Nat]
  PROVE  /\ Sum(g, N) \in Nat
         /\ \A b \in 1 .. N : g[b] <= Sum(g, N)
<1> DEFINE G == PrefixSum(g, N)
<1>1. PrefixSumOf(G, g, N)
  BY PrefixSumDef
<1> HIDE DEF G
<1> DEFINE S == {n \in Nat : n <= N => G[n] >= 0 /\ \A b \in 1 .. n : g[b] <= G[n]}
<1>2. 0 \in S
  BY <1>1 DEF PrefixSumOf
<1>3. ASSUME NEW n \in Nat, n \in S PROVE n + 1 \in S
  <2>1. SUFFICES ASSUME n + 1 <= N
                 PROVE  G[n+1] >= 0 /\ \A b \in 1 .. n+1 : g[b] <= G[n+1]
    OBVIOUS
  <2>2. n + 1 \in 1 .. N /\ (n + 1) - 1 = n /\ n \in 0 .. N
    BY <2>1
  <2>3. G[n+1] = G[n] + g[n+1] /\ G[n] \in Int /\ g[n+1] \in Nat
    BY <1>1, <2>2 DEF PrefixSumOf
  <2>4. G[n] >= 0 /\ \A b \in 1 .. n : g[b] <= G[n]
    BY <1>3, <2>1
  <2>5. ASSUME NEW b \in 1 .. n+1 PROVE g[b] <= G[n+1]
    <3>1. CASE b = n + 1
      BY <2>3, <2>4, <3>1
    <3>2. CASE b # n + 1
      <4>1. b \in 1 .. n /\ g[b] \in Nat
        BY <2>1, <3>2
      <4> QED BY <2>3, <2>4, <4>1
    <3> QED BY <3>1, <3>2
  <2> QED BY <2>3, <2>4, <2>5
<1>4. Nat \subseteq S
  <2> HIDE DEF S
  <2> QED BY <1>2, <1>3, SetInduction
<1>5. G[N] >= 0 /\ \A b \in 1 .. N : g[b] <= G[N]
  BY <1>4
<1>6. G[N] \in Int
  BY <1>1 DEF PrefixSumOf
<1> QED BY <1>5, <1>6 DEF Sum, G

-----------------------------------------------------------------------------
(***************************************************************************)
(* Products and quotients.                                                 *)
(***************************************************************************)
LEMMA ProductNat ==
  ASSUME NEW a \in Nat, NEW b \in Nat
  PROVE  a * b \in Nat
OBVIOUS

LEMMA ProductMonotone ==
  ASSUME NEW a \in Nat, NEW b \in Int, NEW c \in Int, b <= c
  PROVE  a * b <= a * c
<1>1. a * (c - b) \in Nat
  BY ProductNat
<1> QED BY <1>1

LEMMA CancelFactor ==
  ASSUME NEW k \in Nat \ {0}, NEW x \in Int, NEW y \in Int, k * x <= k * y
  PROVE  x <= y
<1>1. CASE x > y
  <2>1. k * (x - y) >= 1
    BY <1>1
  <2>2. k * (x - y) = k * x - k * y
    OBVIOUS
  <2>3. k * x \in Int /\ k * y \in Int
    OBVIOUS
  <2> QED BY <2>1, <2>2, <2>3
<1> QED BY <1>1

\* A whole part of a natural.
LEMMA TruncateNat ==
  ASSUME NEW n \in Nat, NEW d \in Nat \ {0}
  PROVE  TruncateInt(n, d) \in Nat /\ TruncateInt(n, d) * d <= n
<1> DEFINE q == n \div d
<1>1. q \in Int /\ n = d * q + (n % d) /\ (n % d) \in 0 .. (d - 1)
  OBVIOUS
<1>2. q >= 0
  OBVIOUS
<1>3. q * d <= n
  BY <1>1
<1> QED BY <1>1, <1>2, <1>3 DEF TruncateInt

\* The whole part of a quotient is less than one below it.
LEMMA TruncateBound ==
  ASSUME NEW n \in Int, NEW d \in Nat \ {0}
  PROVE  /\ TruncateInt(n, d) \in Int
         /\ d * TruncateInt(n, d) <= n
         /\ n < d * TruncateInt(n, d) + d
BY DEF TruncateInt

\* It is the largest integer that is not above it.
LEMMA TruncateLargest ==
  ASSUME NEW n \in Nat, NEW d \in Nat \ {0}, NEW x \in Int, d * x <= n
  PROVE  x <= TruncateInt(n, d)
<1> DEFINE q == n \div d
<1>1. q \in Int /\ n = d * q + (n % d) /\ (n % d) \in 0 .. (d - 1)
  OBVIOUS
<1> HIDE DEF q
<1>2. CASE x >= q + 1
  <2>1. d * (q + 1) <= d * x
    BY <1>1, <1>2, ProductMonotone
  <2>2. d * (q + 1) = d * q + d
    BY <1>1
  <2>3. d * q \in Int /\ d * x \in Int
    BY <1>1
  <2> QED BY <1>1, <2>1, <2>2, <2>3
<1>3. x <= q
  BY <1>1, <1>2
<1> QED BY <1>3 DEF TruncateInt, q

\* A quotient rounded up is less than one above it.
LEMMA CeilBound ==
  ASSUME NEW n \in Nat, NEW d \in Nat \ {0}
  PROVE  /\ CeilInt(n, d) \in Nat
         /\ n <= d * CeilInt(n, d)
         /\ d * CeilInt(n, d) < n + d
<1>1. n + d - 1 \in Nat /\ n + d - 1 < d * ((n + d - 1) \div d) + d
  OBVIOUS
<1>2. (n + d - 1) \div d \in Nat /\ d * ((n + d - 1) \div d) <= n + d - 1
  OBVIOUS
<1> QED BY <1>1, <1>2 DEF CeilInt

\* The part n/d of an amount is at most the amount, and less if n/d is.
LEMMA TruncatedPartBound ==
  ASSUME NEW x \in Nat, NEW n \in Nat, NEW d \in Nat \ {0}, n <= d,
         NEW q \in TruncatedPart(x, n, d)
  PROVE  /\ q \in Nat
         /\ q <= x
         /\ d * q <= x * n
<1>1. CASE n = d
  <2>1. q = x
    BY <1>1 DEF TruncatedPart
  <2> QED BY <1>1, <2>1
<1>2. CASE n # d
  <2>1. q >= 0 /\ (q = TruncateInt(x * n - 1, d) \/ q = TruncateInt(x * n, d))
    BY <1>2 DEF TruncatedPart
  <2>2. x * n \in Int /\ x * n - 1 \in Int
    OBVIOUS
  <2>3. q \in Int /\ d * q <= x * n
    <3> DEFINE y == x * n
    <3>1. y \in Int /\ y - 1 \in Int /\ (q = TruncateInt(y - 1, d) \/ q = TruncateInt(y, d))
      BY <2>1, <2>2
    <3> HIDE DEF y
    <3>2. TruncateInt(y, d) \in Int /\ d * TruncateInt(y, d) <= y
      BY <3>1, TruncateBound
    <3>3. TruncateInt(y - 1, d) \in Int /\ d * TruncateInt(y - 1, d) <= y - 1
      BY <3>1, TruncateBound
    <3>4. d * TruncateInt(y - 1, d) \in Int
      BY <3>3
    <3>5. CASE q = TruncateInt(y, d)
      BY <3>2, <3>5 DEF y
    <3>6. CASE q = TruncateInt(y - 1, d)
      <4>1. d * q <= y - 1 /\ d * q \in Int /\ q \in Int
        BY <3>3, <3>4, <3>6
      <4> QED BY <3>1, <4>1 DEF y
    <3> QED BY <3>1, <3>5, <3>6
  <2>4. x * n <= x * d /\ x * d = d * x
    BY <1>2, ProductMonotone
  <2>5. d * q <= d * x
    BY <2>2, <2>3, <2>4
  <2> QED BY <2>1, <2>3, <2>5, CancelFactor
<1> QED BY <1>1, <1>2

(***************************************************************************)
(* RoundInt returns natural numbers within half of the exact quotient;     *)
(* when the quotient is at most m, so is the result.                       *)
(***************************************************************************)
LEMMA RoundIntBound ==
  ASSUME NEW n \in Int, NEW d \in Int, NEW q \in RoundInt(n, d)
  PROVE  /\ q \in Nat
         /\ 2 * (q * d) <= 2 * n + d
         /\ 2 * n <= 2 * (q * d) + d
BY DEF RoundInt

(***************************************************************************)
(* A ledger with nothing in any account has total zero.                    *)
(***************************************************************************)
LEMMA SumZero ==
  ASSUME NEW N \in Nat, NEW g \in [1 .. N -> Int], \A i \in 1 .. N : g[i] = 0
  PROVE  Sum(g, N) = 0
<1> DEFINE G == PrefixSum(g, N)
<1>1. PrefixSumOf(G, g, N)
  BY PrefixSumDef
<1> HIDE DEF G
<1> DEFINE S == {n \in Nat : n <= N => G[n] = 0}
<1>2. 0 \in S
  BY <1>1 DEF PrefixSumOf
<1>3. ASSUME NEW n \in Nat, n \in S PROVE n + 1 \in S
  <2>1. SUFFICES ASSUME n + 1 <= N PROVE G[n+1] = 0
    OBVIOUS
  <2>2. n + 1 \in 1 .. N /\ (n + 1) - 1 = n
    BY <2>1
  <2>3. G[n+1] = G[n] + g[n+1] /\ g[n+1] = 0
    BY <1>1, <2>2 DEF PrefixSumOf
  <2> QED BY <1>3, <2>1, <2>3
<1>4. Nat \subseteq S
  <2> HIDE DEF S
  <2> QED BY <1>2, <1>3, SetInduction
<1> QED BY <1>4 DEF Sum, G

(***************************************************************************)
(* Zero rounds to zero.                                                    *)
(***************************************************************************)
LEMMA RoundIntZero ==
  ASSUME NEW d \in Nat \ {0}, NEW q \in RoundInt(0, d)
  PROVE  q = 0
<1>1. q \in Nat /\ 2 * (q * d) <= d
  BY RoundIntBound
<1>2. q >= 1 => q * d >= d
  BY <1>1
<1>3. q * d \in Nat
  BY <1>1
<1> QED BY <1>1, <1>2, <1>3

LEMMA Distributes ==
  ASSUME NEW a \in Int, NEW x \in Int, NEW y \in Int
  PROVE  a * (x + y) = a * x + a * y /\ a * x \in Int /\ a * y \in Int
OBVIOUS

(***************************************************************************)
(* An inequality between combinations of three ledgers' amounts holds of   *)
(* their totals.                                                           *)
(***************************************************************************)
LEMMA SumCombine ==
  ASSUME NEW N \in Nat, NEW f \in [1 .. N -> Int], NEW g \in [1 .. N -> Int],
         NEW h \in [1 .. N -> Int], NEW a \in Int, NEW b \in Int, NEW c \in Int,
         \A i \in 1 .. N : a * f[i] <= b * g[i] + c * h[i]
  PROVE  a * Sum(f, N) <= b * Sum(g, N) + c * Sum(h, N)
<1> DEFINE F == PrefixSum(f, N)
           G == PrefixSum(g, N)
           H == PrefixSum(h, N)
<1>1. PrefixSumOf(F, f, N) /\ PrefixSumOf(G, g, N) /\ PrefixSumOf(H, h, N)
  BY PrefixSumDef
<1> HIDE DEF F, G, H
<1> DEFINE S == {n \in Nat : n <= N => a * F[n] <= b * G[n] + c * H[n]}
<1>2. 0 \in S
  BY <1>1 DEF PrefixSumOf
<1>3. ASSUME NEW n \in Nat, n \in S PROVE n + 1 \in S
  <2>1. SUFFICES ASSUME n + 1 <= N PROVE a * F[n+1] <= b * G[n+1] + c * H[n+1]
    OBVIOUS
  <2>2. n + 1 \in 1 .. N /\ (n + 1) - 1 = n /\ n \in 0 .. N
    BY <2>1
  <2>3. F[n+1] = F[n] + f[n+1] /\ G[n+1] = G[n] + g[n+1] /\ H[n+1] = H[n] + h[n+1]
    BY <1>1, <2>2 DEF PrefixSumOf
  <2>4. /\ F[n] \in Int /\ G[n] \in Int /\ H[n] \in Int
        /\ f[n+1] \in Int /\ g[n+1] \in Int /\ h[n+1] \in Int
    BY <1>1, <2>2 DEF PrefixSumOf
  <2>5. a * F[n] <= b * G[n] + c * H[n] /\ a * f[n+1] <= b * g[n+1] + c * h[n+1]
    BY <1>3, <2>1, <2>2
  <2>6. /\ a * (F[n] + f[n+1]) = a * F[n] + a * f[n+1]
        /\ a * F[n] \in Int /\ a * f[n+1] \in Int
    <3>1. \A x, y \in Int : a * (x + y) = a * x + a * y /\ a * x \in Int /\ a * y \in Int
      BY Distributes
    <3> QED BY <2>4, <3>1, Zenon
  <2>7. /\ b * (G[n] + g[n+1]) = b * G[n] + b * g[n+1]
        /\ b * G[n] \in Int /\ b * g[n+1] \in Int
    <3>1. \A x, y \in Int : b * (x + y) = b * x + b * y /\ b * x \in Int /\ b * y \in Int
      BY Distributes
    <3> QED BY <2>4, <3>1, Zenon
  <2>8. /\ c * (H[n] + h[n+1]) = c * H[n] + c * h[n+1]
        /\ c * H[n] \in Int /\ c * h[n+1] \in Int
    <3>1. \A x, y \in Int : c * (x + y) = c * x + c * y /\ c * x \in Int /\ c * y \in Int
      BY Distributes
    <3> QED BY <2>4, <3>1, Zenon
  <2> DEFINE x1 == a * F[n]
             x2 == a * f[n+1]
             y1 == b * G[n]
             y2 == b * g[n+1]
             z1 == c * H[n]
             z2 == c * h[n+1]
  <2>9. x1 + x2 <= (y1 + y2) + (z1 + z2)
    <3>1. x1 <= y1 + z1 /\ x2 <= y2 + z2
      BY <2>5
    <3>2. x1 \in Int /\ x2 \in Int /\ y1 \in Int /\ y2 \in Int /\ z1 \in Int /\ z2 \in Int
      BY <2>6, <2>7, <2>8
    <3> HIDE DEF x1, x2, y1, y2, z1, z2
    <3> QED BY <3>1, <3>2
  <2> QED BY <2>3, <2>6, <2>7, <2>8, <2>9
<1>4. Nat \subseteq S
  <2> HIDE DEF S
  <2> QED BY <1>2, <1>3, SetInduction
<1>5. a * F[N] <= b * G[N] + c * H[N]
  BY <1>4
<1> QED BY <1>5 DEF Sum, F, G, H

LEMMA SumGrow ==
  ASSUME NEW N \in Nat, NEW f \in [1 .. N -> Int], NEW g \in [1 .. N -> Int],
         NEW h \in [1 .. N -> Int], NEW k \in Int,
         \A i \in 1 .. N : f[i] <= g[i] + k * h[i]
  PROVE  Sum(f, N) <= Sum(g, N) + k * Sum(h, N)
<1>1. \A i \in 1 .. N : 1 * f[i] <= 1 * g[i] + k * h[i]
  <2> TAKE i \in 1 .. N
  <2>1. f[i] \in Int /\ g[i] \in Int /\ f[i] <= g[i] + k * h[i]
    OBVIOUS
  <2>2. 1 * f[i] = f[i] /\ 1 * g[i] = g[i]
    BY <2>1
  <2> QED BY <2>1, <2>2
<1>2. 1 \in Int
  OBVIOUS
<1>3. 1 * Sum(f, N) <= 1 * Sum(g, N) + k * Sum(h, N)
  BY <1>1, <1>2, SumCombine, Zenon
<1>4. Sum(f, N) \in Int /\ Sum(g, N) \in Int
  BY SumInt
<1>5. 1 * Sum(f, N) = Sum(f, N) /\ 1 * Sum(g, N) = Sum(g, N)
  BY <1>4
<1> QED BY <1>3, <1>5

(***************************************************************************)
(* When every account is the sum of two others, so is the total.           *)
(***************************************************************************)
LEMMA SumAdd ==
  ASSUME NEW N \in Nat, NEW f \in [1 .. N -> Int], NEW g \in [1 .. N -> Int],
         NEW h \in [1 .. N -> Int], \A i \in 1 .. N : f[i] = g[i] + h[i]
  PROVE  Sum(f, N) = Sum(g, N) + Sum(h, N)
<1>1. ASSUME NEW i \in 1 .. N
      PROVE  f[i] <= g[i] + 1 * h[i] /\ g[i] <= f[i] + (-1) * h[i]
  <2>1. f[i] = g[i] + h[i] /\ g[i] \in Int /\ h[i] \in Int
    OBVIOUS
  <2> QED BY <2>1
<1>2. 1 \in Int /\ -1 \in Int
  OBVIOUS
<1>3. Sum(f, N) <= Sum(g, N) + 1 * Sum(h, N)
  BY <1>1, <1>2, SumGrow, Zenon
<1>4. Sum(g, N) <= Sum(f, N) + (-1) * Sum(h, N)
  BY <1>1, <1>2, SumGrow, Zenon
<1>5. Sum(f, N) \in Int /\ Sum(g, N) \in Int /\ Sum(h, N) \in Int
  BY SumInt
<1>6. \A x, y, z \in Int : x <= y + 1 * z /\ y <= x + (-1) * z => x = y + z
  OBVIOUS
<1> QED BY <1>3, <1>4, <1>5, <1>6

(***************************************************************************)
(* Entries that each belong to one account: the accounts' totals add up to *)
(* the total of the entries.                                               *)
(***************************************************************************)
LEMMA SumPartition ==
  ASSUME NEW N \in Nat, NEW M \in Nat, NEW w \in [1 .. N -> Int],
         NEW at \in [1 .. N -> 1 .. M]
  PROVE  Sum([p \in 1 .. M |-> Sum([i \in 1 .. N |-> IF at[i] = p THEN w[i] ELSE 0], N)], M)
           = Sum(w, N)
<1> DEFINE part(p) == [i \in 1 .. N |-> IF at[i] = p THEN w[i] ELSE 0]
           P(p) == PrefixSum(part(p), N)
           W == PrefixSum(w, N)
           row(n) == [p \in 1 .. M |-> P(p)[n]]
<1>1. \A p : /\ part(p) \in [1 .. N -> Int]
              /\ \A i \in 1 .. N : part(p)[i] = IF at[i] = p THEN w[i] ELSE 0
  OBVIOUS
<1>2. \A p : PrefixSumOf(P(p), part(p), N)
  <2> TAKE p
  <2>1. part(p) \in [1 .. N -> Int]
    BY <1>1
  <2> HIDE DEF part
  <2> QED BY <2>1, PrefixSumDef
<1>3. PrefixSumOf(W, w, N)
  BY PrefixSumDef
<1> HIDE DEF part, P, W
<1>4. \A n \in 0 .. N : row(n) \in [1 .. M -> Int]
  <2> TAKE n \in 0 .. N
  <2>1. \A p \in 1 .. M : P(p)[n] \in Int
    BY <1>2 DEF PrefixSumOf
  <2> QED BY <2>1
<1> DEFINE S == {n \in Nat : n <= N => Sum(row(n), M) = W[n]}
<1>5. 0 \in S
  <2>1. \A p \in 1 .. M : P(p)[0] = 0
    BY <1>2 DEF PrefixSumOf
  <2>2. \A p \in 1 .. M : row(0)[p] = 0
    BY <2>1
  <2>3. row(0) \in [1 .. M -> Int]
    BY <2>1
  <2>4. W[0] = 0
    BY <1>3 DEF PrefixSumOf
  <2> HIDE DEF row
  <2>5. Sum(row(0), M) = 0
    BY <2>2, <2>3, SumZero
  <2> QED BY <2>4, <2>5
<1>6. ASSUME NEW n \in Nat, n \in S PROVE n + 1 \in S
  <2>1. SUFFICES ASSUME n + 1 <= N PROVE Sum(row(n+1), M) = W[n+1]
    OBVIOUS
  <2>2. n + 1 \in 1 .. N /\ (n + 1) - 1 = n /\ n \in 0 .. N /\ n + 1 \in 0 .. N
    BY <2>1
  <2> DEFINE k == at[n+1]
  <2>3. k \in 1 .. M
    BY <2>2
  <2>4. \A p : P(p)[n+1] = P(p)[n] + part(p)[n+1]
    BY <1>2, <2>2 DEF PrefixSumOf
  <2>5. /\ part(k)[n+1] = w[n+1]
        /\ \A p \in 1 .. M : p # k => part(p)[n+1] = 0
    BY <1>1, <2>2
  <2>6. \A p \in 1 .. M : P(p)[n] \in Int
    BY <1>2, <2>2 DEF PrefixSumOf
  <2>7. row(n) \in [1 .. M -> Int] /\ row(n+1) \in [1 .. M -> Int]
    BY <1>4, <2>2
  <2>8. \A p \in 1 .. M : row(n)[p] = P(p)[n] /\ row(n+1)[p] = P(p)[n+1]
    OBVIOUS
  <2> HIDE DEF row, k
  <2>9. /\ \A p \in 1 .. M : p # k => row(n+1)[p] = row(n)[p]
        /\ row(n+1)[k] = row(n)[k] + w[n+1]
    <3>1. ASSUME NEW p \in 1 .. M, p # k PROVE row(n+1)[p] = row(n)[p]
      <4>1. row(n+1)[p] = P(p)[n] + part(p)[n+1] /\ row(n)[p] = P(p)[n]
        BY <2>4, <2>8
      <4>2. part(p)[n+1] = 0 /\ P(p)[n] \in Int
        BY <2>5, <2>6, <3>1
      <4> QED BY <4>1, <4>2
    <3>2. row(n+1)[k] = P(k)[n] + part(k)[n+1] /\ row(n)[k] = P(k)[n]
      BY <2>3, <2>4, <2>8
    <3> QED BY <2>5, <3>1, <3>2
  <2>10. Sum(row(n+1), M) = Sum(row(n), M) + row(n+1)[k] - row(n)[k]
    BY <2>3, <2>7, <2>9, SumUpdate
  <2>11. Sum(row(n), M) = W[n] /\ W[n+1] = W[n] + w[n+1] /\ W[n] \in Int
    BY <1>3, <1>6, <2>1, <2>2 DEF PrefixSumOf
  <2>12. row(n)[k] \in Int /\ w[n+1] \in Int
    BY <2>2, <2>3, <2>7
  <2> QED BY <2>9, <2>10, <2>11, <2>12
<1>7. Nat \subseteq S
  <2> HIDE DEF S
  <2> QED BY <1>5, <1>6, SetInduction
<1>8. Sum(row(N), M) = W[N]
  BY <1>7
<1>9. row(N) = [p \in 1 .. M |-> Sum(part(p), N)]
  BY DEF Sum, P
<1> QED BY <1>8, <1>9 DEF Sum, W, part

(***************************************************************************)
(* One account more: the total grows by what it has.                       *)
(***************************************************************************)
LEMMA SumExtend ==
  ASSUME NEW N \in Nat, NEW f \in [1 .. N + 1 -> Int], NEW g \in [1 .. N -> Int],
         \A i \in 1 .. N : f[i] = g[i]
  PROVE  Sum(f, N + 1) = Sum(g, N) + f[N + 1]
<1> DEFINE F == PrefixSum(f, N + 1)
           G == PrefixSum(g, N)
           S == {n \in Nat : n <= N => F[n] = G[n]}
<1>1. PrefixSumOf(F, f, N + 1) /\ PrefixSumOf(G, g, N)
  BY PrefixSumDef
<1> HIDE DEF F, G
<1>2. 0 \in S
  BY <1>1 DEF PrefixSumOf
<1>3. ASSUME NEW n \in Nat, n \in S PROVE n + 1 \in S
  <2>1. SUFFICES ASSUME n + 1 <= N PROVE F[n + 1] = G[n + 1]
    OBVIOUS
  <2>2. F[n + 1] = F[n] + f[n + 1] /\ G[n + 1] = G[n] + g[n + 1]
    <3>1. n + 1 \in 1 .. N + 1 /\ n + 1 \in 1 .. N /\ (n + 1) - 1 = n
      BY <2>1
    <3> QED BY <1>1, <3>1 DEF PrefixSumOf
  <2> QED BY <1>3, <2>1, <2>2
<1>4. Nat \subseteq S
  <2> HIDE DEF S
  <2> QED BY <1>2, <1>3, SetInduction
<1>5. F[N + 1] = F[N] + f[N + 1]
  <2>1. N + 1 \in 1 .. N + 1 /\ (N + 1) - 1 = N
    OBVIOUS
  <2> QED BY <1>1, <2>1 DEF PrefixSumOf
<1> QED BY <1>4, <1>5 DEF Sum, F, G

(***************************************************************************)
(* The total of larger amounts is not smaller.                             *)
(***************************************************************************)
LEMMA SumOrder ==
  ASSUME NEW N \in Nat, NEW f \in [1 .. N -> Int], NEW g \in [1 .. N -> Int],
         \A i \in 1 .. N : f[i] <= g[i]
  PROVE  Sum(f, N) <= Sum(g, N)
<1> DEFINE z == [i \in 1 .. N |-> 0]
<1>1. z \in [1 .. N -> Int] /\ \A i \in 1 .. N : z[i] = 0
  OBVIOUS
<1> HIDE DEF z
<1>2. \A i \in 1 .. N : f[i] <= g[i] + 1 * z[i]
  <2> TAKE i \in 1 .. N
  <2>1. f[i] \in Int /\ g[i] \in Int /\ z[i] = 0 /\ f[i] <= g[i]
    BY <1>1
  <2> QED BY <2>1
<1>3. 1 \in Int
  OBVIOUS
<1>4. Sum(f, N) <= Sum(g, N) + 1 * Sum(z, N)
  BY <1>1, <1>2, <1>3, SumGrow, Zenon
<1>5. Sum(z, N) = 0 /\ Sum(f, N) \in Int /\ Sum(g, N) \in Int
  BY <1>1, SumZero, SumInt
<1> QED BY <1>4, <1>5

-----------------------------------------------------------------------------
(***************************************************************************)
(* Recursive functions over 0 .. n.                                        *)
(***************************************************************************)
\* f starts at base and takes the steps of step up to n.
Iterates(f, T, base, step, n) ==
  /\ f \in [0 .. n -> T]
  /\ f[0] = base
  /\ \A i \in 1 .. n : f[i] = step[i][f[i-1]]

\* A recursion by steps from T to T has a solution.
LEMMA Recursion ==
  ASSUME NEW N \in Nat, NEW T, NEW base \in T, NEW step \in [1 .. N -> [T -> T]]
  PROVE  \E f : Iterates(f, T, base, step, N)
<1> DEFINE S == {n \in Nat : n <= N => \E f : Iterates(f, T, base, step, n)}
<1>1. 0 \in S
  <2> DEFINE z == [i \in 0 .. 0 |-> base]
  <2>1. Iterates(z, T, base, step, 0)
    BY DEF Iterates
  <2> QED BY <2>1
<1>2. ASSUME NEW n \in Nat, n \in S PROVE n + 1 \in S
  <2>1. CASE n + 1 > N
    BY <2>1
  <2>2. CASE n + 1 <= N
    <3>1. PICK f : Iterates(f, T, base, step, n)
      BY <1>2, <2>2
    <3>2. f[n] \in T /\ step[n+1] \in [T -> T]
      BY <2>2, <3>1 DEF Iterates
    <3>3. PICK x \in T : x = step[n+1][f[n]]
      BY <3>2
    <3> DEFINE h == [i \in 0 .. n+1 |-> IF i = n+1 THEN x ELSE f[i]]
    <3>4. h \in [0 .. n+1 -> T]
      BY <3>1, <3>3 DEF Iterates
    <3>5. h[0] = base
      BY <3>1 DEF Iterates
    <3>6. ASSUME NEW i \in 1 .. n+1 PROVE h[i] = step[i][h[i-1]]
      <4>1. CASE i = n + 1
        <5>1. h[i] = x /\ i - 1 = n /\ h[n] = f[n]
          BY <4>1
        <5> QED BY <3>3, <4>1, <5>1
      <4>2. CASE i # n + 1
        <5>1. i \in 1 .. n /\ h[i] = f[i] /\ h[i-1] = f[i-1]
          BY <4>2
        <5> QED BY <3>1, <5>1 DEF Iterates
      <4> QED BY <4>1, <4>2
    <3>7. Iterates(h, T, base, step, n+1)
      <4> HIDE DEF h
      <4> QED BY <3>4, <3>5, <3>6 DEF Iterates
    <3> QED BY <3>7
  <2> QED BY <2>1, <2>2
<1>3. Nat \subseteq S
  <2> HIDE DEF S
  <2> QED BY <1>1, <1>2, SetInduction
<1> QED BY <1>3

\* What holds at first and is kept by every step holds to the end.
LEMMA StepInduction ==
  ASSUME NEW N \in Nat, NEW T, NEW f, f[0] \in T,
         \A i \in 1 .. N : f[i-1] \in T => f[i] \in T
  PROVE  \A i \in 0 .. N : f[i] \in T
<1> DEFINE S == {n \in Nat : n <= N => f[n] \in T}
<1>1. 0 \in S
  OBVIOUS
<1>2. ASSUME NEW n \in Nat, n \in S PROVE n + 1 \in S
  <2>1. SUFFICES ASSUME n + 1 <= N PROVE f[n+1] \in T
    OBVIOUS
  <2>2. n + 1 \in 1 .. N /\ (n + 1) - 1 = n
    BY <2>1
  <2> QED BY <1>2, <2>1, <2>2
<1>3. Nat \subseteq S
  <2> HIDE DEF S
  <2> QED BY <1>1, <1>2, SetInduction
<1> QED BY <1>3
=============================================================================
