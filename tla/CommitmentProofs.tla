-------------------------- MODULE CommitmentProofs --------------------------
(***************************************************************************)
(* Proofs about x/commitment and x/estaking for every number of accounts,  *)
(* all amounts, and vestings of any number and length.                     *)
(***************************************************************************)
EXTENDS Commitment, ElysMathTheorems

(***************************************************************************)
(* Sums over sequences, and sequences of which some elements are kept.     *)
(***************************************************************************)
\* The sum over a sequence of a function of its elements.
SeqSum(s, g) == Sum([i \in 1 .. Len(s) |-> g[s[i]]], Len(s))

LEMMA SeqSumInt ==
  ASSUME NEW V, NEW s \in Seq(V), NEW g \in [V -> Int]
  PROVE  /\ Len(s) \in Nat
         /\ [i \in 1 .. Len(s) |-> g[s[i]]] \in [1 .. Len(s) -> Int]
         /\ SeqSum(s, g) \in Int
<1>1. Len(s) \in Nat
  OBVIOUS
<1>2. [i \in 1 .. Len(s) |-> g[s[i]]] \in [1 .. Len(s) -> Int]
  <2>1. \A i \in 1 .. Len(s) : s[i] \in V
    OBVIOUS
  <2> QED BY <2>1
<1> QED BY <1>1, <1>2, SumInt DEF SeqSum

LEMMA SeqSumEmpty == ASSUME NEW g PROVE SeqSum(<<>>, g) = 0
<1> DEFINE f == [i \in 1 .. 0 |-> g[<<>>[i]]]
<1>1. f \in [1 .. 0 -> Int] /\ \A i \in 1 .. 0 : f[i] = 0
  OBVIOUS
<1>2. 0 \in Nat
  OBVIOUS
<1> HIDE DEF f
<1>3. Sum(f, 0) = 0
  BY <1>1, <1>2, SumZero
<1>4. Len(<<>>) = 0
  OBVIOUS
<1> QED BY <1>3, <1>4 DEF SeqSum, f

LEMMA SeqSumAppend ==
  ASSUME NEW V, NEW s \in Seq(V), NEW v \in V, NEW g \in [V -> Int]
  PROVE  SeqSum(Append(s, v), g) = SeqSum(s, g) + g[v]
<1> DEFINE N == Len(s)
           q == Append(s, v)
           f == [i \in 1 .. N + 1 |-> g[q[i]]]
           h == [i \in 1 .. N |-> g[s[i]]]
<1>1. N \in Nat /\ Len(q) = N + 1 /\ q[N + 1] = v /\ \A i \in 1 .. N : q[i] = s[i] /\ s[i] \in V
  OBVIOUS
<1> HIDE DEF N, q
<1>2. h \in [1 .. N -> Int]
  BY <1>1
<1>3. \A i \in 1 .. N + 1 : q[i] \in V
  <2> TAKE i \in 1 .. N + 1
  <2>1. i \in 1 .. N \/ i = N + 1
    BY <1>1
  <2> QED BY <1>1, <2>1
<1>4. f \in [1 .. N + 1 -> Int] /\ f[N + 1] = g[v] /\ \A i \in 1 .. N : f[i] = h[i]
  BY <1>1, <1>3
<1> HIDE DEF f, h
<1>5. Sum(f, N + 1) = Sum(h, N) + f[N + 1]
  BY <1>1, <1>2, <1>4, SumExtend
<1>6. SeqSum(q, g) = Sum(f, N + 1) /\ SeqSum(s, g) = Sum(h, N)
  BY <1>1 DEF SeqSum, f, h, N
<1> QED BY <1>4, <1>5, <1>6 DEF q

\* f lists, up to every index, the elements of s at the indices of K.
KeptUpToOf(f, s, K, n, V) ==
  /\ f \in [0 .. n -> Seq(V)]
  /\ f[0] = <<>>
  /\ \A i \in 1 .. n : f[i] = IF i \in K THEN Append(f[i - 1], s[i]) ELSE f[i - 1]

LEMMA KeptExists ==
  ASSUME NEW V, NEW s \in Seq(V), NEW K
  PROVE  \E f : KeptUpToOf(f, s, K, Len(s), V)
<1> DEFINE N == Len(s)
           S == {n \in Nat : n <= N => \E f : KeptUpToOf(f, s, K, n, V)}
<1>0. N \in Nat /\ \A i \in 1 .. N : s[i] \in V
  OBVIOUS
<1> HIDE DEF N
<1>1. 0 \in S
  <2> DEFINE z == [i \in 0 .. 0 |-> <<>>]
  <2>1. KeptUpToOf(z, s, K, 0, V)
    BY DEF KeptUpToOf
  <2> QED BY <2>1
<1>2. ASSUME NEW n \in Nat, n \in S PROVE n + 1 \in S
  <2>1. CASE n + 1 > N
    BY <1>0, <2>1
  <2>2. CASE n + 1 <= N
    <3>1. PICK f : KeptUpToOf(f, s, K, n, V)
      BY <1>0, <1>2, <2>2
    <3> DEFINE last == IF n + 1 \in K THEN Append(f[n], s[n + 1]) ELSE f[n]
               h == [i \in 0 .. n + 1 |-> IF i = n + 1 THEN last ELSE f[i]]
    <3>2. last \in Seq(V)
      <4>1. f[n] \in Seq(V) /\ s[n + 1] \in V
        BY <1>0, <2>2, <3>1 DEF KeptUpToOf
      <4> QED BY <4>1
    <3>3. KeptUpToOf(h, s, K, n + 1, V)
      <4>1. h \in [0 .. n + 1 -> Seq(V)] /\ h[0] = <<>>
        BY <3>1, <3>2 DEF KeptUpToOf
      <4>2. ASSUME NEW i \in 1 .. n + 1
            PROVE  h[i] = IF i \in K THEN Append(h[i - 1], s[i]) ELSE h[i - 1]
        <5>1. CASE i = n + 1
          BY <5>1
        <5>2. CASE i # n + 1
          <6>1. i \in 1 .. n /\ i - 1 \in 0 .. n /\ h[i] = f[i] /\ h[i - 1] = f[i - 1]
            BY <5>2
          <6> HIDE DEF h
          <6> QED BY <3>1, <6>1 DEF KeptUpToOf
        <5> QED BY <5>1, <5>2
      <4> HIDE DEF h
      <4> QED BY <4>1, <4>2 DEF KeptUpToOf
    <3> QED BY <3>3
  <2> QED BY <1>0, <2>1, <2>2
<1>3. Nat \subseteq S
  <2> HIDE DEF S
  <2> QED BY <1>1, <1>2, SetInduction
<1> QED BY <1>0, <1>3 DEF N

LEMMA KeptDef ==
  ASSUME NEW V, NEW s \in Seq(V), NEW K
  PROVE  KeptUpToOf(KeptUpTo(s, K), s, K, Len(s), V)
<1> DEFINE P == KeptUpTo(s, K)
<1>0. Len(s) \in Nat /\ \A i \in 1 .. Len(s) : s[i] \in V
  OBVIOUS
<1>1. PICK f : KeptUpToOf(f, s, K, Len(s), V)
  BY KeptExists
<1>2. f = [i \in 0 .. Len(s) |->
            IF i = 0 THEN <<>> ELSE IF i \in K THEN Append(f[i - 1], s[i]) ELSE f[i - 1]]
  <2>1. f = [i \in 0 .. Len(s) |-> f[i]]
    BY <1>1 DEF KeptUpToOf
  <2>2. \A i \in 0 .. Len(s) :
          f[i] = IF i = 0 THEN <<>> ELSE IF i \in K THEN Append(f[i - 1], s[i]) ELSE f[i - 1]
    <3> TAKE i \in 0 .. Len(s)
    <3>1. i = 0 \/ i \in 1 .. Len(s)
      BY <1>0
    <3> QED BY <1>1, <3>1 DEF KeptUpToOf
  <2> QED BY <2>1, <2>2, Zenon
<1>3. P = [i \in 0 .. Len(s) |->
            IF i = 0 THEN <<>> ELSE IF i \in K THEN Append(P[i - 1], s[i]) ELSE P[i - 1]]
  BY <1>2, Zenon DEF KeptUpTo
<1> HIDE DEF P
<1>4. P[0] = <<>> /\ <<>> \in Seq(V)
  BY <1>0, <1>3
<1>5. \A i \in 1 .. Len(s) : P[i] = IF i \in K THEN Append(P[i - 1], s[i]) ELSE P[i - 1]
  <2> TAKE i \in 1 .. Len(s)
  <2>1. i \in 0 .. Len(s) /\ i # 0
    BY <1>0
  <2> QED BY <1>3, <2>1, Zenon
<1> DEFINE S == {n \in Nat : n <= Len(s) => P[n] \in Seq(V)}
<1>6. 0 \in S
  BY <1>0, <1>4
<1>7. ASSUME NEW n \in Nat, n \in S PROVE n + 1 \in S
  <2>1. SUFFICES ASSUME n + 1 <= Len(s) PROVE P[n + 1] \in Seq(V)
    OBVIOUS
  <2>2. n + 1 \in 1 .. Len(s) /\ (n + 1) - 1 = n /\ P[n] \in Seq(V) /\ s[n + 1] \in V
    BY <1>0, <1>7, <2>1
  <2>3. Append(P[n], s[n + 1]) \in Seq(V)
    BY <2>2
  <2> QED BY <1>5, <2>2, <2>3
<1>8. Nat \subseteq S
  <2> HIDE DEF S
  <2> QED BY <1>6, <1>7, SetInduction
<1>9. P \in [0 .. Len(s) -> Seq(V)]
  <2>1. \A i \in 0 .. Len(s) : P[i] \in Seq(V)
    BY <1>0, <1>8
  <2>2. P = [i \in 0 .. Len(s) |-> P[i]]
    BY <1>3
  <2> QED BY <2>1, <2>2
<1>10. KeptUpToOf(P, s, K, Len(s), V)
  BY <1>4, <1>5, <1>9 DEF KeptUpToOf
<1> QED BY <1>10 DEF P

\* What is kept is what was there.
LEMMA KeptElements ==
  ASSUME NEW V, NEW s \in Seq(V), NEW K, NEW W, \A i \in 1 .. Len(s) : i \in K => s[i] \in W
  PROVE  Kept(s, K) \in Seq(W)
<1> DEFINE P == KeptUpTo(s, K)
           N == Len(s)
           S == {n \in Nat : n <= N => P[n] \in Seq(W)}
<1>0. N \in Nat /\ \A i \in 1 .. N : i \in K => s[i] \in W
  OBVIOUS
<1>1. KeptUpToOf(P, s, K, N, V)
  BY KeptDef
<1> HIDE DEF P, N
<1>2. 0 \in S
  BY <1>1 DEF KeptUpToOf
<1>3. ASSUME NEW n \in Nat, n \in S PROVE n + 1 \in S
  <2>1. SUFFICES ASSUME n + 1 <= N PROVE P[n + 1] \in Seq(W)
    OBVIOUS
  <2>2. n + 1 \in 1 .. N /\ (n + 1) - 1 = n /\ P[n] \in Seq(W)
    BY <1>0, <1>3, <2>1
  <2>3. P[n + 1] = IF n + 1 \in K THEN Append(P[n], s[n + 1]) ELSE P[n]
    BY <1>1, <2>2 DEF KeptUpToOf
  <2>4. n + 1 \in K => Append(P[n], s[n + 1]) \in Seq(W)
    BY <1>0, <2>2
  <2> QED BY <2>2, <2>3, <2>4
<1>4. Nat \subseteq S
  <2> HIDE DEF S
  <2> QED BY <1>2, <1>3, SetInduction
<1> QED BY <1>0, <1>4 DEF Kept, P, N

\* Elements that count nothing can be dropped.
LEMMA KeptSum ==
  ASSUME NEW V, NEW s \in Seq(V), NEW K, NEW g \in [V -> Int],
         \A i \in 1 .. Len(s) : i \notin K => g[s[i]] = 0
  PROVE  SeqSum(Kept(s, K), g) = SeqSum(s, g)
<1> DEFINE P == KeptUpTo(s, K)
           N == Len(s)
           h == [i \in 1 .. N |-> g[s[i]]]
           G == PrefixSum(h, N)
           S == {n \in Nat : n <= N => SeqSum(P[n], g) = G[n]}
<1>0. N \in Nat /\ \A i \in 1 .. N : s[i] \in V /\ (i \notin K => g[s[i]] = 0)
  OBVIOUS
<1>1. KeptUpToOf(P, s, K, N, V)
  BY KeptDef
<1> HIDE DEF P, N
<1>2. h \in [1 .. N -> Int] /\ \A i \in 1 .. N : h[i] = g[s[i]]
  BY <1>0
<1> HIDE DEF h
<1>3. PrefixSumOf(G, h, N)
  BY <1>0, <1>2, PrefixSumDef
<1> HIDE DEF G
<1>4. 0 \in S
  BY <1>1, <1>3, SeqSumEmpty DEF KeptUpToOf, PrefixSumOf
<1>5. ASSUME NEW n \in Nat, n \in S PROVE n + 1 \in S
  <2>1. SUFFICES ASSUME n + 1 <= N PROVE SeqSum(P[n + 1], g) = G[n + 1]
    OBVIOUS
  <2>2. /\ n + 1 \in 1 .. N /\ (n + 1) - 1 = n /\ n \in 0 .. N
        /\ SeqSum(P[n], g) = G[n] /\ s[n + 1] \in V
    BY <1>0, <1>5, <2>1
  <2>3. P[n] \in Seq(V) /\ P[n + 1] = IF n + 1 \in K THEN Append(P[n], s[n + 1]) ELSE P[n]
    BY <1>1, <2>2 DEF KeptUpToOf
  <2>4. G[n + 1] = G[n] + g[s[n + 1]] /\ G[n] \in Int
    BY <1>2, <1>3, <2>2 DEF PrefixSumOf
  <2>5. CASE n + 1 \in K
    <3>1. SeqSum(P[n + 1], g) = SeqSum(P[n], g) + g[s[n + 1]]
      BY <2>2, <2>3, <2>5, SeqSumAppend
    <3> QED BY <2>2, <2>4, <3>1
  <2>6. CASE n + 1 \notin K
    BY <1>0, <2>2, <2>3, <2>4, <2>6
  <2> QED BY <2>5, <2>6
<1>6. Nat \subseteq S
  <2> HIDE DEF S
  <2> QED BY <1>4, <1>5, SetInduction
<1>7. SeqSum(P[N], g) = G[N]
  BY <1>0, <1>6
<1>8. SeqSum(s, g) = G[N]
  BY DEF SeqSum, Sum, G, h, N
<1> QED BY <1>7, <1>8 DEF Kept, P, N
-----------------------------------------------------------------------------
(***************************************************************************)
(* The vesting schedule.                                                   *)
(***************************************************************************)
\* What has vested of T after k of n blocks.
Curve(T, n, k) == (T * MinOf(k, n)) \div n

LEMMA CurveBound ==
  ASSUME NEW T \in Nat, NEW n \in Nat \ {0}, NEW k \in Nat
  PROVE  /\ MinOf(k, n) \in Nat /\ MinOf(k, n) <= n /\ MinOf(k, n) <= k
         /\ Curve(T, n, k) \in Nat /\ Curve(T, n, k) <= T
         /\ n * Curve(T, n, k) <= T * MinOf(k, n)
<1> DEFINE j == MinOf(k, n)
           c == Curve(T, n, k)
<1>1. j \in Nat /\ j <= n /\ j <= k
  BY DEF MinOf
<1> HIDE DEF j
<1>2. T * j \in Nat
  BY <1>1, ProductNat
<1>3. c \in Nat /\ c * n <= T * j
  BY <1>2, TruncateNat DEF Curve, TruncateInt, j
<1> HIDE DEF c
<1>4. n * c = c * n
  BY <1>3
<1>5. T * j <= T * n /\ T * n = n * T
  BY <1>1, ProductMonotone
<1>6. n * c \in Nat /\ n * T \in Nat
  BY <1>3, ProductNat
<1>7. n * c <= n * T
  BY <1>2, <1>3, <1>4, <1>5, <1>6
<1>8. c <= T
  BY <1>3, <1>7, CancelFactor
<1> QED BY <1>1, <1>3, <1>4, <1>8 DEF c, j

\* x is at most what has vested if it is at most the exact part.
LEMMA CurveLargest ==
  ASSUME NEW T \in Nat, NEW n \in Nat \ {0}, NEW k \in Nat, NEW x \in Int, n * x <= T * MinOf(k, n)
  PROVE  x <= Curve(T, n, k)
<1>1. T * MinOf(k, n) \in Nat
  BY CurveBound, ProductNat
<1> QED BY <1>1, TruncateLargest DEF Curve, TruncateInt

LEMMA CurveFull ==
  ASSUME NEW T \in Nat, NEW n \in Nat \ {0}, NEW k \in Nat, n <= k
  PROVE  Curve(T, n, k) = T
<1>1. MinOf(k, n) = n
  BY DEF MinOf
<1>2. n * T <= T * MinOf(k, n)
  BY <1>1
<1>3. T <= Curve(T, n, k)
  BY <1>2, CurveLargest
<1>4. Curve(T, n, k) \in Nat /\ Curve(T, n, k) <= T
  BY CurveBound
<1> QED BY <1>3, <1>4

LEMMA CurveMonotone ==
  ASSUME NEW T \in Nat, NEW n \in Nat \ {0}, NEW k \in Nat, NEW l \in Nat, k <= l
  PROVE  Curve(T, n, k) <= Curve(T, n, l)
<1>1. MinOf(k, n) \in Nat /\ MinOf(l, n) \in Nat /\ MinOf(k, n) <= MinOf(l, n)
  BY DEF MinOf
<1>2. T * MinOf(k, n) <= T * MinOf(l, n)
  BY <1>1, ProductMonotone
<1>3. Curve(T, n, k) \in Nat /\ n * Curve(T, n, k) <= T * MinOf(k, n)
  BY CurveBound
<1>4. n * Curve(T, n, k) \in Nat /\ T * MinOf(k, n) \in Nat /\ T * MinOf(l, n) \in Nat
  BY <1>1, <1>3, ProductNat
<1>5. n * Curve(T, n, k) <= T * MinOf(l, n)
  BY <1>2, <1>3, <1>4
<1> QED BY <1>3, <1>5, CurveLargest

(***************************************************************************)
(* CancelVest restarts a vesting with what is left of it, less what is     *)
(* taken back, over the blocks that are left.  Never has more vested then  *)
(* than would have without the restart.                                    *)
(***************************************************************************)
LEMMA RestartIdentity ==
  ASSUME NEW m \in Int, NEW e \in Int, NEW T \in Int, NEW c \in Int, NEW k \in Int
  PROVE  m * (T * (e + k)) - (m + e) * ((T - c) * k) - m * ((m + e) * c)
           = (m - k) * (T * e - (m + e) * c)
OBVIOUS

LEMMA CurveRestart ==
  ASSUME NEW T \in Nat, NEW n \in Nat \ {0}, NEW e \in Nat, e < n, NEW c \in Nat, c = Curve(T, n, e),
         NEW R \in Nat, R <= T - c, NEW k \in Nat
  PROVE  Curve(R, n - e, k) <= Curve(T, n, e + k) - c
<1> DEFINE m == n - e
           j == MinOf(k, m)
           q == Curve(R, m, k)
<1>1. m \in Nat \ {0} /\ n = m + e
  OBVIOUS
<1>2. j \in Nat /\ j <= m /\ q \in Nat /\ m * q <= R * j
  BY <1>1, CurveBound
<1>3. MinOf(e + k, n) = e + j
  BY <1>1 DEF MinOf
<1>4. c <= T /\ n * c <= T * e
  <2>1. MinOf(e, n) = e
    BY DEF MinOf
  <2> QED BY <2>1, CurveBound
<1> HIDE DEF m, j, q
<1>5. R * j <= (T - c) * j
  <2>1. j * R <= j * (T - c)
    BY <1>2, <1>4, ProductMonotone
  <2> QED BY <1>2, <1>4, <2>1
<1>6. n * (m * q) <= n * ((T - c) * j)
  <2>1. m * q \in Int /\ R * j \in Int /\ (T - c) * j \in Int
    BY <1>1, <1>2, <1>4
  <2>2. m * q <= (T - c) * j
    BY <1>2, <1>5, <2>1
  <2> QED BY <2>1, <2>2, ProductMonotone
<1>7. 0 <= (m - j) * (T * e - n * c)
  <2>1. m - j \in Nat /\ T * e \in Int /\ n * c \in Int
    BY <1>1, <1>2
  <2>2. T * e - n * c \in Nat
    BY <1>4, <2>1
  <2> QED BY <2>1, <2>2, ProductNat
<1>8. m * (T * (e + j)) - n * ((T - c) * j) - m * (n * c) = (m - j) * (T * e - n * c)
  BY <1>1, <1>2, RestartIdentity
<1>9. m * (n * (q + c)) = n * (m * q) + m * (n * c)
  BY <1>1, <1>2
<1>10. m * (n * (q + c)) <= m * (T * (e + j))
  <2> DEFINE A == m * (T * (e + j))
             B == n * ((T - c) * j)
             C == m * (n * c)
             D == n * (m * q)
             E == (m - j) * (T * e - n * c)
  <2>1. A \in Int /\ B \in Int /\ C \in Int /\ D \in Int /\ E \in Int
    BY <1>1, <1>2
  <2>2. D <= B /\ 0 <= E /\ A - B - C = E
    BY <1>6, <1>7, <1>8
  <2> HIDE DEF A, B, C, D, E
  <2>3. D + C <= A
    BY <2>1, <2>2
  <2> QED BY <1>9, <2>3 DEF A, C, D
<1>11. n * (q + c) <= T * (e + j)
  <2>1. n * (q + c) \in Int /\ T * (e + j) \in Int
    BY <1>1, <1>2
  <2> QED BY <1>1, <1>10, <2>1, CancelFactor
<1>12. q + c <= Curve(T, n, e + k)
  BY <1>2, <1>3, <1>11, CurveLargest
<1>13. Curve(T, n, e + k) \in Nat
  <2>1. e + k \in Nat
    OBVIOUS
  <2> QED BY <2>1, CurveBound
<1>14. q <= Curve(T, n, e + k) - c
  BY <1>2, <1>12, <1>13
<1> QED BY <1>14 DEF q, m
-----------------------------------------------------------------------------
(***************************************************************************)
(* What an account's vestings owe and pay.                                 *)
(***************************************************************************)
VestingType == [total : Nat, claimed : Nat, start : Nat, num : Nat \ {0}]
GrantType   == [total : Nat, start : Nat, num : Nat \ {0}]

\* What has vested at height t.
VestedAt(v, t) == Curve(v.total, v.num, t - v.start)

\* Vestings that can be stored at height h, and those ClaimVesting leaves.
OpenAt(h) == {v \in VestingType : v.start \in 1 .. h /\ v.claimed <= VestedAt(v, h)}

ClaimedAt(h) ==
    {v \in VestingType : v.start \in 1 .. h /\ v.claimed = VestedAt(v, h) /\ v.claimed # v.total}

GrantedAt(h) == {v \in GrantType : v.start \in 1 .. h}

\* What is left of a vesting; what it will have paid at height t from now on;
\* the total of a grant; and what it was to pay until then.
LeftOf    == [v \in VestingType |-> v.total - v.claimed]
DueBy(t)  == [v \in VestingType |-> VestedAt(v, t) - v.claimed]
TotalsOf  == [v \in GrantType |-> v.total]
PlanBy(t) == [v \in GrantType |-> VestedAt(v, t)]

LEMMA VestedAtBound ==
  ASSUME NEW v \in VestingType \cup GrantType, NEW t \in Nat, v.start <= t
  PROVE  /\ VestedAt(v, t) \in Nat /\ VestedAt(v, t) <= v.total
         /\ v.num <= t - v.start => VestedAt(v, t) = v.total
         /\ \A h \in Nat : v.start <= h /\ h <= t => VestedAt(v, h) <= VestedAt(v, t)
<1>1. v.total \in Nat /\ v.num \in Nat \ {0} /\ v.start \in Nat
  BY DEF VestingType, GrantType
<1>2. t - v.start \in Nat
  BY <1>1
<1>3. VestedAt(v, t) \in Nat /\ VestedAt(v, t) <= v.total
  BY <1>1, <1>2, CurveBound DEF VestedAt
<1>4. v.num <= t - v.start => VestedAt(v, t) = v.total
  BY <1>1, <1>2, CurveFull DEF VestedAt
<1>5. ASSUME NEW h \in Nat, v.start <= h, h <= t PROVE VestedAt(v, h) <= VestedAt(v, t)
  <2>1. h - v.start \in Nat /\ h - v.start <= t - v.start
    BY <1>1, <1>5
  <2> QED BY <1>1, <1>2, <2>1, CurveMonotone DEF VestedAt
<1> QED BY <1>3, <1>4, <1>5

LEMMA VestedSoFarIs == ASSUME NEW v PROVE VestedSoFar(v) = VestedAt(v, height)
BY DEF VestedSoFar, VestedAt, Curve

LEMMA VestingFunctions ==
  /\ LeftOf \in [VestingType -> Int]
  /\ TotalsOf \in [GrantType -> Int]
  /\ \A v \in VestingType : LeftOf[v] = v.total - v.claimed
  /\ \A t : \A v \in VestingType : DueBy(t)[v] = VestedAt(v, t) - v.claimed
BY DEF LeftOf, TotalsOf, DueBy, VestingType, GrantType

LEMMA OpenAtDef ==
  ASSUME NEW h \in Nat \ {0}, NEW t \in Nat, h <= t
  PROVE  /\ OpenAt(h) \subseteq VestingType /\ ClaimedAt(h) \subseteq OpenAt(h)
         /\ OpenAt(h) \subseteq OpenAt(t) /\ GrantedAt(h) \subseteq GrantedAt(t)
         /\ \A v \in OpenAt(h) : DueBy(t)[v] \in Nat
<1>1. OpenAt(h) \subseteq VestingType /\ ClaimedAt(h) \subseteq OpenAt(h)
  <2>1. ASSUME NEW v \in ClaimedAt(h) PROVE v \in OpenAt(h)
    <3>1. v.claimed \in Nat /\ v.claimed = VestedAt(v, h)
      BY DEF ClaimedAt, VestingType
    <3>2. v.claimed <= VestedAt(v, h)
      BY <3>1
    <3> QED BY <3>2 DEF ClaimedAt, OpenAt
  <2> QED BY <2>1 DEF OpenAt
<1>2. ASSUME NEW v \in OpenAt(h) PROVE v \in OpenAt(t) /\ DueBy(t)[v] \in Nat
  <2>1. v \in VestingType /\ v.start \in 1 .. h /\ v.claimed <= VestedAt(v, h) /\ v.claimed \in Nat
    BY DEF OpenAt, VestingType
  <2>2. v.start <= t /\ v.start <= h /\ h \in Nat
    BY <2>1
  <2>3. VestedAt(v, h) <= VestedAt(v, t) /\ VestedAt(v, t) \in Nat /\ VestedAt(v, h) \in Nat
    BY <2>1, <2>2, VestedAtBound
  <2>4. v.claimed <= VestedAt(v, t) /\ v.start \in 1 .. t
    BY <2>1, <2>2, <2>3
  <2>5. DueBy(t)[v] = VestedAt(v, t) - v.claimed
    BY <2>1, VestingFunctions
  <2> QED BY <2>1, <2>3, <2>4, <2>5 DEF OpenAt
<1>3. GrantedAt(h) \subseteq GrantedAt(t)
  BY DEF GrantedAt
<1> QED BY <1>1, <1>2, <1>3

LEMMA DueSumInt ==
  ASSUME NEW h \in Nat \ {0}, NEW t \in Nat, h <= t, NEW s \in Seq(OpenAt(h))
  PROVE  SeqSum(s, DueBy(t)) \in Nat
<1> DEFINE f == [i \in 1 .. Len(s) |-> DueBy(t)[s[i]]]
<1>1. Len(s) \in Nat /\ \A i \in 1 .. Len(s) : s[i] \in OpenAt(h)
  OBVIOUS
<1>2. f \in [1 .. Len(s) -> Nat]
  BY <1>1, OpenAtDef
<1> HIDE DEF f
<1>3. Sum(f, Len(s)) \in Nat
  BY <1>1, <1>2, SumBound
<1> QED BY <1>3 DEF SeqSum, f

LEMMA PlanNat ==
  ASSUME NEW h \in Nat, NEW t \in Nat, h <= t
  PROVE  /\ \A v \in GrantedAt(h) : PlanBy(t)[v] \in Nat
         /\ \A s \in Seq(GrantedAt(h)) : SeqSum(s, PlanBy(t)) \in Nat
<1>1. ASSUME NEW v \in GrantedAt(h) PROVE PlanBy(t)[v] \in Nat
  <2>1. v \in GrantType /\ v.start <= t
    BY DEF GrantedAt
  <2> QED BY <2>1, VestedAtBound DEF PlanBy
<1>2. ASSUME NEW s \in Seq(GrantedAt(h)) PROVE SeqSum(s, PlanBy(t)) \in Nat
  <2> DEFINE f == [i \in 1 .. Len(s) |-> PlanBy(t)[s[i]]]
  <2>1. Len(s) \in Nat /\ \A i \in 1 .. Len(s) : s[i] \in GrantedAt(h)
    OBVIOUS
  <2>2. f \in [1 .. Len(s) -> Nat]
    BY <1>1, <2>1
  <2> HIDE DEF f
  <2>3. Sum(f, Len(s)) \in Nat
    BY <2>1, <2>2, SumBound
  <2> QED BY <2>3 DEF SeqSum, f
<1> QED BY <1>1, <1>2

\* The sums over vestings as sums over their functions.
LEMMA VestingSums ==
  /\ \A s \in Seq(VestingType) : SumOver(s, Remaining) = SeqSum(s, LeftOf)
  /\ \A s \in Seq(GrantType) : SumOver(s, VestedSoFar) = SeqSum(s, PlanBy(height))
<1>1. ASSUME NEW s \in Seq(VestingType) PROVE SumOver(s, Remaining) = SeqSum(s, LeftOf)
  <2>1. \A i \in 1 .. Len(s) : s[i] \in VestingType
    OBVIOUS
  <2>2. \A i \in 1 .. Len(s) : Remaining(s[i]) = LeftOf[s[i]]
    BY <2>1 DEF Remaining, LeftOf
  <2>3. [i \in 1 .. Len(s) |-> Remaining(s[i])] = [i \in 1 .. Len(s) |-> LeftOf[s[i]]]
    BY <2>2
  <2> QED BY <2>3 DEF SumOver, SeqSum
<1>2. ASSUME NEW s \in Seq(GrantType) PROVE SumOver(s, VestedSoFar) = SeqSum(s, PlanBy(height))
  <2>1. \A i \in 1 .. Len(s) : s[i] \in GrantType
    OBVIOUS
  <2>2. \A i \in 1 .. Len(s) : VestedSoFar(s[i]) = PlanBy(height)[s[i]]
    BY <2>1, VestedSoFarIs DEF PlanBy
  <2>3. [i \in 1 .. Len(s) |-> VestedSoFar(s[i])] = [i \in 1 .. Len(s) |-> PlanBy(height)[s[i]]]
    BY <2>2
  <2> QED BY <2>3 DEF SumOver, SeqSum
<1> QED BY <1>1, <1>2

\* ClaimVesting: what a vesting is to pay is claimed now or still to be paid.
LEMMA AfterClaimFacts ==
  ASSUME height \in Nat \ {0}, NEW s \in Seq(OpenAt(height))
  PROVE  /\ AfterClaim(s) \in Seq(ClaimedAt(height))
         /\ ClaimableOf(s) \in Nat
         /\ SeqSum(s, LeftOf) = ClaimableOf(s) + SeqSum(AfterClaim(s), LeftOf)
         /\ \A t \in Nat : t >= height =>
              SeqSum(s, DueBy(t)) = ClaimableOf(s) + SeqSum(AfterClaim(s), DueBy(t))
<1> DEFINE N == Len(s)
           claims == [i \in 1 .. N |-> [s[i] EXCEPT !.claimed = VestedSoFar(s[i])]]
           K == {i \in 1 .. N : claims[i].claimed # claims[i].total}
           now == [i \in 1 .. N |-> VestedSoFar(s[i]) - s[i].claimed]
<1>1. N \in Nat /\ \A i \in 1 .. N : s[i] \in OpenAt(height) /\ s[i] \in VestingType
  <2>1. \A i \in 1 .. N : s[i] \in OpenAt(height)
    OBVIOUS
  <2> QED BY <2>1 DEF OpenAt
<1>2. s \in Seq(VestingType)
  <2>1. OpenAt(height) \subseteq VestingType
    BY DEF OpenAt
  <2> QED BY <2>1
<1> HIDE DEF N
<1>3. \A i \in 1 .. N : /\ s[i].start \in 1 .. height /\ s[i].start <= height
                        /\ VestedAt(s[i], height) \in Nat
                        /\ VestedAt(s[i], height) <= s[i].total
                        /\ s[i].claimed \in Nat /\ s[i].claimed <= VestedAt(s[i], height)
  <2> TAKE i \in 1 .. N
  <2>1. s[i] \in VestingType /\ s[i].start \in 1 .. height /\ s[i].claimed <= VestedAt(s[i], height)
    BY <1>1 DEF OpenAt
  <2>2. s[i].start <= height /\ height \in Nat
    BY <2>1
  <2>3. VestedAt(s[i], height) \in Nat /\ VestedAt(s[i], height) <= s[i].total
    BY <2>1, <2>2, VestedAtBound
  <2> QED BY <2>1, <2>2, <2>3 DEF VestingType
<1>4. \A i \in 1 .. N : /\ claims[i] \in VestingType
                        /\ claims[i].start = s[i].start /\ claims[i].num = s[i].num
                        /\ claims[i].total = s[i].total
                        /\ claims[i].claimed = VestedAt(s[i], height)
                        /\ \A t : VestedAt(claims[i], t) = VestedAt(s[i], t)
  <2> TAKE i \in 1 .. N
  <2>1. claims[i] = [s[i] EXCEPT !.claimed = VestedAt(s[i], height)]
    BY VestedSoFarIs
  <2> HIDE DEF claims
  <2>2. /\ claims[i] \in VestingType
        /\ claims[i].start = s[i].start /\ claims[i].num = s[i].num
        /\ claims[i].total = s[i].total
        /\ claims[i].claimed = VestedAt(s[i], height)
    BY <1>1, <1>3, <2>1 DEF VestingType
  <2> QED BY <2>2 DEF VestedAt
<1>5. claims \in Seq(VestingType) /\ Len(claims) = N
  BY <1>1, <1>4
<1> HIDE DEF claims
<1>6. AfterClaim(s) = Kept(claims, K)
  BY DEF AfterClaim, claims, N
<1> HIDE DEF K
<1>7. AfterClaim(s) \in Seq(ClaimedAt(height))
  <2>1. ASSUME NEW i \in 1 .. N, i \in K PROVE claims[i] \in ClaimedAt(height)
    BY <1>3, <1>4, <2>1 DEF ClaimedAt, K
  <2> QED BY <1>5, <1>6, <2>1, KeptElements
<1>8. now \in [1 .. N -> Nat] /\ \A i \in 1 .. N : now[i] = VestedAt(s[i], height) - s[i].claimed
  BY <1>3, VestedSoFarIs
<1>9. ClaimableOf(s) = Sum(now, N)
  BY DEF ClaimableOf, SumOver, N
<1> HIDE DEF now
<1>10. ClaimableOf(s) \in Nat
  BY <1>1, <1>8, <1>9, SumBound
\* The same argument for what is left and for what is due by any height.
<1>11. ASSUME NEW g \in [VestingType -> Int],
              \A i \in 1 .. N : g[s[i]] = now[i] + g[claims[i]],
              \A i \in 1 .. N : i \notin K => g[claims[i]] = 0
       PROVE  SeqSum(s, g) = ClaimableOf(s) + SeqSum(AfterClaim(s), g)
  <2> DEFINE before == [i \in 1 .. N |-> g[s[i]]]
             after  == [i \in 1 .. N |-> g[claims[i]]]
  <2>1. before \in [1 .. N -> Int] /\ after \in [1 .. N -> Int] /\ now \in [1 .. N -> Int]
    BY <1>1, <1>4, <1>8
  <2>2. \A i \in 1 .. N : before[i] = now[i] + after[i]
    BY <1>11
  <2>3. SeqSum(s, g) = Sum(before, N) /\ SeqSum(claims, g) = Sum(after, N)
    BY <1>5 DEF SeqSum, N
  <2> HIDE DEF before, after
  <2>4. Sum(before, N) = Sum(now, N) + Sum(after, N)
    BY <1>1, <2>1, <2>2, SumAdd
  <2>5. SeqSum(Kept(claims, K), g) = SeqSum(claims, g)
    BY <1>5, <1>11, KeptSum
  <2> QED BY <1>6, <1>9, <2>3, <2>4, <2>5
<1>12. \A i \in 1 .. N : i \notin K => VestedAt(s[i], height) = s[i].total
  BY <1>4 DEF K
<1>13. SeqSum(s, LeftOf) = ClaimableOf(s) + SeqSum(AfterClaim(s), LeftOf)
  <2>1. ASSUME NEW i \in 1 .. N
        PROVE  /\ LeftOf[s[i]] = now[i] + LeftOf[claims[i]]
               /\ i \notin K => LeftOf[claims[i]] = 0
    <3>1. LeftOf[s[i]] = s[i].total - s[i].claimed
      BY <1>1, VestingFunctions
    <3>2. LeftOf[claims[i]] = s[i].total - VestedAt(s[i], height)
      BY <1>4, VestingFunctions
    <3>3. s[i].total \in Nat
      BY <1>1 DEF VestingType
    <3> QED BY <1>3, <1>8, <1>12, <3>1, <3>2, <3>3
  <2> QED BY <1>11, <2>1, VestingFunctions
<1>14. ASSUME NEW t \in Nat, t >= height
       PROVE  SeqSum(s, DueBy(t)) = ClaimableOf(s) + SeqSum(AfterClaim(s), DueBy(t))
  <2> DEFINE g == [v \in VestingType |-> IF v \in OpenAt(height) THEN DueBy(t)[v] ELSE 0]
  <2>1. g \in [VestingType -> Int]
    BY <1>14, OpenAtDef
  <2>2. \A i \in 1 .. N : claims[i] \in OpenAt(height)
    <3> TAKE i \in 1 .. N
    <3>1. claims[i] \in VestingType /\ claims[i].start \in 1 .. height
      BY <1>3, <1>4
    <3>2. claims[i].claimed = VestedAt(claims[i], height) /\ VestedAt(claims[i], height) \in Nat
      BY <1>3, <1>4
    <3>3. claims[i].claimed <= VestedAt(claims[i], height)
      BY <3>2
    <3> QED BY <3>1, <3>3 DEF OpenAt
  <2>3. ASSUME NEW i \in 1 .. N
        PROVE  /\ g[s[i]] = now[i] + g[claims[i]]
               /\ i \notin K => g[claims[i]] = 0
    <3>1. g[s[i]] = VestedAt(s[i], t) - s[i].claimed
      BY <1>1, VestingFunctions
    <3>2. g[claims[i]] = VestedAt(s[i], t) - VestedAt(s[i], height)
      <4>1. claims[i] \in VestingType /\ claims[i] \in OpenAt(height)
        BY <1>4, <2>2
      <4>2. DueBy(t)[claims[i]] = VestedAt(claims[i], t) - claims[i].claimed
        BY <4>1, VestingFunctions
      <4>3. VestedAt(claims[i], t) = VestedAt(s[i], t) /\ claims[i].claimed = VestedAt(s[i], height)
        BY <1>4
      <4> QED BY <4>1, <4>2, <4>3
    <3>3. /\ VestedAt(s[i], t) \in Nat /\ VestedAt(s[i], t) <= s[i].total
          /\ VestedAt(s[i], height) <= VestedAt(s[i], t)
      <4>1. s[i].start <= t /\ s[i].start <= height /\ height \in Nat /\ height <= t
        BY <1>3, <1>14
      <4> QED BY <1>1, <4>1, VestedAtBound
    <3>4. s[i].total \in Nat
      BY <1>1 DEF VestingType
    <3> HIDE DEF g
    <3> QED BY <1>3, <1>8, <1>12, <3>1, <3>2, <3>3, <3>4, SMTT(30)
  <2> HIDE DEF g
  <2>4. SeqSum(s, g) = ClaimableOf(s) + SeqSum(AfterClaim(s), g)
    BY <1>11, <2>1, <2>3
  <2>5. \A q \in Seq(OpenAt(height)) : SeqSum(q, g) = SeqSum(q, DueBy(t))
    <3> TAKE q \in Seq(OpenAt(height))
    <3>1. \A i \in 1 .. Len(q) : q[i] \in OpenAt(height) /\ q[i] \in VestingType
      <4>1. \A i \in 1 .. Len(q) : q[i] \in OpenAt(height)
        OBVIOUS
      <4> QED BY <4>1 DEF OpenAt
    <3>2. [i \in 1 .. Len(q) |-> g[q[i]]] = [i \in 1 .. Len(q) |-> DueBy(t)[q[i]]]
      BY <3>1 DEF g
    <3> QED BY <3>2 DEF SeqSum
  <2>6. AfterClaim(s) \in Seq(OpenAt(height))
    <3>1. ClaimedAt(height) \subseteq OpenAt(height)
      BY OpenAtDef
    <3> QED BY <1>7, <3>1
  <2> QED BY <2>4, <2>5, <2>6
<1> QED BY <1>7, <1>10, <1>13, <1>14

\* CancelVest: nothing is lost when vestings are restarted, and no height comes
\* at which more is due than without the restart.
LEMMA RestartedFacts ==
  ASSUME height \in Nat \ {0}, NEW open \in Seq(ClaimedAt(height)), NEW amount \in Nat,
         NEW cancels, cancels = CancelledOf(open, amount)
  PROVE  /\ Sum(cancels, Len(open)) \in Nat
         /\ Restarted(open, cancels) \in Seq(OpenAt(height))
         /\ SeqSum(open, LeftOf) = Sum(cancels, Len(open)) + SeqSum(Restarted(open, cancels), LeftOf)
         /\ \A t \in Nat : t >= height =>
              SeqSum(Restarted(open, cancels), DueBy(t)) <= SeqSum(open, DueBy(t))
<1> DEFINE N == Len(open)
           new == [i \in 1 .. N |->
             [total |-> Remaining(open[i]) - cancels[i], claimed |-> 0, start |-> height,
              num |-> RemainingNum(open[i])]]
           K == {i \in 1 .. N : new[i].total > 0}
           e(i) == height - open[i].start
           c(i) == VestedAt(open[i], height)
<1>1. N \in Nat /\ \A i \in 1 .. N : open[i] \in ClaimedAt(height)
  OBVIOUS
<1>2. ASSUME NEW i \in 1 .. N
      PROVE  /\ open[i] \in VestingType
             /\ open[i].total \in Nat /\ open[i].num \in Nat \ {0} /\ open[i].start \in Nat
             /\ open[i].claimed = c(i) /\ c(i) \in Nat /\ c(i) <= open[i].total
             /\ e(i) \in Nat /\ e(i) < open[i].num
             /\ Remaining(open[i]) \in Nat /\ Remaining(open[i]) = open[i].total - c(i)
             /\ RemainingNum(open[i]) = open[i].num - e(i)
  <2>1. /\ open[i] \in VestingType /\ open[i].start \in 1 .. height
        /\ open[i].claimed = c(i) /\ open[i].claimed # open[i].total
    BY <1>1 DEF ClaimedAt
  <2>2. open[i].total \in Nat /\ open[i].num \in Nat \ {0} /\ open[i].start \in Nat
    BY <2>1 DEF VestingType
  <2>3. open[i].start <= height /\ e(i) \in Nat
    BY <2>1
  <2>4. c(i) \in Nat /\ c(i) <= open[i].total /\ (open[i].num <= e(i) => c(i) = open[i].total)
    BY <2>1, <2>3, VestedAtBound
  <2> HIDE DEF c
  <2>5. e(i) < open[i].num
    BY <2>1, <2>2, <2>3, <2>4
  <2>6. Remaining(open[i]) \in Nat /\ Remaining(open[i]) = open[i].total - c(i)
    BY <2>1, <2>2, <2>4 DEF Remaining
  <2>7. RemainingNum(open[i]) = open[i].num - e(i)
    BY <2>2, <2>3, <2>5 DEF RemainingNum, MaxOf
  <2> QED BY <2>1, <2>2, <2>3, <2>4, <2>5, <2>6, <2>7
<1> HIDE DEF N, c, e
<1>3. /\ cancels \in [1 .. N -> Nat]
      /\ \A i \in 1 .. N : cancels[i] <= Remaining(open[i])
  <2> DEFINE younger(i) == [j \in 1 .. N |-> IF j > i THEN Remaining(open[j]) ELSE 0]
  <2>1. \A i \in 1 .. N : Sum(younger(i), N) \in Nat
    <3> TAKE i \in 1 .. N
    <3>1. younger(i) \in [1 .. N -> Nat]
      BY <1>2
    <3> HIDE DEF younger
    <3> QED BY <1>1, <3>1, SumBound
  <2>2. cancels = [i \in 1 .. N |-> MinOf(MaxOf(0, amount - Sum(younger(i), N)), Remaining(open[i]))]
    BY DEF CancelledOf, N
  <2> HIDE DEF younger
  <2>3. \A i \in 1 .. N : cancels[i] \in Nat /\ cancels[i] <= Remaining(open[i])
    <3> TAKE i \in 1 .. N
    <3>1. cancels[i] = MinOf(MaxOf(0, amount - Sum(younger(i), N)), Remaining(open[i]))
      BY <2>2
    <3>2. Sum(younger(i), N) \in Nat /\ Remaining(open[i]) \in Nat
      BY <1>2, <2>1
    <3> QED BY <3>1, <3>2 DEF MinOf, MaxOf
  <2>4. cancels = [i \in 1 .. N |-> cancels[i]]
    BY <2>2
  <2> QED BY <2>3, <2>4
<1>4. Sum(cancels, N) \in Nat
  BY <1>1, <1>3, SumBound
<1>5. ASSUME NEW i \in 1 .. N
      PROVE  /\ new[i] \in VestingType /\ new[i] \in OpenAt(height)
             /\ new[i].total = open[i].total - c(i) - cancels[i] /\ new[i].claimed = 0
             /\ new[i].start = height /\ new[i].num = open[i].num - e(i)
  <2>1. /\ new[i] \in VestingType
        /\ new[i].total = open[i].total - c(i) - cancels[i] /\ new[i].claimed = 0
        /\ new[i].start = height /\ new[i].num = open[i].num - e(i)
    <3>1. /\ Remaining(open[i]) - cancels[i] \in Nat
          /\ Remaining(open[i]) - cancels[i] = open[i].total - c(i) - cancels[i]
          /\ RemainingNum(open[i]) \in Nat \ {0} /\ RemainingNum(open[i]) = open[i].num - e(i)
      <4>1. /\ open[i].total \in Nat /\ c(i) \in Nat /\ Remaining(open[i]) = open[i].total - c(i)
            /\ open[i].num \in Nat /\ e(i) \in Nat /\ e(i) < open[i].num
            /\ RemainingNum(open[i]) = open[i].num - e(i)
        BY <1>2
      <4>2. cancels[i] \in Nat /\ cancels[i] <= Remaining(open[i])
        BY <1>3
      <4>3. \A a, b, x \in Nat : x <= a - b => a - b - x \in Nat
        OBVIOUS
      <4>4. \A n, k \in Nat : k < n => n - k \in Nat \ {0}
        OBVIOUS
      <4>5. open[i].total - c(i) - cancels[i] \in Nat
        BY <4>1, <4>2, <4>3
      <4>6. open[i].num - e(i) \in Nat \ {0}
        BY <4>1, <4>4
      <4> QED BY <4>1, <4>5, <4>6
    <3>2. new[i] = [total |-> Remaining(open[i]) - cancels[i], claimed |-> 0, start |-> height,
                    num |-> RemainingNum(open[i])]
      OBVIOUS
    <3> HIDE DEF new
    <3> QED BY <3>1, <3>2 DEF VestingType
  <2> HIDE DEF new
  <2>2. VestedAt(new[i], height) \in Nat
    BY <2>1, VestedAtBound
  <2>3. new[i].claimed <= VestedAt(new[i], height) /\ new[i].start \in 1 .. height
    BY <2>1, <2>2
  <2> QED BY <2>1, <2>3 DEF OpenAt
<1>6. new \in Seq(VestingType) /\ Len(new) = N
  <2>1. \A i \in 1 .. N : new[i] \in VestingType
    BY <1>5
  <2> QED BY <1>1, <2>1
<1>7. Restarted(open, cancels) = Kept(new, K)
  BY DEF Restarted, N
<1> HIDE DEF K, new
<1>8. Restarted(open, cancels) \in Seq(OpenAt(height))
  BY <1>5, <1>6, <1>7, KeptElements
<1>9. \A i \in 1 .. N : i \notin K => new[i].total = 0
  <2> TAKE i \in 1 .. N
  <2>1. new[i].total \in Nat
    BY <1>5 DEF VestingType
  <2> QED BY <2>1 DEF K
<1>10. SeqSum(open, LeftOf) = Sum(cancels, N) + SeqSum(Restarted(open, cancels), LeftOf)
  <2> DEFINE before == [i \in 1 .. N |-> LeftOf[open[i]]]
             after  == [i \in 1 .. N |-> LeftOf[new[i]]]
  <2>1. ASSUME NEW i \in 1 .. N
        PROVE  /\ LeftOf[open[i]] = open[i].total - c(i)
               /\ LeftOf[new[i]] = open[i].total - c(i) - cancels[i]
               /\ i \notin K => LeftOf[new[i]] = 0
    <3>1. LeftOf[open[i]] = open[i].total - open[i].claimed /\ LeftOf[new[i]] = new[i].total - new[i].claimed
      BY <1>2, <1>5, VestingFunctions
    <3>2. open[i].total \in Nat /\ c(i) \in Nat /\ open[i].claimed = c(i)
      BY <1>2
    <3>3. cancels[i] \in Nat
      BY <1>3
    <3>4. new[i].total = open[i].total - c(i) - cancels[i] /\ new[i].claimed = 0
      BY <1>5
    <3> QED BY <1>9, <3>1, <3>2, <3>3, <3>4
  <2>2. before \in [1 .. N -> Int] /\ after \in [1 .. N -> Int] /\ cancels \in [1 .. N -> Int]
    BY <1>2, <1>5, <1>3, VestingFunctions
  <2>3. \A i \in 1 .. N : before[i] = cancels[i] + after[i]
    <3> TAKE i \in 1 .. N
    <3>1. PICK x, k, l : x = open[i].total /\ k = c(i) /\ l = cancels[i]
      OBVIOUS
    <3>2. x \in Int /\ k \in Int /\ l \in Int
      BY <1>2, <1>3, <3>1
    <3>3. before[i] = x - k /\ after[i] = x - k - l
      BY <2>1, <3>1
    <3>4. x - k = l + (x - k - l)
      BY <3>2
    <3> QED BY <3>1, <3>3, <3>4
  <2>4. SeqSum(open, LeftOf) = Sum(before, N) /\ SeqSum(new, LeftOf) = Sum(after, N)
    BY <1>6 DEF SeqSum, N
  <2> HIDE DEF before, after
  <2>5. Sum(before, N) = Sum(cancels, N) + Sum(after, N)
    BY <1>1, <2>2, <2>3, SumAdd
  <2>6. SeqSum(Kept(new, K), LeftOf) = SeqSum(new, LeftOf)
    BY <1>6, <2>1, KeptSum, VestingFunctions, SMTT(30)
  <2> QED BY <1>7, <2>4, <2>5, <2>6
<1>11. ASSUME NEW t \in Nat, t >= height
       PROVE  SeqSum(Restarted(open, cancels), DueBy(t)) <= SeqSum(open, DueBy(t))
  <2> DEFINE g == [v \in VestingType |-> IF v \in OpenAt(height) THEN DueBy(t)[v] ELSE 0]
             before == [i \in 1 .. N |-> g[open[i]]]
             after  == [i \in 1 .. N |-> g[new[i]]]
  <2>1. g \in [VestingType -> Int]
    BY <1>11, OpenAtDef
  <2>2. ClaimedAt(height) \subseteq OpenAt(height)
    BY OpenAtDef
  <2>3. ASSUME NEW i \in 1 .. N
        PROVE  g[new[i]] <= g[open[i]] /\ (i \notin K => g[new[i]] = 0)
    <3> DEFINE k == t - height
               R == new[i].total
               m == open[i].num - e(i)
    <3>1. k \in Nat /\ R \in Nat /\ R <= open[i].total - c(i) /\ m \in Nat \ {0} /\ e(i) + k \in Nat
      <4>1. R \in Nat /\ R = open[i].total - c(i) - cancels[i] /\ cancels[i] \in Nat
        BY <1>3, <1>5 DEF VestingType
      <4>2. /\ open[i].total \in Nat /\ c(i) \in Nat /\ open[i].num \in Nat
            /\ e(i) \in Nat /\ e(i) < open[i].num
        BY <1>2
      <4>3. k \in Nat
        BY <1>11
      <4>4. m \in Nat \ {0} /\ e(i) + k \in Nat
        BY <4>2, <4>3, SMTT(30)
      <4>5. \A a, b, x \in Nat : a - b - x <= a - b
        OBVIOUS
      <4>6. R <= open[i].total - c(i)
        BY <4>1, <4>2, <4>5
      <4> QED BY <4>1, <4>3, <4>4, <4>6
    <3>2. t - open[i].start = e(i) + k
      BY <1>2, <1>11 DEF e
    <3>3. g[open[i]] = Curve(open[i].total, open[i].num, e(i) + k) - c(i)
      <4>1. open[i] \in OpenAt(height)
        BY <1>1, <2>2
      <4>2. DueBy(t)[open[i]] = VestedAt(open[i], t) - open[i].claimed
        BY <1>2, VestingFunctions
      <4> QED BY <1>2, <3>2, <4>1, <4>2 DEF VestedAt
    <3>4. g[new[i]] = Curve(R, m, k)
      <4>1. DueBy(t)[new[i]] = VestedAt(new[i], t) - new[i].claimed
        BY <1>5, VestingFunctions
      <4>2. VestedAt(new[i], t) = Curve(R, m, k)
        BY <1>5 DEF VestedAt
      <4>3. Curve(R, m, k) \in Nat
        BY <3>1, CurveBound
      <4> QED BY <1>5, <4>1, <4>2, <4>3
    <3>5. c(i) = Curve(open[i].total, open[i].num, e(i))
      BY DEF c, e, VestedAt
    <3>6. Curve(R, m, k) <= Curve(open[i].total, open[i].num, e(i) + k) - c(i)
      <4> HIDE DEF k, R
      <4> QED BY <1>2, <3>1, <3>5, CurveRestart
    <3>7. i \notin K => Curve(R, m, k) = 0
      <4>1. i \notin K => R = 0
        BY <1>9
      <4>2. Curve(R, m, k) \in Nat /\ Curve(R, m, k) <= R
        BY <3>1, CurveBound
      <4> QED BY <3>1, <4>1, <4>2
    <3> HIDE DEF g, k, R, m
    <3> QED BY <3>3, <3>4, <3>6, <3>7
  <2> HIDE DEF g
  <2>4. before \in [1 .. N -> Int] /\ after \in [1 .. N -> Int]
    BY <1>2, <1>5, <2>1
  <2>5. \A i \in 1 .. N : after[i] <= before[i]
    BY <2>3
  <2>6. SeqSum(open, g) = Sum(before, N) /\ SeqSum(new, g) = Sum(after, N)
    BY <1>6 DEF SeqSum, N
  <2> HIDE DEF before, after
  <2>7. Sum(after, N) <= Sum(before, N)
    BY <1>1, <2>4, <2>5, SumOrder
  <2>8. SeqSum(Kept(new, K), g) = SeqSum(new, g)
    BY <1>6, <2>1, <2>3, KeptSum
  <2>9. \A q \in Seq(OpenAt(height)) : SeqSum(q, g) = SeqSum(q, DueBy(t))
    <3> TAKE q \in Seq(OpenAt(height))
    <3>1. \A i \in 1 .. Len(q) : q[i] \in OpenAt(height) /\ q[i] \in VestingType
      <4>1. \A i \in 1 .. Len(q) : q[i] \in OpenAt(height)
        OBVIOUS
      <4> QED BY <4>1 DEF OpenAt
    <3>2. [i \in 1 .. Len(q) |-> g[q[i]]] = [i \in 1 .. Len(q) |-> DueBy(t)[q[i]]]
      BY <3>1 DEF g
    <3> QED BY <3>2 DEF SeqSum
  <2>10. open \in Seq(OpenAt(height))
    BY <2>2
  <2> QED BY <1>7, <1>8, <2>6, <2>7, <2>8, <2>9, <2>10
<1> QED BY <1>4, <1>8, <1>10, <1>11 DEF N
-----------------------------------------------------------------------------
(***************************************************************************)
(* The vestings of every account: nothing is lost, and what was paid with  *)
(* what will be due by any later height stays within the plan of what was  *)
(* granted.  That it stays within the plan now is not inductive: a vesting *)
(* restarted over too few blocks would only show later.                    *)
(***************************************************************************)
VestingTypes ==
    /\ vestings \in [Users -> Seq(OpenAt(height))]
    /\ grants \in [Users -> Seq(GrantedAt(height))]
    /\ cancelled \in [Users -> Nat] /\ paid \in [Users -> Nat] /\ vestedNow \in Nat

Conserved ==
    \A u \in Users : SeqSum(grants[u], TotalsOf) = paid[u] + cancelled[u] + SeqSum(vestings[u], LeftOf)

Scheduled ==
    \A u \in Users : \A t \in Nat : t >= height =>
        paid[u] + SeqSum(vestings[u], DueBy(t)) <= SeqSum(grants[u], PlanBy(t))

VestInv ==
    /\ scope \in Scopes /\ height \in Nat \ {0} /\ vestingInfo \in scope.vestingInfos
    /\ VestingTypes
    /\ Conserved
    /\ Scheduled

LEMMA ScopeTypes ==
  ASSUME scope \in Scopes
  PROVE  /\ scope.amounts \subseteq Nat \ {0} /\ scope.users \subseteq Users
         /\ scope.programEden \in Nat
         /\ \A info \in scope.vestingInfos : info.numBlocks \in Nat \ {0}
<1>1. scope \in ScopeType
  BY CommitmentAssumption
<1> QED BY <1>1 DEF ScopeType, Users

LEMMA InitVestInv == Init => VestInv
<1> SUFFICES ASSUME Init PROVE VestInv
  OBVIOUS
<1>1. /\ scope \in Scopes /\ height = 1 /\ vestingInfo \in scope.vestingInfos
      /\ vestings = [u \in Users |-> <<>>] /\ grants = [u \in Users |-> <<>>]
      /\ cancelled = [u \in Users |-> 0] /\ paid = [u \in Users |-> 0] /\ vestedNow = 0
  BY DEF Init, Zeros
<1>2. <<>> \in Seq(OpenAt(height)) /\ <<>> \in Seq(GrantedAt(height))
  OBVIOUS
<1>3. VestingTypes
  BY <1>1, <1>2 DEF VestingTypes
<1>4. Conserved /\ Scheduled
  BY <1>1, SeqSumEmpty DEF Conserved, Scheduled
<1> QED BY <1>1, <1>3, <1>4 DEF VestInv

\* A step that leaves the vestings as they are.
LEMMA VestingsKept ==
  ASSUME VestInv, UNCHANGED <<scope, height, vestings, grants, cancelled, paid>>,
         vestedNow' \in Nat, vestingInfo' \in scope.vestingInfos
  PROVE  VestInv'
BY DEF VestInv, VestingTypes, Conserved, Scheduled

\* A step of one account.
LEMMA VestingsOfOne ==
  ASSUME VestInv, UNCHANGED <<scope, height, vestingInfo, vestedNow>>, NEW u \in Users,
         NEW s \in Seq(OpenAt(height)), NEW q \in Seq(GrantedAt(height)), NEW p \in Nat, NEW k \in Nat,
         vestings' = [vestings EXCEPT ![u] = s], grants' = [grants EXCEPT ![u] = q],
         paid' = [paid EXCEPT ![u] = p], cancelled' = [cancelled EXCEPT ![u] = k],
         SeqSum(q, TotalsOf) = p + k + SeqSum(s, LeftOf),
         \A t \in Nat : t >= height => p + SeqSum(s, DueBy(t)) <= SeqSum(q, PlanBy(t))
  PROVE  VestInv'
<1>1. VestingTypes /\ Conserved /\ Scheduled
  BY DEF VestInv
<1>2. \A w \in Users : /\ vestings'[w] = IF w = u THEN s ELSE vestings[w]
                       /\ grants'[w] = IF w = u THEN q ELSE grants[w]
                       /\ paid'[w] = IF w = u THEN p ELSE paid[w]
                       /\ cancelled'[w] = IF w = u THEN k ELSE cancelled[w]
  BY <1>1 DEF VestingTypes
<1>3. VestingTypes'
  BY <1>1 DEF VestingTypes
<1>4. Conserved'
  <2> SUFFICES ASSUME NEW w \in Users
               PROVE  SeqSum(grants'[w], TotalsOf)
                        = paid'[w] + cancelled'[w] + SeqSum(vestings'[w], LeftOf)
    BY DEF Conserved
  <2> QED BY <1>1, <1>2 DEF Conserved
<1>5. Scheduled'
  <2> SUFFICES ASSUME NEW w \in Users, NEW t \in Nat, t >= height
               PROVE  paid'[w] + SeqSum(vestings'[w], DueBy(t)) <= SeqSum(grants'[w], PlanBy(t))
    BY DEF Scheduled
  <2> QED BY <1>1, <1>2 DEF Scheduled
<1> QED BY <1>3, <1>4, <1>5 DEF VestInv

LEMMA AccountTypes ==
  ASSUME VestInv, NEW u \in Users, NEW t \in Nat, t >= height
  PROVE  /\ vestings[u] \in Seq(OpenAt(height)) /\ vestings[u] \in Seq(VestingType)
         /\ grants[u] \in Seq(GrantedAt(height)) /\ grants[u] \in Seq(GrantType)
         /\ paid[u] \in Nat /\ cancelled[u] \in Nat /\ vestedNow \in Nat
         /\ SeqSum(vestings[u], LeftOf) \in Nat /\ SeqSum(vestings[u], DueBy(t)) \in Nat
<1>1. /\ vestings[u] \in Seq(OpenAt(height)) /\ grants[u] \in Seq(GrantedAt(height))
      /\ paid[u] \in Nat /\ cancelled[u] \in Nat /\ vestedNow \in Nat
  BY DEF VestInv, VestingTypes
<1>2. OpenAt(height) \subseteq VestingType /\ GrantedAt(height) \subseteq GrantType
  BY DEF OpenAt, GrantedAt
<1>3. vestings[u] \in Seq(VestingType) /\ grants[u] \in Seq(GrantType)
  BY <1>1, <1>2
<1>4. Len(vestings[u]) \in Nat /\ \A i \in 1 .. Len(vestings[u]) : vestings[u][i] \in OpenAt(height)
  BY <1>1
<1>5. \A v \in OpenAt(height) : LeftOf[v] \in Nat
  <2> TAKE v \in OpenAt(height)
  <2>1. v \in VestingType /\ v.start <= height /\ v.claimed <= VestedAt(v, height)
    BY DEF OpenAt
  <2>2. height \in Nat \ {0}
    BY DEF VestInv
  <2>3. VestedAt(v, height) \in Nat /\ VestedAt(v, height) <= v.total
    BY <2>1, <2>2, VestedAtBound
  <2>4. LeftOf[v] = v.total - v.claimed /\ v.total \in Nat /\ v.claimed \in Nat
    BY <2>1, VestingFunctions DEF VestingType
  <2> QED BY <2>1, <2>3, <2>4
<1>6. SeqSum(vestings[u], LeftOf) \in Nat
  <2> DEFINE f == [i \in 1 .. Len(vestings[u]) |-> LeftOf[vestings[u][i]]]
  <2>1. f \in [1 .. Len(vestings[u]) -> Nat]
    BY <1>4, <1>5
  <2> HIDE DEF f
  <2>2. Sum(f, Len(vestings[u])) \in Nat
    BY <1>4, <2>1, SumBound
  <2> QED BY <2>2 DEF SeqSum, f
<1>7. SeqSum(vestings[u], DueBy(t)) \in Nat
  BY <1>1, DueSumInt DEF VestInv
<1> QED BY <1>1, <1>3, <1>6, <1>7

\* What ClaimVesting and CancelVest add to what an account was paid.
LEMMA ClaimVestingStep ==
  ASSUME VestInv, UNCHANGED scope, NEW u \in Users, ClaimVesting(u)
  PROVE  /\ VestInv' /\ ClaimableOf(vestings[u]) \in Nat
         /\ SeqSum(vestings'[u], LeftOf) + paid'[u] = SeqSum(vestings[u], LeftOf) + paid[u]
         /\ \A w \in Users : w # u => vestings'[w] = vestings[w] /\ paid'[w] = paid[w]
<1> DEFINE s == AfterClaim(vestings[u])
           p == paid[u] + ClaimableOf(vestings[u])
<1>0. height \in Nat \ {0} /\ VestingTypes
  BY DEF VestInv
<1>1. /\ UNCHANGED <<height, vestingInfo, grants, cancelled, vestedNow>>
      /\ vestings' = [vestings EXCEPT ![u] = s] /\ paid' = [paid EXCEPT ![u] = p]
  BY <1>0 DEF ClaimVesting, settings, VestingTypes
<1>2. /\ vestings[u] \in Seq(OpenAt(height)) /\ grants[u] \in Seq(GrantedAt(height))
      /\ paid[u] \in Nat /\ cancelled[u] \in Nat /\ SeqSum(vestings[u], LeftOf) \in Nat
      /\ \A t \in Nat : t >= height => SeqSum(vestings[u], DueBy(t)) \in Nat
  BY <1>0, AccountTypes
<1>3. /\ s \in Seq(ClaimedAt(height)) /\ ClaimableOf(vestings[u]) \in Nat
      /\ SeqSum(vestings[u], LeftOf) = ClaimableOf(vestings[u]) + SeqSum(s, LeftOf)
      /\ \A t \in Nat : t >= height =>
           SeqSum(vestings[u], DueBy(t)) = ClaimableOf(vestings[u]) + SeqSum(s, DueBy(t))
  BY <1>0, <1>2, AfterClaimFacts
<1>4. s \in Seq(OpenAt(height)) /\ s \in Seq(VestingType)
  <2>1. ClaimedAt(height) \subseteq OpenAt(height) /\ ClaimedAt(height) \subseteq VestingType
    BY <1>0, OpenAtDef DEF ClaimedAt
  <2> QED BY <1>3, <2>1
<1>5. SeqSum(s, LeftOf) \in Int
  BY <1>4, SeqSumInt, VestingFunctions
<1> HIDE DEF s
<1>6. p \in Nat /\ SeqSum(s, LeftOf) + p = SeqSum(vestings[u], LeftOf) + paid[u]
  BY <1>2, <1>3, <1>5
<1>7. SeqSum(grants[u], TotalsOf) = p + cancelled[u] + SeqSum(s, LeftOf)
  <2>1. SeqSum(grants[u], TotalsOf) = paid[u] + cancelled[u] + SeqSum(vestings[u], LeftOf)
    BY DEF VestInv, Conserved
  <2> QED BY <1>2, <1>3, <1>5, <2>1
<1>8. ASSUME NEW t \in Nat, t >= height
      PROVE  p + SeqSum(s, DueBy(t)) <= SeqSum(grants[u], PlanBy(t))
  <2>1. paid[u] + SeqSum(vestings[u], DueBy(t)) <= SeqSum(grants[u], PlanBy(t))
    BY <1>8 DEF VestInv, Scheduled
  <2>2. SeqSum(s, DueBy(t)) \in Int
    BY <1>0, <1>4, <1>8, DueSumInt
  <2>3. SeqSum(vestings[u], DueBy(t)) = ClaimableOf(vestings[u]) + SeqSum(s, DueBy(t))
    BY <1>3, <1>8
  <2> QED BY <1>2, <1>3, <2>1, <2>2, <2>3
<1>9. grants' = [grants EXCEPT ![u] = grants[u]] /\ cancelled' = [cancelled EXCEPT ![u] = cancelled[u]]
  BY <1>0, <1>1 DEF VestingTypes
<1>10. /\ vestings'[u] = s /\ paid'[u] = p
       /\ \A w \in Users : w # u => vestings'[w] = vestings[w] /\ paid'[w] = paid[w]
  BY <1>0, <1>1 DEF VestingTypes
<1> HIDE DEF p
<1>11. VestInv'
  BY <1>1, <1>2, <1>4, <1>6, <1>7, <1>8, <1>9, VestingsOfOne
<1> QED BY <1>3, <1>6, <1>10, <1>11

LEMMA VestStep ==
  ASSUME VestInv, UNCHANGED scope, NEW u \in Users, NEW amount \in Nat, Vest(u, amount)
  PROVE  /\ VestInv'
         /\ SeqSum(vestings'[u], LeftOf) = SeqSum(vestings[u], LeftOf) + amount
         /\ \A w \in Users : w # u => vestings'[w] = vestings[w]
<1> DEFINE v == [total |-> amount, claimed |-> 0, start |-> height, num |-> vestingInfo.numBlocks]
           g == [total |-> amount, start |-> height, num |-> vestingInfo.numBlocks]
           s == Append(vestings[u], v)
           q == Append(grants[u], g)
<1>0. height \in Nat \ {0} /\ VestingTypes /\ vestingInfo.numBlocks \in Nat \ {0}
  BY ScopeTypes DEF VestInv
<1>1. /\ UNCHANGED <<height, vestingInfo, paid, cancelled, vestedNow>>
      /\ vestings' = [vestings EXCEPT ![u] = s] /\ grants' = [grants EXCEPT ![u] = q]
  BY <1>0 DEF Vest, settings, VestingTypes
<1>2. /\ vestings[u] \in Seq(OpenAt(height)) /\ grants[u] \in Seq(GrantedAt(height))
      /\ vestings[u] \in Seq(VestingType) /\ grants[u] \in Seq(GrantType)
      /\ paid[u] \in Nat /\ cancelled[u] \in Nat /\ SeqSum(vestings[u], LeftOf) \in Nat
  BY <1>0, AccountTypes
<1>3. /\ v \in VestingType /\ v.total = amount /\ v.claimed = 0 /\ v.start = height
      /\ g \in GrantType /\ g.total = amount /\ g.start = height /\ g.num = v.num
  BY <1>0 DEF VestingType, GrantType
<1> HIDE DEF v, g
<1>4. v \in OpenAt(height) /\ g \in GrantedAt(height)
  <2>1. VestedAt(v, height) \in Nat
    BY <1>0, <1>3, VestedAtBound
  <2>2. v.claimed <= VestedAt(v, height) /\ v.start \in 1 .. height /\ g.start \in 1 .. height
    BY <1>0, <1>3, <2>1
  <2> QED BY <1>3, <2>2 DEF OpenAt, GrantedAt
<1>5. s \in Seq(OpenAt(height)) /\ q \in Seq(GrantedAt(height))
  BY <1>2, <1>4
<1>6. LeftOf[v] = amount /\ TotalsOf[g] = amount
  BY <1>3, VestingFunctions DEF TotalsOf
<1>7. /\ SeqSum(s, LeftOf) = SeqSum(vestings[u], LeftOf) + amount
      /\ SeqSum(q, TotalsOf) = SeqSum(grants[u], TotalsOf) + amount
  BY <1>2, <1>3, <1>6, SeqSumAppend, VestingFunctions
<1>8. SeqSum(q, TotalsOf) = paid[u] + cancelled[u] + SeqSum(s, LeftOf)
  <2>1. SeqSum(grants[u], TotalsOf) = paid[u] + cancelled[u] + SeqSum(vestings[u], LeftOf)
    BY DEF VestInv, Conserved
  <2> QED BY <1>2, <1>7, <2>1
<1>9. ASSUME NEW t \in Nat, t >= height
      PROVE  paid[u] + SeqSum(s, DueBy(t)) <= SeqSum(q, PlanBy(t))
  <2>1. paid[u] + SeqSum(vestings[u], DueBy(t)) <= SeqSum(grants[u], PlanBy(t))
    BY <1>9 DEF VestInv, Scheduled
  <2>2. DueBy(t)[v] = VestedAt(v, t) /\ PlanBy(t)[g] = VestedAt(v, t) /\ VestedAt(v, t) \in Nat
    <3>1. VestedAt(v, t) \in Nat
      BY <1>3, <1>9, VestedAtBound
    <3>2. DueBy(t)[v] = VestedAt(v, t) - 0
      BY <1>3, VestingFunctions
    <3>3. PlanBy(t)[g] = VestedAt(v, t)
      BY <1>3 DEF PlanBy, VestedAt
    <3> QED BY <3>1, <3>2, <3>3
  <2>3. SeqSum(vestings[u], DueBy(t)) \in Nat /\ SeqSum(s, DueBy(t)) = SeqSum(vestings[u], DueBy(t)) + DueBy(t)[v]
    <3>1. [x \in OpenAt(height) |-> DueBy(t)[x]] \in [OpenAt(height) -> Int]
      BY <1>0, <1>9, OpenAtDef
    <3> DEFINE d == [x \in OpenAt(height) |-> DueBy(t)[x]]
    <3>2. \A z \in Seq(OpenAt(height)) : SeqSum(z, d) = SeqSum(z, DueBy(t))
      <4> TAKE z \in Seq(OpenAt(height))
      <4>1. \A i \in 1 .. Len(z) : z[i] \in OpenAt(height)
        OBVIOUS
      <4>2. [i \in 1 .. Len(z) |-> d[z[i]]] = [i \in 1 .. Len(z) |-> DueBy(t)[z[i]]]
        BY <4>1
      <4> QED BY <4>2 DEF SeqSum
    <3>3. d[v] = DueBy(t)[v]
      BY <1>4
    <3> HIDE DEF d
    <3>4. d \in [OpenAt(height) -> Int]
      BY <3>1 DEF d
    <3>5. SeqSum(s, d) = SeqSum(vestings[u], d) + d[v]
      BY <1>2, <1>4, <3>4, SeqSumAppend
    <3>6. SeqSum(vestings[u], DueBy(t)) \in Nat
      BY <1>0, <1>2, <1>9, DueSumInt
    <3> QED BY <1>2, <1>5, <3>2, <3>3, <3>5, <3>6
  <2>4. SeqSum(grants[u], PlanBy(t)) \in Int /\ SeqSum(q, PlanBy(t)) = SeqSum(grants[u], PlanBy(t)) + PlanBy(t)[g]
    <3> DEFINE d == [x \in GrantedAt(height) |-> PlanBy(t)[x]]
    <3>1. d \in [GrantedAt(height) -> Int] /\ \A x \in GrantedAt(height) : d[x] = PlanBy(t)[x]
      BY <1>0, <1>9, PlanNat
    <3> HIDE DEF d
    <3>2. \A z \in Seq(GrantedAt(height)) : SeqSum(z, d) = SeqSum(z, PlanBy(t))
      <4> TAKE z \in Seq(GrantedAt(height))
      <4>1. \A i \in 1 .. Len(z) : z[i] \in GrantedAt(height)
        OBVIOUS
      <4>2. [i \in 1 .. Len(z) |-> d[z[i]]] = [i \in 1 .. Len(z) |-> PlanBy(t)[z[i]]]
        BY <3>1, <4>1
      <4> QED BY <4>2 DEF SeqSum
    <3>3. SeqSum(q, d) = SeqSum(grants[u], d) + d[g] /\ SeqSum(grants[u], d) \in Int
      BY <1>2, <1>4, <3>1, SeqSumAppend, SeqSumInt
    <3> QED BY <1>2, <1>4, <1>5, <3>1, <3>2, <3>3
  <2> QED BY <1>2, <2>1, <2>2, <2>3, <2>4
<1>10. paid' = [paid EXCEPT ![u] = paid[u]] /\ cancelled' = [cancelled EXCEPT ![u] = cancelled[u]]
  BY <1>0, <1>1 DEF VestingTypes
<1>11. vestings'[u] = s /\ \A w \in Users : w # u => vestings'[w] = vestings[w]
  BY <1>0, <1>1 DEF VestingTypes
<1> HIDE DEF s, q
<1>12. VestInv'
  BY <1>1, <1>2, <1>5, <1>8, <1>9, <1>10, VestingsOfOne
<1> QED BY <1>7, <1>11, <1>12

LEMMA CancelVestStep ==
  ASSUME VestInv, UNCHANGED scope, NEW u \in Users, NEW amount \in Nat, CancelVest(u, amount)
  PROVE  /\ VestInv'
         /\ \E total \in Nat :
              /\ SeqSum(vestings'[u], LeftOf) + paid'[u] + total = SeqSum(vestings[u], LeftOf) + paid[u]
              /\ claimed' = [claimed EXCEPT ![u]["Eden"] = @ + total]
              /\ totalSupply' = [totalSupply EXCEPT !["Eden"] = @ + total, !.vested = @ - total]
         /\ \A w \in Users : w # u => vestings'[w] = vestings[w] /\ paid'[w] = paid[w]
<1> DEFINE open == AfterClaim(vestings[u])
           cancels == CancelledOf(open, amount)
           total == Sum(cancels, Len(open))
           s == Restarted(open, cancels)
           p == paid[u] + ClaimableOf(vestings[u])
           k == cancelled[u] + total
<1>0. height \in Nat \ {0} /\ VestingTypes
  BY DEF VestInv
<1>1. /\ UNCHANGED <<height, vestingInfo, grants, vestedNow>>
      /\ vestings' = [vestings EXCEPT ![u] = s] /\ paid' = [paid EXCEPT ![u] = p]
      /\ cancelled' = [cancelled EXCEPT ![u] = k]
      /\ claimed' = [claimed EXCEPT ![u]["Eden"] = @ + total]
      /\ totalSupply' = [totalSupply EXCEPT !["Eden"] = @ + total, !.vested = @ - total]
  BY <1>0 DEF CancelVest, settings, VestingTypes
<1>2. /\ vestings[u] \in Seq(OpenAt(height)) /\ grants[u] \in Seq(GrantedAt(height))
      /\ paid[u] \in Nat /\ cancelled[u] \in Nat /\ SeqSum(vestings[u], LeftOf) \in Nat
      /\ \A t \in Nat : t >= height => SeqSum(vestings[u], DueBy(t)) \in Nat
  BY <1>0, AccountTypes
<1>3. /\ open \in Seq(ClaimedAt(height)) /\ ClaimableOf(vestings[u]) \in Nat
      /\ SeqSum(vestings[u], LeftOf) = ClaimableOf(vestings[u]) + SeqSum(open, LeftOf)
      /\ \A t \in Nat : t >= height =>
           SeqSum(vestings[u], DueBy(t)) = ClaimableOf(vestings[u]) + SeqSum(open, DueBy(t))
  BY <1>0, <1>2, AfterClaimFacts
<1> HIDE DEF open
<1>4. /\ total \in Nat /\ s \in Seq(OpenAt(height))
      /\ SeqSum(open, LeftOf) = total + SeqSum(s, LeftOf)
      /\ \A t \in Nat : t >= height => SeqSum(s, DueBy(t)) <= SeqSum(open, DueBy(t))
  BY <1>0, <1>3, RestartedFacts
<1> HIDE DEF cancels, total, s
<1>5. ClaimedAt(height) \subseteq OpenAt(height) /\ OpenAt(height) \subseteq VestingType
  BY <1>0, OpenAtDef
<1>6. SeqSum(s, LeftOf) \in Int /\ SeqSum(open, LeftOf) \in Int
  <2>1. s \in Seq(VestingType) /\ open \in Seq(VestingType)
    BY <1>3, <1>4, <1>5
  <2> QED BY <2>1, SeqSumInt, VestingFunctions
<1>7. p \in Nat /\ k \in Nat /\ SeqSum(s, LeftOf) + p + total = SeqSum(vestings[u], LeftOf) + paid[u]
  <2>1. paid[u] \in Nat /\ cancelled[u] \in Nat /\ ClaimableOf(vestings[u]) \in Nat /\ total \in Nat
    BY <1>2, <1>3, <1>4
  <2>2. SeqSum(vestings[u], LeftOf) = ClaimableOf(vestings[u]) + (total + SeqSum(s, LeftOf))
    BY <1>3, <1>4
  <2> QED BY <1>6, <2>1, <2>2
<1>8. SeqSum(grants[u], TotalsOf) = p + k + SeqSum(s, LeftOf)
  <2>1. SeqSum(grants[u], TotalsOf) = paid[u] + cancelled[u] + SeqSum(vestings[u], LeftOf)
    BY DEF VestInv, Conserved
  <2> QED BY <1>2, <1>3, <1>4, <1>6, <2>1, SMTT(30)
<1>9. ASSUME NEW t \in Nat, t >= height
      PROVE  p + SeqSum(s, DueBy(t)) <= SeqSum(grants[u], PlanBy(t))
  <2>1. paid[u] + SeqSum(vestings[u], DueBy(t)) <= SeqSum(grants[u], PlanBy(t))
    BY <1>9 DEF VestInv, Scheduled
  <2>2. SeqSum(s, DueBy(t)) \in Nat /\ SeqSum(open, DueBy(t)) \in Nat
    <3>1. open \in Seq(OpenAt(height))
      BY <1>3, <1>5
    <3> QED BY <1>0, <1>4, <1>9, <3>1, DueSumInt
  <2>3. SeqSum(vestings[u], DueBy(t)) = ClaimableOf(vestings[u]) + SeqSum(open, DueBy(t))
        /\ SeqSum(s, DueBy(t)) <= SeqSum(open, DueBy(t))
    BY <1>3, <1>4, <1>9
  <2>4. SeqSum(grants[u], PlanBy(t)) \in Int
    BY <1>0, <1>2, <1>9, PlanNat
  <2> QED BY <1>2, <1>3, <2>1, <2>2, <2>3, <2>4
<1>10. grants' = [grants EXCEPT ![u] = grants[u]]
  BY <1>0, <1>1 DEF VestingTypes
<1>11. /\ vestings'[u] = s /\ paid'[u] = p
       /\ \A w \in Users : w # u => vestings'[w] = vestings[w] /\ paid'[w] = paid[w]
  BY <1>0, <1>1 DEF VestingTypes
<1> HIDE DEF p, k
<1>12. VestInv'
  BY <1>1, <1>2, <1>4, <1>7, <1>8, <1>9, <1>10, VestingsOfOne
<1> QED BY <1>1, <1>4, <1>7, <1>11, <1>12

LEMMA BlockVestings ==
  ASSUME VestInv, UNCHANGED scope, NextBlock
  PROVE  VestInv' /\ UNCHANGED <<vestings, paid>>
<1>1. /\ height' = height + 1 /\ height \in Nat \ {0}
      /\ UNCHANGED <<vestings, grants, cancelled, paid, vestedNow, vestingInfo>>
  BY DEF NextBlock, conversion, settings, VestInv
<1>2. OpenAt(height) \subseteq OpenAt(height') /\ GrantedAt(height) \subseteq GrantedAt(height')
  <2>1. height' \in Nat /\ height <= height'
    BY <1>1
  <2> QED BY <1>1, <2>1, OpenAtDef
<1>3. VestingTypes'
  <2>1. VestingTypes
    BY DEF VestInv
  <2>2. Seq(OpenAt(height)) \subseteq Seq(OpenAt(height')) /\ Seq(GrantedAt(height)) \subseteq Seq(GrantedAt(height'))
    BY <1>2
  <2> HIDE DEF OpenAt
  <2> QED BY <1>1, <2>1, <2>2 DEF VestingTypes
<1>4. Conserved' /\ Scheduled'
  <2>1. \A t \in Nat : t >= height' => t >= height
    BY <1>1
  <2> QED BY <1>1, <2>1 DEF VestInv, Conserved, Scheduled
<1> QED BY <1>1, <1>3, <1>4 DEF VestInv
-----------------------------------------------------------------------------
(***************************************************************************)
(* The ledgers: what accounts hold and are owed, account by account.       *)
(***************************************************************************)
LedgerTypes ==
    /\ claimed \in [Users -> [Denoms -> Nat]] /\ committed \in [Users -> [Denoms -> Nat]]
    /\ totalCommitted \in [Denoms -> Nat] /\ minted \in [Denoms -> Nat] /\ burnt \in Nat
    /\ totalSupply \in [{"Eden", "EdenB", "vested"} -> Int]
    /\ enableVestNow \in BOOLEAN
    /\ programClaimed \subseteq Users /\ stakeChange \subseteq Users
    /\ staked \in [Users -> Nat] /\ snapshot \in [Users -> Nat]
    /\ startingInfo \in [Validators -> SUBSET Users]
    /\ pending \in [Validators -> [Users -> [Denoms -> Nat]]]

LedgerInv == LedgerTypes /\ TotalsCoverCommitments /\ DelegationsCanWithdraw

EdenOf(u) ==
    claimed[u]["Eden"] + committed[u]["Eden"] + PendingOf(u, Validators)["Eden"]
      + (SeqSum(vestings[u], LeftOf) + paid[u])

EdenBHeld(u) == claimed[u]["EdenB"] + committed[u]["EdenB"] + PendingOf(u, Validators)["EdenB"]

Solvent ==
    /\ Sum([u \in Users |-> EdenOf(u)], NumUsers) + vestedNow <= minted["Eden"]
    /\ Sum([u \in Users |-> EdenBHeld(u)], NumUsers) + burnt <= minted["EdenB"]

IInv == VestInv /\ LedgerInv /\ Solvent

LEMMA DenomsDef == /\ "Eden" \in Denoms /\ "EdenB" \in Denoms /\ "Eden" # "EdenB"
                   /\ Denoms \subseteq Validators /\ "Elys" \in Validators /\ "Elys" \notin Denoms
                   /\ \A d \in Denoms : d = "Eden" \/ d = "EdenB"
                   /\ \A v \in Validators : v = "Eden" \/ v = "EdenB" \/ v = "Elys"
BY DEF Denoms, Validators

LEMMA TotalOfOne ==
  ASSUME NEW f \in [Users -> [Denoms -> Nat]], NEW d \in Denoms, NEW u \in Users
  PROVE  /\ TotalOf(f, d) \in Nat /\ f[u][d] <= TotalOf(f, d)
         /\ \A g \in [Users -> [Denoms -> Nat]] :
              (\A w \in Users : w # u => g[w][d] = f[w][d])
                => TotalOf(g, d) = TotalOf(f, d) + g[u][d] - f[u][d]
<1> DEFINE F == [w \in Users |-> f[w][d]]
<1>1. NumUsers \in Nat /\ Users = 1 .. NumUsers
  BY CommitmentAssumption DEF Users
<1>2. F \in [1 .. NumUsers -> Nat] /\ F \in [1 .. NumUsers -> Int] /\ F[u] = f[u][d]
  BY <1>1
<1> HIDE DEF F
<1>3. Sum(F, NumUsers) \in Nat /\ F[u] <= Sum(F, NumUsers)
  BY <1>1, <1>2, SumBound
<1>4. ASSUME NEW g \in [Users -> [Denoms -> Nat]], \A w \in Users : w # u => g[w][d] = f[w][d]
      PROVE  TotalOf(g, d) = TotalOf(f, d) + g[u][d] - f[u][d]
  <2> DEFINE G == [w \in Users |-> g[w][d]]
  <2>1. G \in [1 .. NumUsers -> Int] /\ G[u] = g[u][d]
    BY <1>1
  <2>2. \A w \in 1 .. NumUsers : w # u => G[w] = F[w]
    BY <1>1, <1>4 DEF F
  <2> HIDE DEF G
  <2>3. Sum(G, NumUsers) = Sum(F, NumUsers) + G[u] - F[u]
    BY <1>1, <1>2, <2>1, <2>2, SumUpdate
  <2> QED BY <1>2, <2>1, <2>3 DEF TotalOf, F, G
<1> QED BY <1>2, <1>3, <1>4 DEF TotalOf, F

\* A ledger of which one account's figure changes.
LEMMA TotalOfStep ==
  ASSUME NEW f \in [Users -> [Denoms -> Nat]], NEW g \in [Users -> [Denoms -> Nat]],
         NEW d \in Denoms, NEW u \in Users,
         \A w \in Users : w # u => g[w][d] = f[w][d]
  PROVE  TotalOf(g, d) = TotalOf(f, d) + g[u][d] - f[u][d]
BY TotalOfOne

LEMMA CommittedTotal ==
  ASSUME committed \in [Users -> [Denoms -> Nat]], committed' \in [Users -> [Denoms -> Nat]],
         NEW d \in Denoms, NEW u \in Users,
         \A w \in Users : w # u => committed'[w][d] = committed[w][d]
  PROVE  /\ TotalOf(committed, d) \in Nat /\ committed[u][d] <= TotalOf(committed, d)
         /\ committed[u][d] \in Nat /\ committed'[u][d] \in Nat
         /\ TotalOf(committed', d) = TotalOf(committed, d) + committed'[u][d] - committed[u][d]
<1>1. PICK f, g : f = committed /\ g = committed'
  OBVIOUS
<1>2. /\ f \in [Users -> [Denoms -> Nat]] /\ g \in [Users -> [Denoms -> Nat]]
      /\ \A w \in Users : w # u => g[w][d] = f[w][d]
  BY <1>1
<1>3. TotalOf(g, d) = TotalOf(f, d) + g[u][d] - f[u][d]
  BY <1>2, TotalOfStep
<1>4. TotalOf(f, d) \in Nat /\ f[u][d] <= TotalOf(f, d) /\ f[u][d] \in Nat /\ g[u][d] \in Nat
  BY <1>2, TotalOfOne, SMTT(30)
<1> QED BY <1>1, <1>3, <1>4, Zenon

\* A total that goes with the figure of one account covers the ledger, or
\* equals it, as before.
LEMMA CommittedStep ==
  ASSUME committed \in [Users -> [Denoms -> Nat]], committed' \in [Users -> [Denoms -> Nat]],
         NEW d \in Denoms, NEW u \in Users,
         \A w \in Users : w # u => committed'[w][d] = committed[w][d],
         totalCommitted[d] \in Nat, totalCommitted[d] >= TotalOf(committed, d),
         totalCommitted'[d] = totalCommitted[d] + (committed'[u][d] - committed[u][d])
  PROVE  /\ totalCommitted'[d] \in Nat /\ totalCommitted'[d] >= TotalOf(committed', d)
         /\ totalCommitted[d] = TotalOf(committed, d) => totalCommitted'[d] = TotalOf(committed', d)
BY CommittedTotal

LEMMA PendingNat ==
  ASSUME LedgerTypes, NEW u \in Users, NEW V \in SUBSET Validators
  PROVE  /\ PendingOf(u, V) \in [Denoms -> Nat]
         /\ \A d \in Denoms : PendingOf(u, V)[d] <= PendingOf(u, Validators)[d]
<1>1. \A d \in Denoms, v \in Validators : pending[v][u][d] \in Nat
  BY DEF LedgerTypes
<1>2. \A d \in Denoms : /\ pending["Elys"][u][d] \in Nat /\ pending["Eden"][u][d] \in Nat
                        /\ pending["EdenB"][u][d] \in Nat
  BY <1>1, DenomsDef
<1>3. PendingOf(u, V) \in [Denoms -> Nat]
  BY <1>2 DEF PendingOf
<1>4. ASSUME NEW d \in Denoms PROVE PendingOf(u, V)[d] <= PendingOf(u, Validators)[d]
  BY <1>2, DenomsDef DEF PendingOf
<1> QED BY <1>3, <1>4

\* What is withdrawn is not pending any more.
LEMMA PendingClearedFacts ==
  ASSUME LedgerTypes, NEW S \in SUBSET Users, NEW V \in SUBSET Validators,
         pending' = PendingCleared(S, V)
  PROVE  /\ pending' \in [Validators -> [Users -> [Denoms -> Nat]]]
         /\ \A w \in Users : PendingOf(w, Validators)' \in [Denoms -> Nat]
         /\ \A w \in Users : w \notin S => PendingOf(w, Validators)' = PendingOf(w, Validators)
         /\ \A w \in S, d \in Denoms :
              PendingOf(w, Validators)'[d] + PendingOf(w, V)[d] = PendingOf(w, Validators)[d]
<1>1. \A w \in Users, d \in Denoms, v \in Validators : pending[v][w][d] \in Nat
  BY DEF LedgerTypes
<1>2. pending' \in [Validators -> [Users -> [Denoms -> Nat]]]
  BY DEF PendingCleared, NoCoins, LedgerTypes
<1>3. \A v \in Validators, w \in Users :
        pending'[v][w] = IF v \in V /\ w \in S THEN NoCoins ELSE pending[v][w]
  BY DEF PendingCleared
<1>4. ASSUME NEW w \in Users, w \notin S PROVE PendingOf(w, Validators)' = PendingOf(w, Validators)
  <2>1. \A v \in Validators : pending'[v][w] = pending[v][w]
    BY <1>3, <1>4
  <2> QED BY <2>1, DenomsDef DEF PendingOf
<1>5. ASSUME NEW w \in S, NEW d \in Denoms
      PROVE  PendingOf(w, Validators)'[d] + PendingOf(w, V)[d] = PendingOf(w, Validators)[d]
  <2>1. \A v \in Validators : pending'[v][w][d] = IF v \in V THEN 0 ELSE pending[v][w][d]
    BY <1>3 DEF NoCoins
  <2>2. PendingOf(w, Validators)'[d] = pending'["Elys"][w][d] + pending'["Eden"][w][d] + pending'["EdenB"][w][d]
    BY DenomsDef DEF PendingOf
  <2>3. PendingOf(w, Validators)[d] = pending["Elys"][w][d] + pending["Eden"][w][d] + pending["EdenB"][w][d]
    BY DenomsDef DEF PendingOf
  <2>4. PendingOf(w, V)[d] = (IF "Elys" \in V THEN pending["Elys"][w][d] ELSE 0)
                           + (IF "Eden" \in V THEN pending["Eden"][w][d] ELSE 0)
                           + (IF "EdenB" \in V THEN pending["EdenB"][w][d] ELSE 0)
    BY DEF PendingOf
  <2>5. /\ pending["Elys"][w][d] \in Nat /\ pending["Eden"][w][d] \in Nat
        /\ pending["EdenB"][w][d] \in Nat
    BY <1>1, DenomsDef
  <2>6. /\ pending'["Elys"][w][d] = IF "Elys" \in V THEN 0 ELSE pending["Elys"][w][d]
        /\ pending'["Eden"][w][d] = IF "Eden" \in V THEN 0 ELSE pending["Eden"][w][d]
        /\ pending'["EdenB"][w][d] = IF "EdenB" \in V THEN 0 ELSE pending["EdenB"][w][d]
    BY <2>1, DenomsDef
  <2> QED BY <2>2, <2>3, <2>4, <2>5, <2>6
<1>6. ASSUME NEW w \in Users PROVE PendingOf(w, Validators)' \in [Denoms -> Nat]
  <2>1. \A d \in Denoms, v \in Validators : pending'[v][w][d] \in Nat
    BY <1>2
  <2>2. \A d \in Denoms : /\ pending'["Elys"][w][d] \in Nat /\ pending'["Eden"][w][d] \in Nat
                          /\ pending'["EdenB"][w][d] \in Nat
    BY <2>1, DenomsDef
  <2> QED BY <2>2 DEF PendingOf
<1> QED BY <1>2, <1>4, <1>5, <1>6

HeldNaturals == \A u \in Users : EdenOf(u) \in Nat /\ EdenBHeld(u) \in Nat

LEMMA HeldNat == VestInv /\ LedgerTypes => HeldNaturals
<1> SUFFICES ASSUME VestInv, LedgerTypes, NEW u \in Users
             PROVE  EdenOf(u) \in Nat /\ EdenBHeld(u) \in Nat
  BY DEF HeldNaturals
<1>1. height \in Nat
  BY DEF VestInv
<1>2. SeqSum(vestings[u], LeftOf) \in Nat /\ paid[u] \in Nat
  BY <1>1, AccountTypes
<1>3. /\ PendingOf(u, Validators)["Eden"] \in Nat /\ PendingOf(u, Validators)["EdenB"] \in Nat
  BY PendingNat, DenomsDef
<1>4. /\ claimed[u]["Eden"] \in Nat /\ committed[u]["Eden"] \in Nat
      /\ claimed[u]["EdenB"] \in Nat /\ committed[u]["EdenB"] \in Nat
  BY DenomsDef DEF LedgerTypes
<1> QED BY <1>2, <1>3, <1>4 DEF EdenOf, EdenBHeld

LEMMA HeldNatNext == VestInv' /\ LedgerTypes' => HeldNaturals'
BY HeldNat, PTL

\* An account that gains what is minted for it, and no more.
LEMMA SolventStep ==
  ASSUME VestInv, LedgerTypes, Solvent, VestInv', LedgerTypes', NEW u \in Users,
         \A w \in Users : w # u => EdenOf(w)' = EdenOf(w) /\ EdenBHeld(w)' = EdenBHeld(w),
         EdenOf(u)' + vestedNow' + minted["Eden"] <= EdenOf(u) + vestedNow + minted'["Eden"],
         EdenBHeld(u)' + burnt' + minted["EdenB"] <= EdenBHeld(u) + burnt + minted'["EdenB"]
  PROVE  Solvent'
<1> DEFINE e == [w \in Users |-> EdenOf(w)]
           f == [w \in Users |-> EdenOf(w)']
           b == [w \in Users |-> EdenBHeld(w)]
           c == [w \in Users |-> EdenBHeld(w)']
<1>1. NumUsers \in Nat /\ Users = 1 .. NumUsers
  BY CommitmentAssumption DEF Users
<1>2. \A w \in Users : EdenOf(w) \in Nat /\ EdenBHeld(w) \in Nat
  BY HeldNat DEF HeldNaturals
<1>3. \A w \in Users : EdenOf(w)' \in Nat /\ EdenBHeld(w)' \in Nat
  BY HeldNatNext DEF HeldNaturals
<1>4. /\ e \in [1 .. NumUsers -> Int] /\ f \in [1 .. NumUsers -> Int]
      /\ b \in [1 .. NumUsers -> Int] /\ c \in [1 .. NumUsers -> Int]
      /\ \A w \in Users : e[w] = EdenOf(w) /\ f[w] = EdenOf(w)' /\ b[w] = EdenBHeld(w) /\ c[w] = EdenBHeld(w)'
  BY <1>1, <1>2, <1>3
<1> HIDE DEF e, f, b, c
<1>5. Sum(f, NumUsers) = Sum(e, NumUsers) + f[u] - e[u] /\ Sum(c, NumUsers) = Sum(b, NumUsers) + c[u] - b[u]
  <2>1. u \in 1 .. NumUsers /\ \A w \in 1 .. NumUsers : w # u => f[w] = e[w] /\ c[w] = b[w]
    BY <1>1, <1>4
  <2>2. /\ e \in [1 .. NumUsers -> Int] /\ f \in [1 .. NumUsers -> Int]
        /\ b \in [1 .. NumUsers -> Int] /\ c \in [1 .. NumUsers -> Int]
    BY <1>4
  <2>3. Sum(f, NumUsers) = Sum(e, NumUsers) + f[u] - e[u]
    BY <1>1, <2>1, <2>2, SumUpdate, Zenon
  <2>4. Sum(c, NumUsers) = Sum(b, NumUsers) + c[u] - b[u]
    BY <1>1, <2>1, <2>2, SumUpdate, Zenon
  <2> QED BY <2>3, <2>4
<1>6. Sum(e, NumUsers) \in Int /\ Sum(b, NumUsers) \in Int
  BY <1>1, <1>4, SumInt
<1>7. /\ minted["Eden"] \in Nat /\ minted["EdenB"] \in Nat /\ burnt \in Nat /\ vestedNow \in Nat
      /\ minted'["Eden"] \in Nat /\ minted'["EdenB"] \in Nat /\ burnt' \in Nat /\ vestedNow' \in Nat
  BY DenomsDef DEF LedgerTypes, VestInv, VestingTypes
<1>8. Sum(e, NumUsers) + vestedNow <= minted["Eden"] /\ Sum(b, NumUsers) + burnt <= minted["EdenB"]
  BY DEF Solvent, e, b
<1>9. EdenOf(u)' \in Nat /\ EdenOf(u) \in Nat /\ EdenBHeld(u) \in Nat /\ EdenBHeld(u)' \in Nat
  BY <1>2, <1>3
\* S is the total before, x and y what u held before and now, n and m what was
\* converted, k and l what was minted.
<1>10. \A S, x, y, n, m, k, l \in Int :
         S + n <= k /\ y + m + k <= x + n + l => (S + y - x) + m <= l
  OBVIOUS
<1>11. /\ Sum(f, NumUsers) = Sum(e, NumUsers) + EdenOf(u)' - EdenOf(u)
       /\ Sum(c, NumUsers) = Sum(b, NumUsers) + EdenBHeld(u)' - EdenBHeld(u)
  BY <1>4, <1>5
<1>12. Sum(f, NumUsers) + vestedNow' <= minted'["Eden"]
  BY <1>6, <1>7, <1>8, <1>9, <1>10, <1>11
<1>13. Sum(c, NumUsers) + burnt' <= minted'["EdenB"]
  BY <1>6, <1>7, <1>8, <1>9, <1>10, <1>11
<1> QED BY <1>12, <1>13 DEF Solvent, f, c
-----------------------------------------------------------------------------
(***************************************************************************)
(* The steps of one account.                                               *)
(***************************************************************************)
LEMMA HeldKept ==
  ASSUME NEW w \in Users, claimed'[w] = claimed[w], committed'[w] = committed[w],
         PendingOf(w, Validators)' = PendingOf(w, Validators),
         vestings'[w] = vestings[w], paid'[w] = paid[w]
  PROVE  EdenOf(w)' = EdenOf(w) /\ EdenBHeld(w)' = EdenBHeld(w)
BY DEF EdenOf, EdenBHeld

LEMMA AccountStep ==
  ASSUME IInv, VestInv', LedgerInv', NEW u \in Users,
         \A w \in Users : w # u =>
           /\ claimed'[w] = claimed[w] /\ committed'[w] = committed[w]
           /\ PendingOf(w, Validators)' = PendingOf(w, Validators)
           /\ vestings'[w] = vestings[w] /\ paid'[w] = paid[w],
         EdenOf(u)' + vestedNow' + minted["Eden"] <= EdenOf(u) + vestedNow + minted'["Eden"],
         EdenBHeld(u)' + burnt' + minted["EdenB"] <= EdenBHeld(u) + burnt + minted'["EdenB"]
  PROVE  IInv'
<1>1. \A w \in Users : w # u => EdenOf(w)' = EdenOf(w) /\ EdenBHeld(w)' = EdenBHeld(w)
  BY HeldKept
<1>2. VestInv /\ LedgerTypes /\ Solvent /\ LedgerTypes'
  BY DEF IInv, LedgerInv
<1>3. Solvent'
  BY <1>1, <1>2, SolventStep
<1> QED BY <1>3 DEF IInv

\* The delegations after a step of account u on validator v.
LEMMA InfoAfterFacts ==
  ASSUME LedgerTypes, NEW u \in Users, NEW v \in Validators, NEW left \in Nat,
         NEW info, info = InfoAfter(u, v, left)
  PROVE  /\ info \in [Validators -> SUBSET Users]
         /\ \A x \in Users, y \in Validators :
              x \in info[y] <=> IF x = u /\ y = v THEN left > 0 ELSE x \in startingInfo[y]
<1>1. startingInfo \in [Validators -> SUBSET Users]
  BY DEF LedgerTypes
<1>2. CASE left > 0
  <2>1. info = [startingInfo EXCEPT ![v] = @ \cup {u}]
    BY <1>2 DEF InfoAfter
  <2> QED BY <1>1, <1>2, <2>1
<1>3. CASE ~ left > 0
  <2>1. info = [startingInfo EXCEPT ![v] = @ \ {u}]
    BY <1>3 DEF InfoAfter
  <2> QED BY <1>1, <1>3, <2>1
<1> QED BY <1>2, <1>3

\* What every account holds, in numbers.
LEMMA AmountsNat ==
  ASSUME IInv, NEW u \in Users
  PROVE  /\ \A d \in Denoms : claimed[u][d] \in Nat /\ committed[u][d] \in Nat
                               /\ totalCommitted[d] \in Nat /\ minted[d] \in Nat
         /\ staked[u] \in Nat /\ snapshot[u] \in Nat /\ burnt \in Nat /\ vestedNow \in Nat
         /\ SeqSum(vestings[u], LeftOf) \in Nat /\ paid[u] \in Nat
         /\ PendingOf(u, Validators)["Eden"] \in Nat /\ PendingOf(u, Validators)["EdenB"] \in Nat
         /\ EdenOf(u) \in Nat /\ EdenBHeld(u) \in Nat
<1>1. VestInv /\ LedgerTypes /\ height \in Nat
  BY DEF IInv, LedgerInv, VestInv
<1>2. SeqSum(vestings[u], LeftOf) \in Nat /\ paid[u] \in Nat /\ vestedNow \in Nat
  BY <1>1, AccountTypes
<1>3. EdenOf(u) \in Nat /\ EdenBHeld(u) \in Nat
  BY <1>1, HeldNat DEF HeldNaturals
<1>4. PendingOf(u, Validators)["Eden"] \in Nat /\ PendingOf(u, Validators)["EdenB"] \in Nat
  BY <1>1, PendingNat, DenomsDef
<1> QED BY <1>1, <1>2, <1>3, <1>4 DEF LedgerTypes

(***************************************************************************)
(* Rewards are withdrawn into the claims of an account.                    *)
(***************************************************************************)
LEMMA WithdrawnStep ==
  ASSUME IInv, NEW u \in Users, NEW V \in SUBSET Validators,
         claimed' = [claimed EXCEPT ![u] = Plus(@, PendingOf(u, V))],
         pending' = PendingCleared({u}, V),
         UNCHANGED <<scope, height, committed, totalCommitted, conversion, settings, totalSupply,
                     snapshot, minted, burnt>>,
         staked' \in [Users -> Nat], stakeChange' \subseteq Users,
         startingInfo' \in [Validators -> SUBSET Users], DelegationsCanWithdraw'
  PROVE  IInv' /\ \A w \in Users : EdenBOf(w)' >= EdenBOf(w)
<1>0. LedgerTypes /\ VestInv /\ TotalsCoverCommitments
  BY DEF IInv, LedgerInv
<1>1. PendingOf(u, V) \in [Denoms -> Nat]
  BY <1>0, PendingNat
<1>2. /\ claimed \in [Users -> [Denoms -> Nat]]
      /\ claimed'[u] = Plus(claimed[u], PendingOf(u, V))
      /\ \A w \in Users : w # u => claimed'[w] = claimed[w]
  BY <1>0 DEF LedgerTypes
<1>3. \A d \in Denoms : claimed'[u][d] = claimed[u][d] + PendingOf(u, V)[d] /\ claimed[u][d] \in Nat
  BY <1>2 DEF Plus
<1>4. claimed' \in [Users -> [Denoms -> Nat]]
  <2>1. Plus(claimed[u], PendingOf(u, V)) \in [Denoms -> Nat]
    BY <1>1, <1>2 DEF Plus
  <2> QED BY <1>2, <2>1
<1>5. /\ pending' \in [Validators -> [Users -> [Denoms -> Nat]]]
      /\ \A w \in Users : w # u => PendingOf(w, Validators)' = PendingOf(w, Validators)
      /\ \A d \in Denoms : PendingOf(u, Validators)'[d] + PendingOf(u, V)[d] = PendingOf(u, Validators)[d]
      /\ PendingOf(u, Validators)'["Eden"] \in Nat /\ PendingOf(u, Validators)'["EdenB"] \in Nat
  <2>1. {u} \in SUBSET Users
    OBVIOUS
  <2>2. PendingOf(u, Validators)' \in [Denoms -> Nat]
    BY <1>0, <2>1, PendingClearedFacts
  <2>3. /\ pending' \in [Validators -> [Users -> [Denoms -> Nat]]]
        /\ \A w \in Users : w # u => PendingOf(w, Validators)' = PendingOf(w, Validators)
    BY <1>0, <2>1, PendingClearedFacts
  <2>4. \A d \in Denoms : PendingOf(u, Validators)'[d] + PendingOf(u, V)[d] = PendingOf(u, Validators)[d]
    BY <1>0, <2>1, PendingClearedFacts
  <2> QED BY <2>2, <2>3, <2>4, DenomsDef
<1>6. LedgerTypes'
  BY <1>0, <1>4, <1>5 DEF LedgerTypes, settings
<1>7. TotalsCoverCommitments'
  BY <1>0 DEF TotalsCoverCommitments
<1>8. VestInv' /\ UNCHANGED <<vestings, paid, vestedNow>>
  <2>1. vestedNow \in Nat /\ vestingInfo \in scope.vestingInfos
    BY <1>0 DEF VestInv, VestingTypes
  <2> QED BY <1>0, <2>1, VestingsKept DEF conversion, settings
<1>9. /\ claimed'[u]["Eden"] + PendingOf(u, Validators)'["Eden"]
           = claimed[u]["Eden"] + PendingOf(u, Validators)["Eden"]
      /\ claimed'[u]["EdenB"] + PendingOf(u, Validators)'["EdenB"]
           = claimed[u]["EdenB"] + PendingOf(u, Validators)["EdenB"]
  <2>1. PendingOf(u, V)["Eden"] \in Nat /\ PendingOf(u, V)["EdenB"] \in Nat
    BY <1>1, DenomsDef
  <2> QED BY <1>3, <1>5, <2>1, DenomsDef
<1>10. EdenOf(u)' = EdenOf(u) /\ EdenBHeld(u)' = EdenBHeld(u)
  <2>1. /\ claimed'[u]["Eden"] \in Nat /\ claimed'[u]["EdenB"] \in Nat
        /\ claimed[u]["Eden"] \in Nat /\ claimed[u]["EdenB"] \in Nat
        /\ committed[u]["Eden"] \in Nat /\ committed[u]["EdenB"] \in Nat
    BY <1>4, DenomsDef, AmountsNat
  <2>2. PendingOf(u, Validators)["Eden"] \in Nat /\ PendingOf(u, Validators)["EdenB"] \in Nat
    BY AmountsNat
  <2>3. PendingOf(u, Validators)'["Eden"] \in Int /\ PendingOf(u, Validators)'["EdenB"] \in Int
    BY <1>5
  <2>4. \A a, b, c, x, y, z \in Int : a + b = x + y => a + c + b = x + c + y
    OBVIOUS
  <2> QED BY <1>8, <1>9, <2>1, <2>2, <2>3, <2>4 DEF EdenOf, EdenBHeld
<1>11. IInv'
  <2>1. LedgerInv'
    BY <1>6, <1>7 DEF LedgerInv
  <2>2. EdenOf(u) \in Nat /\ EdenBHeld(u) \in Nat /\ vestedNow \in Nat /\ burnt \in Nat
        /\ minted["Eden"] \in Nat /\ minted["EdenB"] \in Nat
    BY AmountsNat, DenomsDef
  <2>3. /\ EdenOf(u)' + vestedNow' + minted["Eden"] <= EdenOf(u) + vestedNow + minted'["Eden"]
        /\ EdenBHeld(u)' + burnt' + minted["EdenB"] <= EdenBHeld(u) + burnt + minted'["EdenB"]
    BY <1>8, <1>10, <2>2
  <2> QED BY <1>2, <1>5, <1>8, <2>1, <2>3, AccountStep
<1>12. ASSUME NEW w \in Users PROVE EdenBOf(w)' >= EdenBOf(w)
  <2>1. claimed[w]["EdenB"] \in Nat /\ committed[w]["EdenB"] \in Nat
    BY AmountsNat, DenomsDef
  <2>2. claimed'[w]["EdenB"] \in Nat /\ claimed'[w]["EdenB"] >= claimed[w]["EdenB"]
    <3>1. CASE w = u
      <4>1. PendingOf(u, V)["EdenB"] \in Nat
        BY <1>1, DenomsDef
      <4> QED BY <1>3, <2>1, <3>1, <4>1, DenomsDef
    <3>2. CASE w # u
      BY <1>2, <2>1, <3>2
    <3> QED BY <3>1, <3>2
  <2> QED BY <2>1, <2>2 DEF EdenBOf
<1> QED BY <1>11, <1>12

\* Nobody's EdenB falls without a cause.
FallsForACause ==
    \A w \in Users : EdenBOf(w)' < EdenBOf(w) =>
        \/ committed'[w]["Eden"] < committed[w]["Eden"]
        \/ height' > height /\ staked[w] < snapshot[w]

LEMMA NotBelow ==
  ASSUME IInv, IInv', \A w \in Users : EdenBOf(w)' >= EdenBOf(w)
  PROVE  FallsForACause
<1> SUFFICES ASSUME NEW w \in Users PROVE ~ (EdenBOf(w)' < EdenBOf(w))
  BY DEF FallsForACause
<1>1. EdenBOf(w) \in Nat
  BY AmountsNat, DenomsDef DEF EdenBOf
<1>2. claimed'[w]["EdenB"] \in Nat /\ committed'[w]["EdenB"] \in Nat
  BY DenomsDef DEF IInv, LedgerInv, LedgerTypes
<1>3. EdenBOf(w)' \in Nat
  BY <1>2 DEF EdenBOf
<1> QED BY <1>1, <1>3

LEMMA WithdrawStep ==
  ASSUME IInv, UNCHANGED scope, NEW u \in Users,
         WithdrawAllRewards(u) \/ \E v \in Validators : WithdrawReward(u, v)
  PROVE  IInv' /\ FallsForACause
<1>1. PICK V \in SUBSET Validators :
        /\ claimed' = [claimed EXCEPT ![u] = Plus(@, PendingOf(u, V))]
        /\ pending' = PendingCleared({u}, V)
  BY DEF WithdrawAllRewards, WithdrawReward
<1>2. UNCHANGED <<height, committed, totalCommitted, conversion, stakes, startingInfo, settings,
                  totalSupply, minted, burnt>>
  BY DEF WithdrawAllRewards, WithdrawReward
<1>3. /\ staked' \in [Users -> Nat] /\ stakeChange' \subseteq Users
      /\ startingInfo' \in [Validators -> SUBSET Users] /\ snapshot' = snapshot
  BY <1>2 DEF IInv, LedgerInv, LedgerTypes, stakes
<1>4. DelegationsCanWithdraw'
  BY <1>2 DEF IInv, LedgerInv, DelegationsCanWithdraw, HasDelegation, stakes
<1>5. IInv' /\ \A w \in Users : EdenBOf(w)' >= EdenBOf(w)
  BY <1>1, <1>2, <1>3, <1>4, WithdrawnStep
<1> QED BY <1>5, NotBelow

LEMMA DelegationStep ==
  ASSUME IInv, UNCHANGED scope, NEW u \in Users, NEW amount \in Nat,
         Delegate(u, amount) \/ Undelegate(u, amount)
  PROVE  IInv' /\ FallsForACause
<1>0. LedgerTypes /\ DelegationsCanWithdraw /\ staked[u] \in Nat
  BY AmountsNat DEF IInv, LedgerInv
<1>1. PICK newStake \in Nat : DelegationChanges(u, newStake)
  BY <1>0 DEF Delegate, Undelegate
<1>2. /\ staked' = [staked EXCEPT ![u] = newStake]
      /\ claimed' = [claimed EXCEPT ![u] = Plus(@, PendingOf(u, {"Elys"}))]
      /\ pending' = PendingCleared({u}, {"Elys"})
      /\ startingInfo' = InfoAfter(u, "Elys", newStake)
      /\ stakeChange' = stakeChange \cup {u}
      /\ UNCHANGED <<height, committed, totalCommitted, conversion, snapshot, settings,
                     totalSupply, minted, burnt>>
  BY <1>1 DEF DelegationChanges
<1>3. staked' \in [Users -> Nat] /\ stakeChange' \subseteq Users /\ {"Elys"} \in SUBSET Validators
  BY <1>0, <1>2, DenomsDef DEF LedgerTypes
<1>4. /\ startingInfo' \in [Validators -> SUBSET Users]
      /\ \A x \in Users, y \in Validators :
           x \in startingInfo'[y] <=> IF x = u /\ y = "Elys" THEN newStake > 0 ELSE x \in startingInfo[y]
  BY <1>0, <1>2, InfoAfterFacts, DenomsDef
<1>5. \A x \in Users : staked'[x] = IF x = u THEN newStake ELSE staked[x]
  BY <1>0, <1>2 DEF LedgerTypes
<1>6. DelegationsCanWithdraw'
  <2> SUFFICES ASSUME NEW x \in Users, NEW y \in Validators
               PROVE  x \in startingInfo'[y] <=> (IF y = "Elys" THEN staked'[x] > 0 ELSE committed'[x][y] > 0)
    BY DEF DelegationsCanWithdraw, HasDelegation
  <2>1. x \in startingInfo[y] <=> IF y = "Elys" THEN staked[x] > 0 ELSE committed[x][y] > 0
    BY <1>0 DEF DelegationsCanWithdraw, HasDelegation
  <2> QED BY <1>2, <1>4, <1>5, <2>1
<1>7. IInv' /\ \A w \in Users : EdenBOf(w)' >= EdenBOf(w)
  BY <1>2, <1>3, <1>4, <1>6, WithdrawnStep
<1> QED BY <1>7, NotBelow

(***************************************************************************)
(* Eden or EdenB moves between the claims and the commitments of one       *)
(* account; rewards pending on the delegation are dropped.                 *)
(***************************************************************************)
LEMMA MovedStep ==
  ASSUME IInv, UNCHANGED scope, NEW u \in Users, NEW d \in Denoms,
         NEW c \in Nat, NEW k \in Nat, c + k = claimed[u][d] + committed[u][d],
         claimed' = [claimed EXCEPT ![u][d] = c],
         committed' = [committed EXCEPT ![u][d] = k],
         totalCommitted' = [totalCommitted EXCEPT ![d] = @ + (k - committed[u][d])],
         pending' = PendingCleared({u}, {d}),
         startingInfo' = InfoAfter(u, d, k),
         stakeChange' = stakeChange \cup {u},
         UNCHANGED <<height, conversion, staked, snapshot, settings, totalSupply, minted, burnt>>
  PROVE  IInv' /\ FallsForACause
<1>0. LedgerTypes /\ VestInv /\ TotalsCoverCommitments /\ DelegationsCanWithdraw
  BY DEF IInv, LedgerInv
<1>1. /\ claimed \in [Users -> [Denoms -> Nat]] /\ committed \in [Users -> [Denoms -> Nat]]
      /\ totalCommitted \in [Denoms -> Nat]
  BY <1>0 DEF LedgerTypes
<1>2. /\ claimed' \in [Users -> [Denoms -> Nat]] /\ committed' \in [Users -> [Denoms -> Nat]]
      /\ claimed'[u][d] = c /\ committed'[u][d] = k
      /\ \A x \in Denoms : x # d => claimed'[u][x] = claimed[u][x] /\ committed'[u][x] = committed[u][x]
      /\ \A w \in Users : w # u => claimed'[w] = claimed[w] /\ committed'[w] = committed[w]
  BY <1>1
<1>3. /\ totalCommitted'[d] = totalCommitted[d] + (k - committed[u][d])
      /\ \A x \in Denoms : x # d => totalCommitted'[x] = totalCommitted[x]
      /\ totalCommitted' = [totalCommitted EXCEPT ![d] = totalCommitted'[d]]
  BY <1>1
<1>4. ASSUME NEW x \in Denoms
      PROVE  /\ totalCommitted'[x] = totalCommitted[x] + (committed'[u][x] - committed[u][x])
             /\ totalCommitted[x] \in Nat
             /\ \A w \in Users : w # u => committed'[w][x] = committed[w][x]
  <2>1. totalCommitted[x] \in Nat /\ committed[u][x] \in Nat
    BY <1>1
  <2> QED BY <1>2, <1>3, <2>1
<1>5. TotalsCoverCommitments' /\ totalCommitted'[d] \in Nat
  <2>1. /\ totalCommitted["Eden"] = TotalOf(committed, "Eden")
        /\ totalCommitted["EdenB"] >= TotalOf(committed, "EdenB")
    BY <1>0 DEF TotalsCoverCommitments
  <2>2. totalCommitted["Eden"] >= TotalOf(committed, "Eden")
    <3>1. totalCommitted["Eden"] \in Nat
      BY <1>1, DenomsDef
    <3> QED BY <2>1, <3>1
  <2>3. "Eden" \in Denoms /\ "EdenB" \in Denoms
    BY DenomsDef
  <2>4. /\ totalCommitted'["Eden"] \in Nat
        /\ totalCommitted["Eden"] = TotalOf(committed, "Eden")
             => totalCommitted'["Eden"] = TotalOf(committed', "Eden")
    BY <1>1, <1>2, <1>4, <2>2, <2>3, CommittedStep, ZenonT(40)
  <2>5. totalCommitted'["EdenB"] \in Nat /\ totalCommitted'["EdenB"] >= TotalOf(committed', "EdenB")
    BY <1>1, <1>2, <1>4, <2>1, <2>3, CommittedStep
  <2>6. totalCommitted'[d] \in Nat
    BY <2>4, <2>5, DenomsDef
  <2> QED BY <2>1, <2>4, <2>5, <2>6 DEF TotalsCoverCommitments
<1>6. /\ pending' \in [Validators -> [Users -> [Denoms -> Nat]]]
      /\ \A w \in Users : w # u => PendingOf(w, Validators)' = PendingOf(w, Validators)
      /\ PendingOf(u, Validators)'["Eden"] <= PendingOf(u, Validators)["Eden"]
      /\ PendingOf(u, Validators)'["EdenB"] <= PendingOf(u, Validators)["EdenB"]
      /\ PendingOf(u, Validators)'["Eden"] \in Nat /\ PendingOf(u, Validators)'["EdenB"] \in Nat
  <2>1. {u} \in SUBSET Users /\ {d} \in SUBSET Validators
    BY DenomsDef
  <2>2. PendingOf(u, Validators)' \in [Denoms -> Nat]
    BY <1>0, <2>1, PendingClearedFacts
  <2>3. /\ pending' \in [Validators -> [Users -> [Denoms -> Nat]]]
        /\ \A w \in Users : w # u => PendingOf(w, Validators)' = PendingOf(w, Validators)
    BY <1>0, <2>1, PendingClearedFacts
  <2>4. \A x \in Denoms : PendingOf(u, Validators)'[x] + PendingOf(u, {d})[x] = PendingOf(u, Validators)[x]
    BY <1>0, <2>1, PendingClearedFacts
  <2>5. \A x \in Denoms : PendingOf(u, {d})[x] \in Nat /\ PendingOf(u, Validators)'[x] \in Nat
    BY <1>0, <2>1, <2>2, PendingNat
  <2>6. \A x \in Denoms : PendingOf(u, Validators)'[x] <= PendingOf(u, Validators)[x]
    <3> TAKE x \in Denoms
    <3>1. PendingOf(u, Validators)'[x] + PendingOf(u, {d})[x] = PendingOf(u, Validators)[x]
          /\ PendingOf(u, {d})[x] \in Nat /\ PendingOf(u, Validators)'[x] \in Nat
      BY <2>4, <2>5
    <3> QED BY <3>1
  <2> QED BY <2>3, <2>5, <2>6, DenomsDef
<1>7. /\ startingInfo' \in [Validators -> SUBSET Users]
      /\ \A x \in Users, y \in Validators :
           x \in startingInfo'[y] <=> IF x = u /\ y = d THEN k > 0 ELSE x \in startingInfo[y]
  BY <1>0, InfoAfterFacts, DenomsDef
<1>8. DelegationsCanWithdraw'
  <2> SUFFICES ASSUME NEW x \in Users, NEW y \in Validators
               PROVE  x \in startingInfo'[y] <=> (IF y = "Elys" THEN staked'[x] > 0 ELSE committed'[x][y] > 0)
    BY DEF DelegationsCanWithdraw, HasDelegation
  <2>1. x \in startingInfo[y] <=> IF y = "Elys" THEN staked[x] > 0 ELSE committed[x][y] > 0
    BY <1>0 DEF DelegationsCanWithdraw, HasDelegation
  <2>2. CASE x = u /\ y = d
    BY <1>2, <1>7, <2>2, DenomsDef
  <2>3. CASE ~ (x = u /\ y = d)
    <3>1. y # "Elys" => committed'[x][y] = committed[x][y]
      BY <1>2, <2>3, DenomsDef
    <3> QED BY <1>7, <2>1, <2>3, <3>1
  <2> QED BY <2>2, <2>3
<1>9. LedgerInv'
  <2>1. totalCommitted' \in [Denoms -> Nat] /\ stakeChange' \subseteq Users
    BY <1>0, <1>1, <1>3, <1>5 DEF LedgerTypes
  <2>2. LedgerTypes'
    BY <1>0, <1>2, <1>6, <1>7, <2>1 DEF LedgerTypes, settings
  <2> QED BY <1>5, <1>8, <2>2 DEF LedgerInv
<1>10. VestInv' /\ UNCHANGED <<vestings, paid, vestedNow>>
  <2>1. vestedNow \in Nat /\ vestingInfo \in scope.vestingInfos
    BY <1>0 DEF VestInv, VestingTypes
  <2> QED BY <1>0, <2>1, VestingsKept DEF conversion, settings
<1>11. \A x \in Denoms : /\ claimed'[u][x] + committed'[u][x] = claimed[u][x] + committed[u][x]
                         /\ claimed'[u][x] \in Nat /\ committed'[u][x] \in Nat
                         /\ claimed[u][x] \in Nat /\ committed[u][x] \in Nat
  <2> TAKE x \in Denoms
  <2>1. /\ claimed'[u][x] \in Nat /\ committed'[u][x] \in Nat
        /\ claimed[u][x] \in Nat /\ committed[u][x] \in Nat
    BY <1>1, <1>2
  <2> QED BY <1>2, <2>1
<1>12. EdenOf(u)' <= EdenOf(u) /\ EdenBHeld(u)' <= EdenBHeld(u)
       /\ EdenOf(u)' \in Nat /\ EdenBHeld(u)' \in Nat
  <2>1. SeqSum(vestings[u], LeftOf) \in Nat /\ paid[u] \in Nat
        /\ PendingOf(u, Validators)["Eden"] \in Nat /\ PendingOf(u, Validators)["EdenB"] \in Nat
    BY AmountsNat
  <2> QED BY <1>6, <1>10, <1>11, <2>1, DenomsDef DEF EdenOf, EdenBHeld
<1>13. IInv'
  <2>1. EdenOf(u) \in Nat /\ EdenBHeld(u) \in Nat /\ vestedNow \in Nat /\ burnt \in Nat
        /\ minted["Eden"] \in Nat /\ minted["EdenB"] \in Nat
    BY AmountsNat, DenomsDef
  <2>2. /\ EdenOf(u)' + vestedNow' + minted["Eden"] <= EdenOf(u) + vestedNow + minted'["Eden"]
        /\ EdenBHeld(u)' + burnt' + minted["EdenB"] <= EdenBHeld(u) + burnt + minted'["EdenB"]
    BY <1>10, <1>12, <2>1
  <2> QED BY <1>2, <1>6, <1>9, <1>10, <2>2, AccountStep
<1>14. \A w \in Users : EdenBOf(w)' >= EdenBOf(w)
  <2> TAKE w \in Users
  <2>1. EdenBOf(w) \in Nat /\ claimed[w]["EdenB"] \in Nat /\ committed[w]["EdenB"] \in Nat
    BY AmountsNat, DenomsDef DEF EdenBOf
  <2>2. EdenBOf(w)' = EdenBOf(w)
    <3>1. CASE w = u
      BY <1>11, <3>1, DenomsDef DEF EdenBOf
    <3>2. CASE w # u
      BY <1>2, <3>2 DEF EdenBOf
    <3> QED BY <3>1, <3>2
  <2> QED BY <2>1, <2>2
<1> QED BY <1>13, <1>14, NotBelow

LEMMA CommitStep ==
  ASSUME IInv, UNCHANGED scope, NEW u \in Users, NEW amount \in Nat,
         \/ \E d \in Denoms : CommitClaimedRewards(u, d, amount)
         \/ UncommitEdenB(u, amount)
  PROVE  IInv' /\ FallsForACause
<1>1. /\ committed \in [Users -> [Denoms -> Nat]] /\ claimed \in [Users -> [Denoms -> Nat]]
      /\ totalCommitted \in [Denoms -> Nat]
  BY DEF IInv, LedgerInv, LedgerTypes
<1>2. ASSUME NEW d \in Denoms, CommitClaimedRewards(u, d, amount) PROVE IInv' /\ FallsForACause
  <2> DEFINE c == claimed[u][d] - amount
             k == committed[u][d] + amount
  <2>1. claimed[u][d] \in Nat /\ committed[u][d] \in Nat /\ amount <= claimed[u][d]
    BY <1>1, <1>2 DEF CommitClaimedRewards
  <2>2. c \in Nat /\ k \in Nat /\ c + k = claimed[u][d] + committed[u][d] /\ k - committed[u][d] = amount
    BY <2>1
  <2>3. /\ claimed' = [claimed EXCEPT ![u][d] = c]
        /\ committed' = [committed EXCEPT ![u][d] = k]
        /\ totalCommitted' = [totalCommitted EXCEPT ![d] = @ + amount]
        /\ pending' = PendingCleared({u}, {d})
        /\ startingInfo' = InfoAfter(u, d, k)
        /\ stakeChange' = stakeChange \cup {u}
        /\ UNCHANGED <<height, conversion, staked, snapshot, settings, totalSupply, minted, burnt>>
    BY <1>2 DEF CommitClaimedRewards, ClaimsAfterCommit
  <2> HIDE DEF c, k
  <2> QED BY <2>2, <2>3, MovedStep
<1>3. ASSUME UncommitEdenB(u, amount) PROVE IInv' /\ FallsForACause
  <2> DEFINE d == "EdenB"
             c == claimed[u][d] + amount
             k == committed[u][d] - amount
  <2>1. claimed[u][d] \in Nat /\ committed[u][d] \in Nat /\ amount <= committed[u][d] /\ d \in Denoms
    BY <1>1, <1>3, DenomsDef DEF UncommitEdenB
  <2>2. c \in Nat /\ k \in Nat /\ c + k = claimed[u][d] + committed[u][d] /\ k - committed[u][d] = -amount
    BY <2>1
  <2>3. /\ claimed' = [claimed EXCEPT ![u][d] = c]
        /\ committed' = [committed EXCEPT ![u][d] = k]
        /\ totalCommitted' = [totalCommitted EXCEPT ![d] = @ - amount]
        /\ pending' = PendingCleared({u}, {d})
        /\ startingInfo' = InfoAfter(u, d, k)
        /\ stakeChange' = stakeChange \cup {u}
        /\ UNCHANGED <<height, conversion, staked, snapshot, settings, totalSupply, minted, burnt>>
    BY <1>3 DEF UncommitEdenB, TotalAfterUncommit
  <2>4. totalCommitted' = [totalCommitted EXCEPT ![d] = @ + (k - committed[u][d])]
    <3>1. totalCommitted[d] - amount = totalCommitted[d] + (k - committed[u][d])
      BY <1>1, <2>1, <2>2
    <3> QED BY <2>3, <3>1
  <2> HIDE DEF c, k, d
  <2> QED BY <2>1, <2>2, <2>3, <2>4, MovedStep
<1> QED BY <1>2, <1>3

\* What a burn takes from the claims and from the commitments of an account.
LEMMA BurnFacts ==
  ASSUME IInv, NEW u \in Users, NEW have \in Nat, NEW burn \in Nat
  PROVE  /\ BurnClaimed(have, burn) \in Nat /\ BurnClaimed(have, burn) <= have
         /\ BurnCommitted(u, have, burn) \in Nat
         /\ BurnCommitted(u, have, burn) <= committed[u]["EdenB"]
<1>1. committed[u]["EdenB"] \in Nat
  BY AmountsNat, DenomsDef
<1> QED BY <1>1 DEF BurnClaimed, BurnCommitted, MinOf

LEMMA UncommitEdenStep ==
  ASSUME IInv, UNCHANGED scope, NEW u \in Users, NEW amount \in Nat \ {0}, UncommitEden(u, amount)
  PROVE  IInv' /\ FallsForACause
<1> DEFINE rest == PendingOf(u, {"EdenB", "Elys"})
           claims == claimed[u]["EdenB"] + rest["EdenB"]
           left == committed[u]["Eden"] - amount
           all == committed[u]["Eden"] + snapshot[u]
<1>0. LedgerTypes /\ VestInv /\ TotalsCoverCommitments /\ DelegationsCanWithdraw
  BY DEF IInv, LedgerInv
<1>1. /\ claimed \in [Users -> [Denoms -> Nat]] /\ committed \in [Users -> [Denoms -> Nat]]
      /\ totalCommitted \in [Denoms -> Nat]
  BY <1>0 DEF LedgerTypes
<1>2. /\ claimed[u]["Eden"] \in Nat /\ claimed[u]["EdenB"] \in Nat
      /\ committed[u]["Eden"] \in Nat /\ committed[u]["EdenB"] \in Nat /\ snapshot[u] \in Nat
  BY AmountsNat, DenomsDef
<1>3. /\ rest["Eden"] \in Nat /\ rest["EdenB"] \in Nat
      /\ rest["Eden"] <= PendingOf(u, Validators)["Eden"]
      /\ rest["EdenB"] <= PendingOf(u, Validators)["EdenB"]
  BY <1>0, PendingNat, DenomsDef
<1>4. /\ amount <= committed[u]["Eden"]
      /\ totalCommitted' = [totalCommitted EXCEPT !["Eden"] = @ - amount]
      /\ pending' = PendingCleared({u}, Validators)
      /\ stakeChange' = stakeChange \cup {u}
      /\ UNCHANGED <<height, conversion, staked, snapshot, settings, minted>>
  BY DEF UncommitEden, TotalAfterUncommit
<1>5. PICK burn \in TruncatedPart(committed[u]["EdenB"] + claims, amount, all) :
        LET stillEdenB == committed[u]["EdenB"] - BurnCommitted(u, claims, burn) IN
        /\ claimed' = [claimed EXCEPT
              ![u] = [Eden |-> claimed[u]["Eden"] + amount + rest["Eden"],
                      EdenB |-> claims - BurnClaimed(claims, burn)]]
        /\ committed' = [committed EXCEPT ![u] = [Eden |-> left, EdenB |-> stillEdenB]]
        /\ startingInfo' = [InfoAfter(u, "Eden", left) EXCEPT
              !["EdenB"] = IF stillEdenB > 0 THEN @ ELSE @ \ {u}]
        /\ burnt' = burnt + BurnClaimed(claims, burn) + BurnCommitted(u, claims, burn)
        /\ totalSupply' = [totalSupply EXCEPT !["EdenB"] =
              @ - BurnClaimed(claims, burn) - BurnCommitted(u, claims, burn)]
  BY DEF UncommitEden
<1> HIDE DEF rest
<1>6. claims \in Nat /\ left \in Nat /\ left < committed[u]["Eden"] /\ all \in Nat \ {0} /\ amount <= all
  BY <1>2, <1>3, <1>4
<1>7. burn \in Nat
  <2>1. committed[u]["EdenB"] + claims \in Nat
    BY <1>2, <1>6
  <2> HIDE DEF claims, all
  <2> QED BY <1>5, <1>6, <2>1, TruncatedPartBound
<1> DEFINE b == BurnClaimed(claims, burn)
           k == BurnCommitted(u, claims, burn)
           stillEdenB == committed[u]["EdenB"] - k
<1>8. b \in Nat /\ b <= claims /\ k \in Nat /\ k <= committed[u]["EdenB"]
  BY <1>6, <1>7, BurnFacts
<1>9. /\ claimed' = [claimed EXCEPT ![u] = [Eden |-> claimed[u]["Eden"] + amount + rest["Eden"],
                                            EdenB |-> claims - b]]
      /\ committed' = [committed EXCEPT ![u] = [Eden |-> left, EdenB |-> stillEdenB]]
      /\ startingInfo' = [InfoAfter(u, "Eden", left) EXCEPT
              !["EdenB"] = IF stillEdenB > 0 THEN @ ELSE @ \ {u}]
      /\ burnt' = burnt + b + k
      /\ totalSupply' = [totalSupply EXCEPT !["EdenB"] = @ - b - k]
  BY <1>5
<1> HIDE DEF b, k
<1>10. claims - b \in Nat /\ stillEdenB \in Nat /\ claimed[u]["Eden"] + amount + rest["Eden"] \in Nat
  BY <1>2, <1>3, <1>6, <1>8
<1> HIDE DEF left, stillEdenB
<1>11. /\ [Eden |-> claimed[u]["Eden"] + amount + rest["Eden"], EdenB |-> claims - b] \in [Denoms -> Nat]
       /\ [Eden |-> left, EdenB |-> stillEdenB] \in [Denoms -> Nat]
  BY <1>6, <1>10 DEF Denoms
<1>12. /\ claimed' \in [Users -> [Denoms -> Nat]] /\ committed' \in [Users -> [Denoms -> Nat]]
       /\ claimed'[u]["Eden"] = claimed[u]["Eden"] + amount + rest["Eden"]
       /\ claimed'[u]["EdenB"] = claims - b
       /\ committed'[u]["Eden"] = left /\ committed'[u]["EdenB"] = stillEdenB
       /\ \A w \in Users : w # u => claimed'[w] = claimed[w] /\ committed'[w] = committed[w]
  BY <1>1, <1>9, <1>11
<1>13. \A w \in Users, x \in Denoms : w # u => committed'[w][x] = committed[w][x]
  BY <1>12
<1>14. /\ totalCommitted["Eden"] = TotalOf(committed, "Eden")
       /\ totalCommitted["EdenB"] >= TotalOf(committed, "EdenB")
  BY <1>0 DEF TotalsCoverCommitments
<1>15. /\ totalCommitted'["Eden"] = totalCommitted["Eden"] - amount
       /\ totalCommitted'["EdenB"] = totalCommitted["EdenB"]
       /\ totalCommitted["Eden"] \in Nat /\ totalCommitted["EdenB"] \in Nat
       /\ totalCommitted' = [totalCommitted EXCEPT !["Eden"] = totalCommitted'["Eden"]]
  BY <1>1, <1>4, DenomsDef
<1>16. totalCommitted'["Eden"] = TotalOf(committed', "Eden") /\ totalCommitted'["Eden"] \in Nat
  <2>1. left = committed[u]["Eden"] - amount
    BY DEF left
  <2>2. totalCommitted'["Eden"] = totalCommitted["Eden"] + (committed'[u]["Eden"] - committed[u]["Eden"])
    BY <1>2, <1>12, <1>15, <2>1
  <2>3. totalCommitted["Eden"] >= TotalOf(committed, "Eden")
    BY <1>14, <1>15
  <2> QED BY <1>1, <1>12, <1>13, <1>14, <1>15, <2>2, <2>3, CommittedStep, DenomsDef
<1>17. totalCommitted'["EdenB"] >= TotalOf(committed', "EdenB")
  <2>1. /\ TotalOf(committed, "EdenB") \in Nat
        /\ TotalOf(committed', "EdenB")
             = TotalOf(committed, "EdenB") + committed'[u]["EdenB"] - committed[u]["EdenB"]
    BY <1>1, <1>12, <1>13, CommittedTotal, DenomsDef
  <2>2. stillEdenB <= committed[u]["EdenB"]
    BY <1>2, <1>8 DEF stillEdenB
  <2> QED BY <1>2, <1>10, <1>12, <1>14, <1>15, <2>1, <2>2
<1>18. /\ startingInfo' \in [Validators -> SUBSET Users]
       /\ \A x \in Users, y \in Validators :
            x \in startingInfo'[y] <=>
              IF x = u /\ y = "Eden" THEN left > 0
              ELSE IF x = u /\ y = "EdenB" THEN x \in startingInfo[y] /\ stillEdenB > 0
              ELSE x \in startingInfo[y]
  <2> DEFINE info == InfoAfter(u, "Eden", left)
  <2>1. /\ info \in [Validators -> SUBSET Users]
        /\ \A x \in Users, y \in Validators :
             x \in info[y] <=> IF x = u /\ y = "Eden" THEN left > 0 ELSE x \in startingInfo[y]
    BY <1>0, <1>6, InfoAfterFacts, DenomsDef
  <2>2. startingInfo' = [info EXCEPT !["EdenB"] = IF stillEdenB > 0 THEN @ ELSE @ \ {u}]
    BY <1>9
  <2> HIDE DEF info
  <2> QED BY <2>1, <2>2, DenomsDef
<1>19. DelegationsCanWithdraw'
  <2> SUFFICES ASSUME NEW x \in Users, NEW y \in Validators
               PROVE  x \in startingInfo'[y] <=> (IF y = "Elys" THEN staked'[x] > 0 ELSE committed'[x][y] > 0)
    BY DEF DelegationsCanWithdraw, HasDelegation
  <2>1. x \in startingInfo[y] <=> IF y = "Elys" THEN staked[x] > 0 ELSE committed[x][y] > 0
    BY <1>0 DEF DelegationsCanWithdraw, HasDelegation
  <2>2. CASE x = u /\ y = "Eden"
    BY <1>12, <1>18, <2>2
  <2>3. CASE x = u /\ y = "EdenB"
    <3>1. stillEdenB > 0 => committed[u]["EdenB"] > 0
      BY <1>2, <1>8, <1>10 DEF stillEdenB
    <3> QED BY <1>12, <1>18, <2>1, <2>3, <3>1
  <2>4. CASE ~ (x = u /\ (y = "Eden" \/ y = "EdenB"))
    <3>1. y # "Elys" => committed'[x][y] = committed[x][y]
      BY <1>13, <2>4, DenomsDef
    <3> QED BY <1>4, <1>18, <2>1, <2>4, <3>1
  <2> QED BY <2>2, <2>3, <2>4
<1>20. /\ pending' \in [Validators -> [Users -> [Denoms -> Nat]]]
       /\ \A w \in Users : w # u => PendingOf(w, Validators)' = PendingOf(w, Validators)
       /\ PendingOf(u, Validators)'["Eden"] = 0 /\ PendingOf(u, Validators)'["EdenB"] = 0
  <2>1. {u} \in SUBSET Users /\ Validators \in SUBSET Validators
    OBVIOUS
  <2>2. PendingOf(u, Validators)' \in [Denoms -> Nat]
    BY <1>0, <1>4, <2>1, PendingClearedFacts
  <2>3. /\ pending' \in [Validators -> [Users -> [Denoms -> Nat]]]
        /\ \A w \in Users : w # u => PendingOf(w, Validators)' = PendingOf(w, Validators)
    BY <1>0, <1>4, <2>1, PendingClearedFacts
  <2>4. \A x \in Denoms : PendingOf(u, Validators)'[x] + PendingOf(u, Validators)[x] = PendingOf(u, Validators)[x]
    BY <1>0, <1>4, <2>1, PendingClearedFacts
  <2>5. /\ PendingOf(u, Validators)["Eden"] \in Nat /\ PendingOf(u, Validators)["EdenB"] \in Nat
        /\ PendingOf(u, Validators)'["Eden"] \in Nat /\ PendingOf(u, Validators)'["EdenB"] \in Nat
    BY <2>2, AmountsNat, DenomsDef
  <2>6. /\ PendingOf(u, Validators)'["Eden"] + PendingOf(u, Validators)["Eden"] = PendingOf(u, Validators)["Eden"]
        /\ PendingOf(u, Validators)'["EdenB"] + PendingOf(u, Validators)["EdenB"] = PendingOf(u, Validators)["EdenB"]
    BY <2>4, DenomsDef
  <2>7. \A p, q \in Nat : p + q = q => p = 0
    OBVIOUS
  <2>8. PendingOf(u, Validators)'["Eden"] = 0 /\ PendingOf(u, Validators)'["EdenB"] = 0
    BY <2>5, <2>6, <2>7
  <2> QED BY <2>3, <2>8
<1>21. VestInv' /\ UNCHANGED <<vestings, paid, vestedNow>>
  <2>1. vestedNow \in Nat /\ vestingInfo \in scope.vestingInfos
    BY <1>0 DEF VestInv, VestingTypes
  <2> QED BY <1>0, <1>4, <2>1, VestingsKept DEF conversion, settings
<1>22. burnt' = burnt + b + k /\ burnt \in Nat /\ burnt' \in Nat /\ totalSupply' \in [{"Eden", "EdenB", "vested"} -> Int]
  <2>1. burnt \in Nat /\ totalSupply \in [{"Eden", "EdenB", "vested"} -> Int]
    BY <1>0 DEF LedgerTypes
  <2> QED BY <1>8, <1>9, <2>1
<1>23. LedgerInv'
  <2>1. totalCommitted' \in [Denoms -> Nat] /\ stakeChange' \subseteq Users
    BY <1>0, <1>1, <1>4, <1>15, <1>16 DEF LedgerTypes
  <2>2. LedgerTypes'
    BY <1>0, <1>4, <1>12, <1>18, <1>20, <1>22, <2>1 DEF LedgerTypes, settings
  <2> QED BY <1>16, <1>17, <1>19, <2>2 DEF LedgerInv, TotalsCoverCommitments
<1>24. EdenOf(u)' <= EdenOf(u) /\ EdenBHeld(u)' + burnt' <= EdenBHeld(u) + burnt
       /\ EdenOf(u)' \in Nat /\ EdenBHeld(u)' \in Nat
  <2>1. SeqSum(vestings[u], LeftOf) \in Nat /\ paid[u] \in Nat
        /\ PendingOf(u, Validators)["Eden"] \in Nat /\ PendingOf(u, Validators)["EdenB"] \in Nat
    BY AmountsNat
  <2>2. claimed'[u]["Eden"] + committed'[u]["Eden"] = claimed[u]["Eden"] + committed[u]["Eden"] + rest["Eden"]
    BY <1>2, <1>3, <1>4, <1>12 DEF left
  <2>3. /\ claimed'[u]["EdenB"] + committed'[u]["EdenB"] + b + k
             = claimed[u]["EdenB"] + committed[u]["EdenB"] + rest["EdenB"]
        /\ claimed'[u]["EdenB"] \in Nat /\ committed'[u]["EdenB"] \in Nat
        /\ claimed'[u]["Eden"] \in Nat /\ committed'[u]["Eden"] \in Nat
    <3>1. claimed'[u]["EdenB"] = claims - b /\ committed'[u]["EdenB"] = committed[u]["EdenB"] - k
      BY <1>12 DEF stillEdenB
    <3>2. claims = claimed[u]["EdenB"] + rest["EdenB"]
      OBVIOUS
    <3>3. /\ claimed'[u]["EdenB"] \in Nat /\ committed'[u]["EdenB"] \in Nat
          /\ claimed'[u]["Eden"] \in Nat /\ committed'[u]["Eden"] \in Nat
      BY <1>12, DenomsDef
    <3>4. \A x, y \in Nat : (x - b) + (y - k) + b + k = x + y
      BY <1>8
    <3>5. claimed'[u]["EdenB"] + committed'[u]["EdenB"] + b + k = claims + committed[u]["EdenB"]
      <4>1. claims \in Nat /\ committed[u]["EdenB"] \in Nat
        BY <1>2, <1>6
      <4>2. (claims - b) + (committed[u]["EdenB"] - k) + b + k = claims + committed[u]["EdenB"]
        <5> HIDE DEF claims
        <5> QED BY <3>4, <4>1, Zenon
      <4> QED BY <3>1, <4>2, Zenon
    <3>6. claims + committed[u]["EdenB"] = claimed[u]["EdenB"] + committed[u]["EdenB"] + rest["EdenB"]
      BY <1>2, <1>3, <3>2
    <3> QED BY <3>3, <3>5, <3>6
  <2>4. /\ EdenOf(u)' = claimed'[u]["Eden"] + committed'[u]["Eden"] + 0 + (SeqSum(vestings[u], LeftOf) + paid[u])
        /\ EdenBHeld(u)' = claimed'[u]["EdenB"] + committed'[u]["EdenB"] + 0
    BY <1>20, <1>21 DEF EdenOf, EdenBHeld
  <2> HIDE DEF claims
  <2>5. EdenOf(u)' <= EdenOf(u) /\ EdenOf(u)' \in Nat
    BY <1>2, <1>3, <2>1, <2>2, <2>3, <2>4 DEF EdenOf
  <2>6. EdenBHeld(u)' + burnt' <= EdenBHeld(u) + burnt /\ EdenBHeld(u)' \in Nat
    BY <1>2, <1>3, <1>8, <1>22, <2>1, <2>3, <2>4 DEF EdenBHeld
  <2> QED BY <2>5, <2>6
<1>25. IInv'
  <2>1. EdenOf(u) \in Nat /\ EdenBHeld(u) \in Nat /\ vestedNow \in Nat
        /\ minted["Eden"] \in Nat /\ minted["EdenB"] \in Nat
    BY AmountsNat, DenomsDef
  <2>2. /\ EdenOf(u)' + vestedNow' + minted["Eden"] <= EdenOf(u) + vestedNow + minted'["Eden"]
        /\ EdenBHeld(u)' + burnt' + minted["EdenB"] <= EdenBHeld(u) + burnt + minted'["EdenB"]
    BY <1>4, <1>21, <1>22, <1>24, <2>1
  <2> QED BY <1>12, <1>20, <1>21, <1>23, <2>2, AccountStep
<1>26. FallsForACause
  <2> SUFFICES ASSUME NEW w \in Users, EdenBOf(w)' < EdenBOf(w)
               PROVE  committed'[w]["Eden"] < committed[w]["Eden"]
    BY DEF FallsForACause
  <2>1. CASE w = u
    BY <1>6, <1>12, <2>1
  <2>2. CASE w # u
    <3>1. EdenBOf(w)' = EdenBOf(w)
      BY <1>12, <2>2 DEF EdenBOf
    <3>2. EdenBOf(w) \in Nat
      BY AmountsNat, DenomsDef DEF EdenBOf
    <3> QED BY <3>1, <3>2
  <2> QED BY <2>1, <2>2
<1> QED BY <1>25, <1>26

VestingSumsNat == /\ vestedNow \in Nat
                  /\ \A u \in Users : SeqSum(vestings[u], LeftOf) \in Nat /\ paid[u] \in Nat

LEMMA VestingSumsAreNat == VestInv => VestingSumsNat
<1> SUFFICES ASSUME VestInv PROVE VestingSumsNat
  OBVIOUS
<1>1. height \in Nat
  BY DEF VestInv
<1>2. \A u \in Users : SeqSum(vestings[u], LeftOf) \in Nat /\ paid[u] \in Nat
  BY <1>1, AccountTypes
<1>3. vestedNow \in Nat
  BY DEF VestInv, VestingTypes
<1> QED BY <1>2, <1>3 DEF VestingSumsNat

LEMMA VestingSumsAreNatNext == VestInv' => VestingSumsNat'
BY VestingSumsAreNat, PTL

LEMMA EdenOfAfter ==
  ASSUME NEW u \in Users, NEW m \in Nat, VestingSumsNat, VestingSumsNat',
         claimed[u]["Eden"] \in Nat, claimed'[u]["Eden"] \in Nat, committed[u]["Eden"] \in Nat,
         PendingOf(u, Validators)["Eden"] \in Nat, minted["Eden"] \in Nat,
         committed'[u] = committed[u], PendingOf(u, Validators)' = PendingOf(u, Validators),
         minted'["Eden"] = minted["Eden"] + m,
         claimed'[u]["Eden"] + (SeqSum(vestings'[u], LeftOf) + paid'[u]) + vestedNow'
           = claimed[u]["Eden"] + (SeqSum(vestings[u], LeftOf) + paid[u]) + vestedNow + m
  PROVE  EdenOf(u)' + vestedNow' + minted["Eden"] = EdenOf(u) + vestedNow + minted'["Eden"]
<1>1. PICK x, y, p, k, v, w, e, f, c, d :
        /\ x = SeqSum(vestings[u], LeftOf) + paid[u] /\ y = SeqSum(vestings'[u], LeftOf) + paid'[u]
        /\ p = PendingOf(u, Validators)["Eden"] /\ k = committed[u]["Eden"]
        /\ v = vestedNow /\ w = vestedNow' /\ e = minted["Eden"] /\ f = minted'["Eden"]
        /\ c = claimed[u]["Eden"] /\ d = claimed'[u]["Eden"]
  OBVIOUS
<1>2. /\ x \in Nat /\ y \in Nat /\ v \in Nat /\ w \in Nat
  BY <1>1 DEF VestingSumsNat
<1>3. p \in Nat /\ k \in Nat /\ e \in Nat /\ c \in Nat /\ d \in Nat /\ f = e + m
  BY <1>1
<1>4. d + y + w = c + x + v + m
  BY <1>1
<1>5. (d + k + p + y) + w + e = (c + k + p + x) + v + f
  BY <1>2, <1>3, <1>4
<1>6. EdenOf(u) = c + k + p + x /\ EdenOf(u)' = d + k + p + y
  BY <1>1 DEF EdenOf
<1> QED BY <1>1, <1>5, <1>6

(***************************************************************************)
(* Claimed Eden is converted, taken back or minted; the commitments, the   *)
(* delegations and EdenB are left alone.                                   *)
(***************************************************************************)
LEMMA EdenClaimStep ==
  ASSUME IInv, VestInv', NEW u \in Users, NEW c \in Nat, NEW m \in Nat,
         claimed' = [claimed EXCEPT ![u]["Eden"] = c],
         minted' = [minted EXCEPT !["Eden"] = @ + m],
         UNCHANGED <<committed, totalCommitted, stakes, distribution, burnt>>,
         enableVestNow' \in BOOLEAN, programClaimed' \subseteq Users,
         totalSupply' \in [{"Eden", "EdenB", "vested"} -> Int],
         \A w \in Users : w # u => vestings'[w] = vestings[w] /\ paid'[w] = paid[w],
         c + (SeqSum(vestings'[u], LeftOf) + paid'[u]) + vestedNow'
           = claimed[u]["Eden"] + (SeqSum(vestings[u], LeftOf) + paid[u]) + vestedNow + m
  PROVE  IInv' /\ FallsForACause
<1>0. LedgerTypes /\ VestInv /\ TotalsCoverCommitments /\ DelegationsCanWithdraw
  BY DEF IInv, LedgerInv
<1>1. /\ claimed' \in [Users -> [Denoms -> Nat]]
      /\ claimed'[u]["Eden"] = c /\ claimed'[u]["EdenB"] = claimed[u]["EdenB"]
      /\ \A w \in Users : w # u => claimed'[w] = claimed[w]
  BY <1>0, DenomsDef DEF LedgerTypes
<1>2. /\ minted' \in [Denoms -> Nat] /\ minted'["Eden"] = minted["Eden"] + m
      /\ minted'["EdenB"] = minted["EdenB"]
  BY <1>0, DenomsDef DEF LedgerTypes
<1>3. \A w \in Users : PendingOf(w, Validators)' = PendingOf(w, Validators)
  BY DEF PendingOf, distribution
<1>4. LedgerInv'
  <2>1. LedgerTypes'
    BY <1>0, <1>1, <1>2 DEF LedgerTypes, stakes, distribution
  <2>2. TotalsCoverCommitments' /\ DelegationsCanWithdraw'
    BY <1>0 DEF TotalsCoverCommitments, DelegationsCanWithdraw, HasDelegation, stakes, distribution
  <2> QED BY <2>1, <2>2 DEF LedgerInv
<1>5. EdenOf(u)' + vestedNow' + minted["Eden"] = EdenOf(u) + vestedNow + minted'["Eden"]
  <2>1. /\ claimed[u]["Eden"] \in Nat /\ committed[u]["Eden"] \in Nat
        /\ PendingOf(u, Validators)["Eden"] \in Nat /\ minted["Eden"] \in Nat
    BY AmountsNat, DenomsDef
  <2>2. VestingSumsNat /\ VestingSumsNat'
    BY <1>0, VestingSumsAreNat, VestingSumsAreNatNext
  <2> QED BY <1>1, <1>2, <1>3, <2>1, <2>2, EdenOfAfter
<1>6. EdenBHeld(u)' = EdenBHeld(u) /\ burnt' = burnt
  BY <1>1, <1>3 DEF EdenBHeld
<1>7. IInv'
  <2>1. /\ EdenOf(u)' \in Nat /\ EdenOf(u) \in Nat /\ vestedNow \in Nat /\ vestedNow' \in Nat
        /\ minted["Eden"] \in Nat /\ minted'["Eden"] \in Nat
        /\ EdenBHeld(u) \in Nat /\ burnt \in Nat /\ minted["EdenB"] \in Nat
    <3>1. HeldNaturals'
      BY <1>4, HeldNatNext DEF LedgerInv
    <3> QED BY <1>2, <3>1, AmountsNat, DenomsDef DEF HeldNaturals, VestInv, VestingTypes
  <2>2. /\ EdenOf(u)' + vestedNow' + minted["Eden"] <= EdenOf(u) + vestedNow + minted'["Eden"]
        /\ EdenBHeld(u)' + burnt' + minted["EdenB"] <= EdenBHeld(u) + burnt + minted'["EdenB"]
    BY <1>2, <1>5, <1>6, <2>1
  <2> QED BY <1>1, <1>3, <1>4, <2>2, AccountStep
<1>8. \A w \in Users : EdenBOf(w)' >= EdenBOf(w)
  <2> TAKE w \in Users
  <2>1. EdenBOf(w) \in Nat
    BY AmountsNat, DenomsDef DEF EdenBOf
  <2>2. EdenBOf(w)' = EdenBOf(w)
    BY <1>1 DEF EdenBOf
  <2> QED BY <2>1, <2>2
<1> QED BY <1>7, <1>8, NotBelow

(***************************************************************************)
(* Nothing that the sums are about changes.                                *)
(***************************************************************************)
LEMMA LedgersKept ==
  ASSUME IInv, VestInv',
         UNCHANGED <<ledger, vestings, paid, vestedNow, stakes, distribution, minted, burnt>>,
         enableVestNow' \in BOOLEAN, programClaimed' \subseteq Users,
         totalSupply' \in [{"Eden", "EdenB", "vested"} -> Int]
  PROVE  IInv' /\ FallsForACause
<1>0. LedgerTypes /\ TotalsCoverCommitments /\ DelegationsCanWithdraw /\ Solvent
  BY DEF IInv, LedgerInv
<1>1. LedgerTypes'
  BY <1>0 DEF LedgerTypes, ledger, stakes, distribution
<1>2. TotalsCoverCommitments' /\ DelegationsCanWithdraw'
  BY <1>0 DEF TotalsCoverCommitments, DelegationsCanWithdraw, HasDelegation, ledger, stakes, distribution
<1>3. Solvent'
  BY <1>0 DEF Solvent, EdenOf, EdenBHeld, PendingOf, ledger, distribution
<1>4. IInv'
  BY <1>1, <1>2, <1>3 DEF IInv, LedgerInv
<1>5. \A w \in Users : EdenBOf(w)' >= EdenBOf(w)
  <2> TAKE w \in Users
  <2>1. EdenBOf(w) \in Nat
    BY AmountsNat, DenomsDef DEF EdenBOf
  <2>2. EdenBOf(w)' = EdenBOf(w)
    BY DEF EdenBOf, ledger
  <2> QED BY <2>1, <2>2
<1> QED BY <1>4, <1>5, NotBelow

\* A step that is not about the settings or the EdenB supply keeps their types.
LEMMA SettingTypes ==
  ASSUME IInv
  PROVE  /\ enableVestNow \in BOOLEAN /\ programClaimed \subseteq Users
         /\ totalSupply \in [{"Eden", "EdenB", "vested"} -> Int]
         /\ claimed \in [Users -> [Denoms -> Nat]] /\ minted \in [Denoms -> Nat]
         /\ vestingInfo \in scope.vestingInfos /\ vestedNow \in Nat
         /\ VestInv
BY DEF IInv, LedgerInv, LedgerTypes, VestInv, VestingTypes

LEMMA NatInt == Nat \subseteq Int
OBVIOUS

LEMMA IntClosed == \A x, y \in Int : x - y \in Int /\ x + y \in Int
OBVIOUS

LEMMA SupplyMoved ==
  ASSUME IInv, NEW a \in Int,
         \/ totalSupply' = [totalSupply EXCEPT !["Eden"] = @ - a, !.vested = @ + a]
         \/ totalSupply' = [totalSupply EXCEPT !["Eden"] = @ + a, !.vested = @ - a]
  PROVE  totalSupply' \in [{"Eden", "EdenB", "vested"} -> Int]
<1> DEFINE K == {"Eden", "EdenB", "vested"}
<1>1. totalSupply \in [K -> Int] /\ "Eden" \in K /\ "vested" \in K
  BY SettingTypes
<1>2. PICK x \in Int, y \in Int : totalSupply' = [totalSupply EXCEPT !["Eden"] = x, !["vested"] = y]
  <2>1. totalSupply["Eden"] \in Int /\ totalSupply["vested"] \in Int
    BY <1>1
  <2>2. /\ totalSupply["Eden"] - a \in Int /\ totalSupply["Eden"] + a \in Int
        /\ totalSupply["vested"] - a \in Int /\ totalSupply["vested"] + a \in Int
    BY <2>1, IntClosed, Zenon
  <2> QED BY <2>2, Zenon
<1> HIDE DEF K
<1>3. totalSupply' \in [K -> Int]
  BY <1>1, <1>2
<1> QED BY <1>3 DEF K

\* What leaves the claims goes to the vestings, is paid or is converted.
LEMMA Balance ==
  ASSUME IInv, NEW u \in Users, NEW a \in Int, NEW b \in Int, NEW n \in Int, NEW m, m = a + b + n,
         NEW c, c = claimed[u]["Eden"] + a,
         SeqSum(vestings'[u], LeftOf) + paid'[u] = SeqSum(vestings[u], LeftOf) + paid[u] + b,
         vestedNow' = vestedNow + n
  PROVE  c + (SeqSum(vestings'[u], LeftOf) + paid'[u]) + vestedNow'
           = claimed[u]["Eden"] + (SeqSum(vestings[u], LeftOf) + paid[u]) + vestedNow + m
<1>1. PICK x, y, v, w, d : /\ x = SeqSum(vestings[u], LeftOf) + paid[u]
                           /\ y = SeqSum(vestings'[u], LeftOf) + paid'[u]
                           /\ v = vestedNow /\ w = vestedNow' /\ d = claimed[u]["Eden"]
  OBVIOUS
<1>2. x \in Nat /\ v \in Nat /\ d \in Nat
  BY <1>1, AmountsNat, DenomsDef
<1>3. y = x + b /\ w = v + n /\ c = d + a
  BY <1>1, Zenon
<1>4. c + y + w = d + x + v + m
  BY <1>2, <1>3
<1> QED BY <1>1, <1>4

LEMMA ClaimStep ==
  ASSUME IInv, UNCHANGED scope, NEW u \in Users, ClaimVesting(u)
  PROVE  IInv' /\ FallsForACause
<1>1. /\ VestInv'
      /\ SeqSum(vestings'[u], LeftOf) + paid'[u] = SeqSum(vestings[u], LeftOf) + paid[u]
      /\ \A w \in Users : w # u => vestings'[w] = vestings[w] /\ paid'[w] = paid[w]
  BY ClaimVestingStep, SettingTypes
<1>2. UNCHANGED <<claimed, committed, totalCommitted, stakes, distribution, settings, totalSupply,
                  vestedNow, minted, burnt>>
  BY DEF ClaimVesting, ledger
<1>3. claimed[u]["Eden"] \in Nat
  BY AmountsNat, DenomsDef
<1>4. claimed' = [claimed EXCEPT ![u]["Eden"] = claimed[u]["Eden"]]
  BY <1>2, SettingTypes
<1>5. minted' = [minted EXCEPT !["Eden"] = @ + 0]
  <2>1. minted["Eden"] + 0 = minted["Eden"]
    BY SettingTypes, DenomsDef
  <2> QED BY <1>2, <2>1, SettingTypes
<1>6. claimed[u]["Eden"] + (SeqSum(vestings'[u], LeftOf) + paid'[u]) + vestedNow'
        = claimed[u]["Eden"] + (SeqSum(vestings[u], LeftOf) + paid[u]) + vestedNow + 0
  <2>1. claimed[u]["Eden"] + (SeqSum(vestings[u], LeftOf) + paid[u]) + vestedNow \in Nat
    BY <1>3, AmountsNat
  <2> QED BY <1>1, <1>2, <2>1
<1>7. /\ enableVestNow' \in BOOLEAN /\ programClaimed' \subseteq Users
      /\ totalSupply' \in [{"Eden", "EdenB", "vested"} -> Int]
  BY <1>2, SettingTypes DEF settings
<1>8. PICK c, m : /\ c = claimed[u]["Eden"] /\ m = 0
  OBVIOUS
<1>9. /\ c \in Nat /\ m \in Nat
      /\ claimed' = [claimed EXCEPT ![u]["Eden"] = c] /\ minted' = [minted EXCEPT !["Eden"] = @ + m]
      /\ c + (SeqSum(vestings'[u], LeftOf) + paid'[u]) + vestedNow'
           = claimed[u]["Eden"] + (SeqSum(vestings[u], LeftOf) + paid[u]) + vestedNow + m
  BY <1>3, <1>4, <1>5, <1>6, <1>8
<1> QED BY <1>1, <1>2, <1>7, <1>9, EdenClaimStep, ZenonT(40)

LEMMA VestingStarted ==
  ASSUME IInv, UNCHANGED scope, NEW u \in Users, NEW amount \in Nat, Vest(u, amount)
  PROVE  IInv' /\ FallsForACause
<1> DEFINE c == claimed[u]["Eden"] - amount
<1>1. /\ VestInv'
      /\ SeqSum(vestings'[u], LeftOf) = SeqSum(vestings[u], LeftOf) + amount
      /\ \A w \in Users : w # u => vestings'[w] = vestings[w]
  BY VestStep, SettingTypes
<1>2. /\ UNCHANGED <<committed, totalCommitted, stakes, distribution, settings, paid, vestedNow,
                     minted, burnt>>
      /\ amount <= claimed[u]["Eden"]
      /\ claimed' = [claimed EXCEPT ![u]["Eden"] = c]
  BY DEF Vest
<1>4. totalSupply' \in [{"Eden", "EdenB", "vested"} -> Int]
  <2>1. totalSupply' = [totalSupply EXCEPT !["Eden"] = @ - amount, !.vested = @ + amount]
    BY DEF Vest
  <2> QED BY <2>1, SupplyMoved, NatInt, Zenon
<1>3. claimed[u]["Eden"] \in Nat /\ c \in Nat
  BY <1>2, AmountsNat, DenomsDef
<1>5. minted' = [minted EXCEPT !["Eden"] = @ + 0]
  <2>1. minted["Eden"] + 0 = minted["Eden"]
    BY SettingTypes, DenomsDef
  <2> QED BY <1>2, <2>1, SettingTypes
<1>6. c + (SeqSum(vestings'[u], LeftOf) + paid'[u]) + vestedNow'
        = claimed[u]["Eden"] + (SeqSum(vestings[u], LeftOf) + paid[u]) + vestedNow + 0
  <2>1. SeqSum(vestings[u], LeftOf) \in Nat /\ paid[u] \in Nat /\ vestedNow \in Nat
    BY AmountsNat
  <2>2. SeqSum(vestings'[u], LeftOf) + paid'[u] = SeqSum(vestings[u], LeftOf) + paid[u] + amount
    BY <1>1, <1>2, <2>1
  <2>3. c = claimed[u]["Eden"] + (-amount) /\ vestedNow' = vestedNow + 0 /\ 0 = -amount + amount + 0
    BY <1>2, <1>3, <2>1
  <2>4. -amount \in Int /\ amount \in Int /\ 0 \in Int
    OBVIOUS
  <2> HIDE DEF c
  <2> QED BY <2>2, <2>3, <2>4, Balance
<1>7. /\ enableVestNow' \in BOOLEAN /\ programClaimed' \subseteq Users
      /\ totalSupply' \in [{"Eden", "EdenB", "vested"} -> Int]
  BY <1>2, <1>4, SettingTypes DEF settings
<1> HIDE DEF c
<1> QED BY <1>1, <1>2, <1>3, <1>5, <1>6, <1>7, EdenClaimStep

LEMMA VestingCancelled ==
  ASSUME IInv, UNCHANGED scope, NEW u \in Users, NEW amount \in Nat, CancelVest(u, amount)
  PROVE  IInv' /\ FallsForACause
<1>1. /\ VestInv'
      /\ \A w \in Users : w # u => vestings'[w] = vestings[w] /\ paid'[w] = paid[w]
  BY CancelVestStep, SettingTypes
<1>2. PICK total \in Nat :
        /\ SeqSum(vestings'[u], LeftOf) + paid'[u] + total = SeqSum(vestings[u], LeftOf) + paid[u]
        /\ claimed' = [claimed EXCEPT ![u]["Eden"] = @ + total]
        /\ totalSupply' \in [{"Eden", "EdenB", "vested"} -> Int]
  <2>1. PICK total \in Nat :
        /\ SeqSum(vestings'[u], LeftOf) + paid'[u] + total = SeqSum(vestings[u], LeftOf) + paid[u]
        /\ claimed' = [claimed EXCEPT ![u]["Eden"] = @ + total]
        /\ totalSupply' = [totalSupply EXCEPT !["Eden"] = @ + total, !.vested = @ - total]
    BY CancelVestStep, SettingTypes
  <2>2. totalSupply' \in [{"Eden", "EdenB", "vested"} -> Int]
    BY <2>1, SupplyMoved, NatInt, Zenon
  <2> QED BY <2>1, <2>2
<1> DEFINE c == claimed[u]["Eden"] + total
<1>3. claimed[u]["Eden"] \in Nat /\ c \in Nat
  BY AmountsNat, DenomsDef
<1>4. UNCHANGED <<committed, totalCommitted, stakes, distribution, settings, vestedNow, minted, burnt>>
  BY DEF CancelVest
<1>5. minted' = [minted EXCEPT !["Eden"] = @ + 0]
  <2>1. minted["Eden"] + 0 = minted["Eden"]
    BY SettingTypes, DenomsDef
  <2> QED BY <1>4, <2>1, SettingTypes
<1>6. c + (SeqSum(vestings'[u], LeftOf) + paid'[u]) + vestedNow'
        = claimed[u]["Eden"] + (SeqSum(vestings[u], LeftOf) + paid[u]) + vestedNow + 0
  <2>1. SeqSum(vestings[u], LeftOf) \in Nat /\ paid[u] \in Nat /\ vestedNow \in Nat
    BY AmountsNat
  <2>2. SeqSum(vestings'[u], LeftOf) \in Nat /\ paid'[u] \in Nat
    BY <1>1, VestingSumsAreNatNext DEF VestingSumsNat
  <2>3. SeqSum(vestings'[u], LeftOf) + paid'[u] = SeqSum(vestings[u], LeftOf) + paid[u] + (-total)
    BY <1>2, <2>1, <2>2
  <2>4. vestedNow' = vestedNow + 0 /\ 0 = total + (-total) + 0 /\ c = claimed[u]["Eden"] + total
    BY <1>4, <2>1
  <2>5. -total \in Int /\ total \in Int /\ 0 \in Int
    OBVIOUS
  <2> HIDE DEF c
  <2> QED BY <2>3, <2>4, <2>5, Balance
<1>7. /\ enableVestNow' \in BOOLEAN /\ programClaimed' \subseteq Users
      /\ totalSupply' \in [{"Eden", "EdenB", "vested"} -> Int]
  BY <1>2, <1>4, SettingTypes DEF settings
<1>8. claimed' = [claimed EXCEPT ![u]["Eden"] = c]
  BY <1>2
<1> HIDE DEF c
<1> QED BY <1>1, <1>3, <1>4, <1>5, <1>6, <1>7, <1>8, EdenClaimStep

LEMMA VestNowStep ==
  ASSUME IInv, UNCHANGED scope, NEW u \in Users, NEW amount \in Nat, VestNow(u, amount)
  PROVE  IInv' /\ FallsForACause
<1> DEFINE c == claimed[u]["Eden"] - amount
<1>1. /\ UNCHANGED <<height, committed, totalCommitted, vestings, grants, cancelled, paid, stakes,
                     distribution, settings, minted, burnt>>
      /\ amount <= claimed[u]["Eden"]
      /\ claimed' = [claimed EXCEPT ![u]["Eden"] = c]
      /\ vestedNow' = vestedNow + amount
  BY DEF VestNow
<1>4. totalSupply' \in [{"Eden", "EdenB", "vested"} -> Int]
  <2>1. totalSupply' = [totalSupply EXCEPT !["Eden"] = @ - amount, !.vested = @ + amount]
    BY DEF VestNow
  <2> QED BY <2>1, SupplyMoved, NatInt, Zenon
<1>2. VestInv'
  <2>1. vestedNow' \in Nat /\ vestingInfo' \in scope.vestingInfos
    BY <1>1, SettingTypes DEF settings
  <2> QED BY <1>1, <2>1, SettingTypes, VestingsKept
<1>3. claimed[u]["Eden"] \in Nat /\ c \in Nat
  BY <1>1, AmountsNat, DenomsDef
<1>5. minted' = [minted EXCEPT !["Eden"] = @ + 0]
  <2>1. minted["Eden"] + 0 = minted["Eden"]
    BY SettingTypes, DenomsDef
  <2> QED BY <1>1, <2>1, SettingTypes
<1>6. c + (SeqSum(vestings'[u], LeftOf) + paid'[u]) + vestedNow'
        = claimed[u]["Eden"] + (SeqSum(vestings[u], LeftOf) + paid[u]) + vestedNow + 0
  <2>1. SeqSum(vestings[u], LeftOf) \in Nat /\ paid[u] \in Nat /\ vestedNow \in Nat
    BY AmountsNat
  <2>2. PICK x, y, v, w, d : /\ x = SeqSum(vestings[u], LeftOf) + paid[u]
                             /\ y = SeqSum(vestings'[u], LeftOf) + paid'[u]
                             /\ v = vestedNow /\ w = vestedNow' /\ d = claimed[u]["Eden"]
    OBVIOUS
  <2>3. x \in Nat /\ v \in Nat /\ d \in Nat /\ y = x /\ w = v + amount /\ c = d - amount
    BY <1>1, <1>3, <2>1, <2>2
  <2>4. c + y + w = d + x + v + 0
    BY <2>3
  <2> QED BY <2>2, <2>4
<1>7. /\ enableVestNow' \in BOOLEAN /\ programClaimed' \subseteq Users
      /\ totalSupply' \in [{"Eden", "EdenB", "vested"} -> Int]
  BY <1>1, <1>4, SettingTypes DEF settings
<1> HIDE DEF c
<1> QED BY <1>1, <1>2, <1>3, <1>5, <1>6, <1>7, EdenClaimStep

LEMMA RewardProgramStep ==
  ASSUME IInv, UNCHANGED scope, NEW u \in Users, ClaimRewardProgram(u)
  PROVE  IInv' /\ FallsForACause
<1> DEFINE m == scope.programEden
           c == claimed[u]["Eden"] + m
<1>1. /\ UNCHANGED <<height, committed, totalCommitted, conversion, stakes, distribution,
                     vestingInfo, enableVestNow, totalSupply, burnt>>
      /\ programClaimed' = programClaimed \cup {u}
      /\ claimed' = [claimed EXCEPT ![u]["Eden"] = c]
      /\ minted' = [minted EXCEPT !["Eden"] = @ + m]
  BY SettingTypes DEF ClaimRewardProgram
<1>2. VestInv' /\ UNCHANGED <<vestings, paid, vestedNow>>
  <2>1. vestedNow' \in Nat /\ vestingInfo' \in scope.vestingInfos
    BY <1>1, SettingTypes DEF conversion
  <2> QED BY <1>1, <2>1, SettingTypes, VestingsKept DEF conversion
<1>3. m \in Nat /\ claimed[u]["Eden"] \in Nat /\ c \in Nat
  <2>1. m \in Nat
    BY ScopeTypes, SettingTypes DEF VestInv
  <2> QED BY <2>1, AmountsNat, DenomsDef
<1>6. c + (SeqSum(vestings'[u], LeftOf) + paid'[u]) + vestedNow'
        = claimed[u]["Eden"] + (SeqSum(vestings[u], LeftOf) + paid[u]) + vestedNow + m
  <2>1. SeqSum(vestings[u], LeftOf) \in Nat /\ paid[u] \in Nat /\ vestedNow \in Nat
    BY AmountsNat
  <2> QED BY <1>2, <1>3, <2>1
<1>7. /\ enableVestNow' \in BOOLEAN /\ programClaimed' \subseteq Users
      /\ totalSupply' \in [{"Eden", "EdenB", "vested"} -> Int]
  BY <1>1, SettingTypes
<1> HIDE DEF c, m
<1> QED BY <1>1, <1>2, <1>3, <1>6, <1>7, EdenClaimStep

LEMMA SettingsStep ==
  ASSUME IInv, UNCHANGED scope,
         \/ \E info \in scope.vestingInfos : UpdateVestingInfo(info)
         \/ UpdateEnableVestNow
  PROVE  IInv' /\ FallsForACause
<1>1. /\ UNCHANGED <<height, ledger, conversion, stakes, distribution, programClaimed, totalSupply,
                     minted, burnt>>
      /\ vestingInfo' \in scope.vestingInfos /\ enableVestNow' \in BOOLEAN
  BY SettingTypes DEF UpdateVestingInfo, UpdateEnableVestNow
<1>2. VestInv'
  BY <1>1, SettingTypes, VestingsKept DEF conversion
<1> QED BY <1>1, <1>2, SettingTypes, LedgersKept DEF conversion

LEMMA StutterStep ==
  ASSUME IInv, UNCHANGED vars
  PROVE  IInv' /\ FallsForACause
<1>1. /\ UNCHANGED <<scope, height, ledger, conversion, stakes, distribution, settings, totalSupply,
                     minted, burnt>>
  BY DEF vars
<1>2. VestInv'
  BY <1>1, SettingTypes, VestingsKept DEF conversion, settings
<1> QED BY <1>1, <1>2, SettingTypes, LedgersKept DEF conversion, settings

(***************************************************************************)
(* The end of a block.  Cleared(w, d) is what the block withdraws for an   *)
(* account with less Elys delegated than at its snapshot.                  *)
(***************************************************************************)
Cleared(w, d) == IF w \in Reduced THEN PendingOf(w, Validators)[d] ELSE 0

LEMMA ClearedNat ==
  ASSUME IInv, NEW w \in Users, NEW d \in Denoms
  PROVE  Cleared(w, d) \in Nat /\ Cleared(w, d) <= PendingOf(w, Validators)[d]
         /\ PendingOf(w, Validators)[d] \in Nat
<1>1. PendingOf(w, Validators)[d] \in Nat
  BY PendingNat DEF IInv, LedgerInv
<1> QED BY <1>1 DEF Cleared

LEMMA BlockBurn ==
  ASSUME IInv, NEW w \in Users, NEW b \in BurnAmounts(w)
  PROVE  b \in Nat /\ (w \notin Reduced => b = 0)
<1>1. CASE w \notin Reduced
  BY <1>1 DEF BurnAmounts
<1>2. CASE w \in Reduced
  <2> DEFINE x == committed[w]["EdenB"] + claimed[w]["EdenB"]
             n == snapshot[w] - staked[w]
             d == committed[w]["Eden"] + snapshot[w]
  <2>1. /\ committed[w]["EdenB"] \in Nat /\ claimed[w]["EdenB"] \in Nat
        /\ committed[w]["Eden"] \in Nat /\ snapshot[w] \in Nat /\ staked[w] \in Nat
    BY AmountsNat, DenomsDef
  <2>2. staked[w] < snapshot[w]
    BY <1>2 DEF Reduced
  <2>3. x \in Nat /\ n \in Nat /\ d \in Nat \ {0} /\ n <= d
    BY <2>1, <2>2
  <2>4. b \in TruncatedPart(x, n, d)
    BY <1>2 DEF BurnAmounts
  <2> HIDE DEF x, n, d
  <2> QED BY <1>2, <2>3, <2>4, TruncatedPartBound
<1> QED BY <1>1, <1>2

\* What the block does to the accounts: lost is the EdenB it burns of each.
BlockLedger(lost) ==
    /\ lost \in [Users -> Nat]
    /\ claimed' \in [Users -> [Denoms -> Nat]] /\ committed' \in [Users -> [Denoms -> Nat]]
    /\ \A w \in Users :
         /\ claimed'[w]["Eden"] = claimed[w]["Eden"] + Cleared(w, "Eden")
         /\ committed'[w]["Eden"] = committed[w]["Eden"]
         /\ claimed'[w]["EdenB"] + committed'[w]["EdenB"] + lost[w]
              = claimed[w]["EdenB"] + committed[w]["EdenB"] + Cleared(w, "EdenB")
         /\ committed'[w]["EdenB"] <= committed[w]["EdenB"]
         /\ w \notin Reduced => lost[w] = 0
    /\ startingInfo' \in [Validators -> SUBSET Users]
    /\ \A w \in Users, v \in Validators :
         w \in startingInfo'[v] <=>
           w \in startingInfo[v] /\ (v = "EdenB" => committed'[w]["EdenB"] > 0)
    /\ burnt' = burnt + Sum(lost, NumUsers)
    /\ totalSupply' = [totalSupply EXCEPT !["EdenB"] = @ - Sum(lost, NumUsers)]

LEMMA BlockLedgers ==
  ASSUME IInv, NEW burn, \A w \in Users : burn[w] \in BurnAmounts(w),
         BurnEdenBIfElysStakingReduced(burn)
  PROVE  \E lost : BlockLedger(lost)
<1> DEFINE claims(w) == IF w \in Reduced THEN Plus(claimed[w], PendingOf(w, Validators))
                                         ELSE claimed[w]
           fromClaims(w) == BurnClaimed(claims(w)["EdenB"], burn[w])
           fromCommitted(w) == BurnCommitted(w, claims(w)["EdenB"], burn[w])
           lost == [w \in Users |-> fromClaims(w) + fromCommitted(w)]
<1>0. /\ claimed \in [Users -> [Denoms -> Nat]] /\ committed \in [Users -> [Denoms -> Nat]]
      /\ startingInfo \in [Validators -> SUBSET Users]
  BY DEF IInv, LedgerInv, LedgerTypes
<1>1. /\ claimed' = [w \in Users |-> [claims(w) EXCEPT !["EdenB"] = @ - fromClaims(w)]]
      /\ committed' = [w \in Users |-> [committed[w] EXCEPT !["EdenB"] = @ - fromCommitted(w)]]
      /\ startingInfo' = [startingInfo EXCEPT !["EdenB"] =
            {w \in @ : committed[w]["EdenB"] > fromCommitted(w)}]
      /\ burnt' = burnt + Sum(lost, NumUsers)
      /\ totalSupply' = [totalSupply EXCEPT !["EdenB"] = @ - Sum(lost, NumUsers)]
  BY DEF BurnEdenBIfElysStakingReduced
<1>2. ASSUME NEW w \in Users
      PROVE  /\ claims(w) \in [Denoms -> Nat]
             /\ \A d \in Denoms : claims(w)[d] = claimed[w][d] + Cleared(w, d)
  <2>1. CASE w \in Reduced
    <3>1. PendingOf(w, Validators) \in [Denoms -> Nat]
      BY PendingNat DEF IInv, LedgerInv
    <3> QED BY <1>0, <2>1, <3>1 DEF Plus, Cleared
  <2>2. CASE w \notin Reduced
    BY <1>0, <2>2 DEF Cleared
  <2> QED BY <2>1, <2>2
<1> HIDE DEF claims
<1>3. ASSUME NEW w \in Users
      PROVE  /\ fromClaims(w) \in Nat /\ fromClaims(w) <= claims(w)["EdenB"]
             /\ fromCommitted(w) \in Nat /\ fromCommitted(w) <= committed[w]["EdenB"]
             /\ w \notin Reduced => fromClaims(w) = 0 /\ fromCommitted(w) = 0
  <2>1. claims(w)["EdenB"] \in Nat /\ committed[w]["EdenB"] \in Nat
    BY <1>0, <1>2, DenomsDef
  <2>2. burn[w] \in Nat /\ (w \notin Reduced => burn[w] = 0)
    BY BlockBurn
  <2>3. /\ fromClaims(w) \in Nat /\ fromClaims(w) <= claims(w)["EdenB"]
        /\ fromCommitted(w) \in Nat /\ fromCommitted(w) <= committed[w]["EdenB"]
    BY <2>1, <2>2, BurnFacts
  <2>4. w \notin Reduced => fromClaims(w) = 0 /\ fromCommitted(w) = 0
    BY <2>1, <2>2 DEF BurnClaimed, BurnCommitted, MinOf
  <2> QED BY <2>3, <2>4
<1> HIDE DEF fromClaims, fromCommitted
<1>4. \A w \in Users : lost[w] = fromClaims(w) + fromCommitted(w) /\ lost[w] \in Nat
  BY <1>3
<1>5. ASSUME NEW w \in Users
      PROVE  /\ claimed'[w] \in [Denoms -> Nat] /\ committed'[w] \in [Denoms -> Nat]
             /\ claimed'[w]["Eden"] = claims(w)["Eden"]
             /\ claimed'[w]["EdenB"] = claims(w)["EdenB"] - fromClaims(w)
             /\ committed'[w]["Eden"] = committed[w]["Eden"]
             /\ committed'[w]["EdenB"] = committed[w]["EdenB"] - fromCommitted(w)
  <2>1. committed[w] \in [Denoms -> Nat] /\ claims(w) \in [Denoms -> Nat]
    BY <1>0, <1>2
  <2>2. claims(w)["EdenB"] - fromClaims(w) \in Nat /\ committed[w]["EdenB"] - fromCommitted(w) \in Nat
    BY <1>3, <2>1, DenomsDef
  <2>3. /\ claimed'[w] = [claims(w) EXCEPT !["EdenB"] = claims(w)["EdenB"] - fromClaims(w)]
        /\ committed'[w] = [committed[w] EXCEPT !["EdenB"] = committed[w]["EdenB"] - fromCommitted(w)]
    BY <1>1
  <2> QED BY <2>1, <2>2, <2>3, DenomsDef
<1>6. claimed' \in [Users -> [Denoms -> Nat]] /\ committed' \in [Users -> [Denoms -> Nat]]
  <2> DEFINE f(w) == [claims(w) EXCEPT !["EdenB"] = @ - fromClaims(w)]
             g(w) == [committed[w] EXCEPT !["EdenB"] = @ - fromCommitted(w)]
  <2>1. claimed' = [w \in Users |-> f(w)] /\ committed' = [w \in Users |-> g(w)]
    BY <1>1
  <2> HIDE DEF f, g
  <2>2. \A w \in Users : f(w) \in [Denoms -> Nat] /\ g(w) \in [Denoms -> Nat]
    BY <1>5, <2>1
  <2> QED BY <2>1, <2>2
<1>7. ASSUME NEW w \in Users
      PROVE  /\ claimed'[w]["Eden"] = claimed[w]["Eden"] + Cleared(w, "Eden")
             /\ committed'[w]["Eden"] = committed[w]["Eden"]
             /\ claimed'[w]["EdenB"] + committed'[w]["EdenB"] + lost[w]
                  = claimed[w]["EdenB"] + committed[w]["EdenB"] + Cleared(w, "EdenB")
             /\ committed'[w]["EdenB"] <= committed[w]["EdenB"]
             /\ w \notin Reduced => lost[w] = 0
  <2>1. PICK x, k, l, b, c : /\ x = claimed[w]["EdenB"] /\ k = committed[w]["EdenB"]
                             /\ l = Cleared(w, "EdenB")
                             /\ b = fromClaims(w) /\ c = fromCommitted(w)
    OBVIOUS
  <2>2. x \in Nat /\ k \in Nat /\ l \in Nat /\ b \in Nat /\ c \in Nat
    BY <1>3, <2>1, AmountsNat, ClearedNat, DenomsDef
  <2>3. /\ claimed'[w]["EdenB"] = (x + l) - b /\ committed'[w]["EdenB"] = k - c /\ lost[w] = b + c
    BY <1>2, <1>4, <1>5, <2>1, DenomsDef
  <2>4. ((x + l) - b) + (k - c) + (b + c) = x + k + l /\ k - c <= k
    BY <2>2
  <2>5. w \notin Reduced => lost[w] = 0
    BY <1>3, <1>4
  <2> QED BY <1>2, <1>5, <2>1, <2>3, <2>4, <2>5, DenomsDef
<1>8. /\ startingInfo' \in [Validators -> SUBSET Users]
      /\ \A w \in Users, v \in Validators :
           w \in startingInfo'[v] <=>
             w \in startingInfo[v] /\ (v = "EdenB" => committed'[w]["EdenB"] > 0)
  <2> DEFINE still == {w \in startingInfo["EdenB"] : committed[w]["EdenB"] > fromCommitted(w)}
  <2>1. startingInfo' = [startingInfo EXCEPT !["EdenB"] = still] /\ still \in SUBSET Users
    BY <1>0, <1>1, DenomsDef
  <2>2. \A w \in Users : committed'[w]["EdenB"] > 0 <=> committed[w]["EdenB"] > fromCommitted(w)
    <3> TAKE w \in Users
    <3>1. /\ committed'[w]["EdenB"] = committed[w]["EdenB"] - fromCommitted(w)
          /\ committed[w]["EdenB"] \in Nat /\ fromCommitted(w) \in Nat
      BY <1>0, <1>3, <1>5, DenomsDef
    <3> QED BY <3>1
  <2>3. \A w \in Users : w \in still <=> w \in startingInfo["EdenB"] /\ committed'[w]["EdenB"] > 0
    BY <2>2
  <2> HIDE DEF still
  <2> QED BY <1>0, <2>1, <2>3, DenomsDef
<1>9. lost \in [Users -> Nat]
  BY <1>4
<1> HIDE DEF lost
<1> QED BY <1>1, <1>6, <1>7, <1>8, <1>9 DEF BlockLedger

\* What the block adds to the rewards pending: gain is what it mints, by account.
BlockRewards(gain) ==
    /\ gain \in [Users -> [Denoms -> Nat]]
    /\ pending' \in [Validators -> [Users -> [Denoms -> Nat]]] /\ minted' \in [Denoms -> Nat]
    /\ \A w \in Users : PendingOf(w, Validators)' \in [Denoms -> Nat]
    /\ \A w \in Users, d \in Denoms :
         PendingOf(w, Validators)'[d] + Cleared(w, d) = PendingOf(w, Validators)[d] + gain[w][d]
    /\ \A d \in Denoms : minted'[d] = minted[d] + TotalOf(gain, d)

LEMMA NoGain ==
  ASSUME NEW d \in Denoms
  PROVE  TotalOf([w \in Users |-> NoCoins], d) = 0
<1> DEFINE f == [w \in Users |-> [v \in Users |-> NoCoins][w][d]]
<1>1. NumUsers \in Nat /\ Users = 1 .. NumUsers
  BY CommitmentAssumption DEF Users
<1>2. f \in [1 .. NumUsers -> Int] /\ \A w \in 1 .. NumUsers : f[w] = 0
  BY <1>1 DEF NoCoins
<1> HIDE DEF f
<1>3. Sum(f, NumUsers) = 0
  BY <1>1, <1>2, SumZero
<1> QED BY <1>3 DEF TotalOf, f

LEMMA GainOfOne ==
  ASSUME NEW u \in Users, NEW d \in Denoms, NEW e \in Denoms, NEW x \in Nat, NEW gain,
         gain \in [Users -> [Denoms -> Nat]],
         \A w \in Users, y \in Denoms : gain[w][y] = IF w = u /\ y = d THEN x ELSE 0
  PROVE  TotalOf(gain, e) = IF e = d THEN x ELSE 0
<1>1. PICK none : none = [w \in Users |-> NoCoins]
  OBVIOUS
<1>2. /\ none \in [Users -> [Denoms -> Nat]]
      /\ \A w \in Users : none[w][e] = 0 /\ (w # u => gain[w][e] = none[w][e])
  BY <1>1 DEF NoCoins
<1>3. TotalOf(gain, e) = TotalOf(none, e) + gain[u][e] - none[u][e]
  BY <1>2, TotalOfStep
<1>4. TotalOf(none, e) = 0
  BY <1>1, NoGain
<1> QED BY <1>2, <1>3, <1>4

LEMMA BlockPending ==
  ASSUME IInv,
         \/ pending' = PendingCleared(Reduced, Validators) /\ minted' = minted
         \/ \E v \in Validators, d \in Denoms, x \in Nat, u \in Users :
               /\ pending' = [PendingCleared(Reduced, Validators) EXCEPT ![v][u][d] = @ + x]
               /\ minted' = [minted EXCEPT ![d] = @ + x]
  PROVE  \E gain : BlockRewards(gain)
<1> DEFINE p == PendingCleared(Reduced, Validators)
           none == [w \in Users |-> NoCoins]
<1>0. /\ pending \in [Validators -> [Users -> [Denoms -> Nat]]] /\ minted \in [Denoms -> Nat]
  BY DEF IInv, LedgerInv, LedgerTypes
<1>1. /\ p \in [Validators -> [Users -> [Denoms -> Nat]]]
      /\ \A v \in Validators, w \in Users, e \in Denoms :
           p[v][w][e] = IF w \in Reduced THEN 0 ELSE pending[v][w][e]
  BY <1>0 DEF PendingCleared, NoCoins
<1>2. none \in [Users -> [Denoms -> Nat]] /\ \A w \in Users, e \in Denoms : none[w][e] = 0
  BY DEF NoCoins
<1>3. \A w \in Users, e \in Denoms :
        /\ PendingOf(w, Validators)'[e] = pending'["Elys"][w][e] + pending'["Eden"][w][e] + pending'["EdenB"][w][e]
        /\ PendingOf(w, Validators)[e] = pending["Elys"][w][e] + pending["Eden"][w][e] + pending["EdenB"][w][e]
  BY DenomsDef DEF PendingOf
<1>4. \A v \in Validators, w \in Users, e \in Denoms : pending[v][w][e] \in Nat /\ p[v][w][e] \in Nat
  BY <1>0, <1>1
<1> HIDE DEF p, none
<1>5. ASSUME NEW w \in Users, NEW e \in Denoms
      PROVE  p["Elys"][w][e] + p["Eden"][w][e] + p["EdenB"][w][e] + Cleared(w, e) = PendingOf(w, Validators)[e]
  <2>1. /\ p["Elys"][w][e] = IF w \in Reduced THEN 0 ELSE pending["Elys"][w][e]
        /\ p["Eden"][w][e] = IF w \in Reduced THEN 0 ELSE pending["Eden"][w][e]
        /\ p["EdenB"][w][e] = IF w \in Reduced THEN 0 ELSE pending["EdenB"][w][e]
        /\ pending["Elys"][w][e] \in Nat /\ pending["Eden"][w][e] \in Nat /\ pending["EdenB"][w][e] \in Nat
    BY <1>1, <1>4, DenomsDef
  <2>2. PendingOf(w, Validators)[e] = pending["Elys"][w][e] + pending["Eden"][w][e] + pending["EdenB"][w][e]
    BY <1>3
  <2> QED BY <2>1, <2>2 DEF Cleared
<1>6. ASSUME pending' \in [Validators -> [Users -> [Denoms -> Nat]]], NEW w \in Users
      PROVE  PendingOf(w, Validators)' \in [Denoms -> Nat]
  <2>1. \A e \in Denoms : /\ pending'["Elys"][w][e] \in Nat /\ pending'["Eden"][w][e] \in Nat
                          /\ pending'["EdenB"][w][e] \in Nat
    BY <1>6, DenomsDef
  <2> QED BY <2>1 DEF PendingOf
<1>7. CASE pending' = p /\ minted' = minted
  <2>1. \A e \in Denoms : TotalOf(none, e) = 0
    BY NoGain DEF none
  <2>2. \A e \in Denoms : minted'[e] = minted[e] + TotalOf(none, e)
    <3> TAKE e \in Denoms
    <3>1. minted[e] \in Nat /\ TotalOf(none, e) = 0
      BY <1>0, <2>1
    <3> QED BY <1>7, <3>1
  <2>3. ASSUME NEW w \in Users, NEW e \in Denoms
        PROVE  PendingOf(w, Validators)'[e] + Cleared(w, e) = PendingOf(w, Validators)[e] + none[w][e]
    <3>1. PendingOf(w, Validators)'[e] = p["Elys"][w][e] + p["Eden"][w][e] + p["EdenB"][w][e]
      BY <1>3, <1>7
    <3>2. none[w][e] = 0 /\ PendingOf(w, Validators)[e] \in Nat
      BY <1>2, ClearedNat
    <3>3. PendingOf(w, Validators)[e] = PendingOf(w, Validators)[e] + none[w][e]
      BY <3>2
    <3> QED BY <1>5, <3>1, <3>3
  <2>4. BlockRewards(none)
    BY <1>0, <1>1, <1>2, <1>6, <1>7, <2>2, <2>3 DEF BlockRewards
  <2> QED BY <2>4
<1>8. ASSUME NEW v \in Validators, NEW d \in Denoms, NEW x \in Nat, NEW u \in Users,
             pending' = [p EXCEPT ![v][u][d] = @ + x], minted' = [minted EXCEPT ![d] = @ + x]
      PROVE  \E gain : BlockRewards(gain)
  <2> DEFINE gain == [none EXCEPT ![u][d] = x]
  <2>1. /\ gain \in [Users -> [Denoms -> Nat]]
        /\ \A w \in Users, e \in Denoms : gain[w][e] = IF w = u /\ e = d THEN x ELSE 0
    BY <1>2
  <2> HIDE DEF gain
  <2>2. \A y \in Validators, w \in Users, e \in Denoms :
          pending'[y][w][e] = p[y][w][e] + (IF y = v THEN gain[w][e] ELSE 0)
    <3> TAKE y \in Validators, w \in Users, e \in Denoms
    <3>1. pending'[y][w][e] = IF y = v /\ w = u /\ e = d THEN p[y][w][e] + x ELSE p[y][w][e]
      BY <1>1, <1>8
    <3>2. p[y][w][e] \in Nat
      BY <1>4
    <3> QED BY <2>1, <3>1, <3>2
  <2>3. pending' \in [Validators -> [Users -> [Denoms -> Nat]]]
    <3>1. p[v][u][d] + x \in Nat
      BY <1>4
    <3>2. pending' = [p EXCEPT ![v][u][d] = p[v][u][d] + x]
      BY <1>8
    <3> QED BY <1>1, <3>1, <3>2
  <2>4. minted' \in [Denoms -> Nat] /\ \A e \in Denoms : minted'[e] = minted[e] + (IF e = d THEN x ELSE 0)
    BY <1>0, <1>8
  <2>5. ASSUME NEW e \in Denoms PROVE TotalOf(gain, e) = IF e = d THEN x ELSE 0
    BY <2>1, GainOfOne
  <2>6. ASSUME NEW w \in Users, NEW e \in Denoms
        PROVE  PendingOf(w, Validators)'[e] + Cleared(w, e) = PendingOf(w, Validators)[e] + gain[w][e]
    <3>1. PICK a, b, c, g, l, q : /\ a = p["Elys"][w][e] /\ b = p["Eden"][w][e] /\ c = p["EdenB"][w][e]
                                  /\ g = gain[w][e] /\ l = Cleared(w, e) /\ q = PendingOf(w, Validators)[e]
      OBVIOUS
    <3>2. a \in Nat /\ b \in Nat /\ c \in Nat /\ g \in Nat /\ l \in Nat /\ q \in Nat
      BY <1>4, <2>1, <3>1, ClearedNat, DenomsDef
    <3>3. a + b + c + l = q
      BY <1>5, <3>1
    <3>4. PendingOf(w, Validators)'[e] = a + b + c + g
      <4>1. /\ pending'["Elys"][w][e] = a + (IF v = "Elys" THEN g ELSE 0)
            /\ pending'["Eden"][w][e] = b + (IF v = "Eden" THEN g ELSE 0)
            /\ pending'["EdenB"][w][e] = c + (IF v = "EdenB" THEN g ELSE 0)
        BY <2>2, <3>1, DenomsDef
      <4>2. v = "Eden" \/ v = "EdenB" \/ v = "Elys"
        BY DenomsDef
      <4>3. PendingOf(w, Validators)'[e] = (a + (IF v = "Elys" THEN g ELSE 0)) + (b + (IF v = "Eden" THEN g ELSE 0)) + (c + (IF v = "EdenB" THEN g ELSE 0))
        BY <1>3, <4>1
      <4> QED BY <3>2, <4>2, <4>3
    <3>5. PendingOf(w, Validators)'[e] + l = q + g
      BY <3>2, <3>3, <3>4
    <3> QED BY <3>1, <3>5
  <2>7. BlockRewards(gain)
    BY <1>6, <2>1, <2>3, <2>4, <2>5, <2>6 DEF BlockRewards
  <2> QED BY <2>7
<1> QED BY <1>7, <1>8 DEF p

\* Two ways of splitting the same amounts have the same totals.
LEMMA SumBalance ==
  ASSUME NEW N \in Nat, NEW b \in [1 .. N -> Int], NEW h \in [1 .. N -> Int],
         NEW c \in [1 .. N -> Int], NEW l \in [1 .. N -> Int],
         \A i \in 1 .. N : c[i] + l[i] = b[i] + h[i]
  PROVE  /\ Sum(c, N) + Sum(l, N) = Sum(b, N) + Sum(h, N)
         /\ Sum(c, N) \in Int /\ Sum(l, N) \in Int /\ Sum(b, N) \in Int /\ Sum(h, N) \in Int
<1> DEFINE m == [i \in 1 .. N |-> b[i] + h[i]]
<1>1. /\ m \in [1 .. N -> Int]
      /\ \A i \in 1 .. N : m[i] = b[i] + h[i]
      /\ \A i \in 1 .. N : m[i] = c[i] + l[i]
  <2>1. \A i \in 1 .. N : m[i] = b[i] + h[i]
    OBVIOUS
  <2>2. \A i \in 1 .. N : m[i] = c[i] + l[i]
    <3> TAKE i \in 1 .. N
    <3>1. c[i] + l[i] = b[i] + h[i]
      OBVIOUS
    <3> QED BY <2>1, <3>1, Zenon
  <2>3. m \in [1 .. N -> Int]
    <3>1. \A i \in 1 .. N : b[i] + h[i] \in Int
      OBVIOUS
    <3> QED BY <3>1
  <2> QED BY <2>1, <2>2, <2>3
<1> HIDE DEF m
<1>2. Sum(m, N) = Sum(b, N) + Sum(h, N)
  BY <1>1, SumAdd, Zenon
<1>3. Sum(m, N) = Sum(c, N) + Sum(l, N)
  BY <1>1, SumAdd, Zenon
<1>4. Sum(c, N) \in Int /\ Sum(l, N) \in Int /\ Sum(b, N) \in Int /\ Sum(h, N) \in Int
  BY SumInt
<1> QED BY <1>2, <1>3, <1>4

LEMMA BlockHeld ==
  ASSUME IInv, NEW lost, NEW gain, BlockLedger(lost), BlockRewards(gain), UNCHANGED <<vestings, paid>>,
         NEW w \in Users
  PROVE  /\ EdenOf(w)' = EdenOf(w) + gain[w]["Eden"]
         /\ EdenBHeld(w)' + lost[w] = EdenBHeld(w) + gain[w]["EdenB"]
         /\ EdenOf(w)' \in Nat /\ EdenBHeld(w)' \in Nat /\ EdenOf(w) \in Nat /\ EdenBHeld(w) \in Nat
         /\ lost[w] \in Nat /\ gain[w]["Eden"] \in Nat /\ gain[w]["EdenB"] \in Nat
<1>1. PICK s, x, k, p, q, y, z : /\ s = SeqSum(vestings[w], LeftOf) + paid[w]
                                 /\ x = claimed[w]["Eden"] /\ k = committed[w]["Eden"]
                                 /\ p = PendingOf(w, Validators)["Eden"]
                                 /\ q = PendingOf(w, Validators)'["Eden"]
                                 /\ y = Cleared(w, "Eden") /\ z = gain[w]["Eden"]
  OBVIOUS
<1>2. /\ s \in Nat /\ x \in Nat /\ k \in Nat /\ p \in Nat /\ y \in Nat
  BY <1>1, AmountsNat, ClearedNat, DenomsDef
<1>3. q \in Nat /\ z \in Nat /\ q + y = p + z
  BY <1>1, DenomsDef DEF BlockRewards
<1>4. claimed'[w]["Eden"] = x + y /\ committed'[w]["Eden"] = k
  BY <1>1 DEF BlockLedger
<1>5. EdenOf(w)' = (x + y) + k + q + s /\ EdenOf(w) = x + k + p + s
  BY <1>1, <1>4 DEF EdenOf
<1>6. (x + y) + k + q + s = (x + k + p + s) + z /\ (x + y) + k + q + s \in Nat
  BY <1>2, <1>3
<1>7. PICK a, b, c, d, l, g, h, e, o :
        /\ a = claimed[w]["EdenB"] /\ b = committed[w]["EdenB"]
        /\ c = claimed'[w]["EdenB"] /\ d = committed'[w]["EdenB"] /\ l = lost[w]
        /\ g = PendingOf(w, Validators)["EdenB"] /\ h = PendingOf(w, Validators)'["EdenB"]
        /\ e = Cleared(w, "EdenB") /\ o = gain[w]["EdenB"]
  OBVIOUS
<1>8. a \in Nat /\ b \in Nat /\ g \in Nat /\ e \in Nat
  BY <1>7, AmountsNat, ClearedNat, DenomsDef
<1>9. h \in Nat /\ o \in Nat /\ h + e = g + o
  BY <1>7, DenomsDef DEF BlockRewards
<1>10. c \in Nat /\ d \in Nat /\ l \in Nat /\ c + d + l = a + b + e
  BY <1>7, DenomsDef DEF BlockLedger
<1>11. (c + d + h) + l = (a + b + g) + o /\ c + d + h \in Nat
  BY <1>8, <1>9, <1>10
<1>12. EdenBHeld(w)' = c + d + h /\ EdenBHeld(w) = a + b + g
  BY <1>7 DEF EdenBHeld
<1>13. EdenOf(w)' = EdenOf(w) + gain[w]["Eden"] /\ EdenOf(w)' \in Nat
  BY <1>1, <1>5, <1>6, Zenon
<1>14. EdenBHeld(w)' + lost[w] = EdenBHeld(w) + gain[w]["EdenB"] /\ EdenBHeld(w)' \in Nat
  BY <1>7, <1>11, <1>12, Zenon
<1> QED BY <1>1, <1>3, <1>7, <1>9, <1>10, <1>13, <1>14, AmountsNat

LEMMA BlockSolvent ==
  ASSUME IInv, NEW lost, NEW gain, BlockLedger(lost), BlockRewards(gain),
         UNCHANGED <<vestings, paid, vestedNow>>
  PROVE  Solvent' /\ burnt' \in Nat /\ totalSupply' \in [{"Eden", "EdenB", "vested"} -> Int]
<1>1. NumUsers \in Nat /\ Users = 1 .. NumUsers
  BY CommitmentAssumption DEF Users
<1>2. PICK e, f, g : /\ e = [w \in Users |-> EdenOf(w)] /\ f = [w \in Users |-> EdenOf(w)']
                     /\ g = [w \in Users |-> gain[w]["Eden"]]
  OBVIOUS
<1>3. PICK b, c, h : /\ b = [w \in Users |-> EdenBHeld(w)] /\ c = [w \in Users |-> EdenBHeld(w)']
                     /\ h = [w \in Users |-> gain[w]["EdenB"]]
  OBVIOUS
<1>4. /\ e \in [1 .. NumUsers -> Int] /\ f \in [1 .. NumUsers -> Int] /\ g \in [1 .. NumUsers -> Int]
      /\ \A i \in 1 .. NumUsers : f[i] = e[i] + g[i]
  BY <1>1, <1>2, BlockHeld
<1>5. /\ b \in [1 .. NumUsers -> Int] /\ c \in [1 .. NumUsers -> Int] /\ h \in [1 .. NumUsers -> Int]
      /\ lost \in [1 .. NumUsers -> Int] /\ lost \in [1 .. NumUsers -> Nat]
      /\ \A i \in 1 .. NumUsers : c[i] + lost[i] = b[i] + h[i]
  <2>1. lost \in [1 .. NumUsers -> Nat]
    BY <1>1 DEF BlockLedger
  <2>2. \A w \in Users : /\ EdenBHeld(w)' + lost[w] = EdenBHeld(w) + gain[w]["EdenB"]
                         /\ EdenBHeld(w)' \in Int /\ EdenBHeld(w) \in Int /\ gain[w]["EdenB"] \in Int
    BY BlockHeld
  <2>3. \A w \in Users : b[w] = EdenBHeld(w) /\ c[w] = EdenBHeld(w)' /\ h[w] = gain[w]["EdenB"]
    BY <1>3
  <2>4. b \in [Users -> Int] /\ c \in [Users -> Int] /\ h \in [Users -> Int]
    BY <1>3, <2>2
  <2>5. \A w \in Users : c[w] + lost[w] = b[w] + h[w]
    BY <2>2, <2>3, Zenon
  <2> QED BY <1>1, <2>1, <2>4, <2>5
<1>6. PICK E, F, G, B, C, H, L :
        /\ E = Sum(e, NumUsers) /\ F = Sum(f, NumUsers) /\ G = Sum(g, NumUsers)
        /\ B = Sum(b, NumUsers) /\ C = Sum(c, NumUsers) /\ H = Sum(h, NumUsers) /\ L = Sum(lost, NumUsers)
  OBVIOUS
<1>7. F = E + G /\ E \in Int /\ G \in Int
  BY <1>1, <1>4, <1>6, SumAdd, SumInt
<1>8. C + L = B + H /\ C \in Int /\ L \in Int /\ B \in Int /\ H \in Int
  BY <1>1, <1>5, <1>6, SumBalance, ZenonT(40)
<1>9. L \in Nat
  BY <1>1, <1>5, <1>6, SumBound
<1>10. E + vestedNow <= minted["Eden"] /\ B + burnt <= minted["EdenB"]
  BY <1>2, <1>3, <1>6 DEF IInv, Solvent
<1>11. minted'["Eden"] = minted["Eden"] + G /\ minted'["EdenB"] = minted["EdenB"] + H
  BY <1>2, <1>3, <1>6, DenomsDef DEF BlockRewards, TotalOf
<1>12. /\ burnt' = burnt + L /\ vestedNow' = vestedNow
       /\ totalSupply' = [totalSupply EXCEPT !["EdenB"] = @ - L]
  BY <1>6 DEF BlockLedger
<1>13. /\ burnt \in Nat /\ vestedNow \in Nat /\ minted["Eden"] \in Nat /\ minted["EdenB"] \in Nat
  BY SettingTypes, DenomsDef DEF IInv, LedgerInv, LedgerTypes
<1>14. F + vestedNow' <= minted'["Eden"] /\ C + burnt' <= minted'["EdenB"]
  BY <1>7, <1>8, <1>9, <1>10, <1>11, <1>12, <1>13
<1>15. burnt' \in Nat
  BY <1>9, <1>12, <1>13
<1>16. totalSupply' \in [{"Eden", "EdenB", "vested"} -> Int]
  BY <1>9, <1>12, SettingTypes
<1>17. Solvent'
  BY <1>2, <1>3, <1>6, <1>14 DEF Solvent
<1> QED BY <1>15, <1>16, <1>17

LEMMA BlockStep ==
  ASSUME IInv, UNCHANGED scope, NextBlock
  PROVE  IInv' /\ FallsForACause
<1>1. VestInv' /\ UNCHANGED <<vestings, paid, vestedNow>>
  BY BlockVestings, SettingTypes DEF NextBlock, conversion
<1>2. /\ height' = height + 1 /\ height \in Nat
      /\ UNCHANGED <<totalCommitted, staked, settings>>
  BY SettingTypes DEF NextBlock, VestInv
<1>3. PICK burn : /\ \A w \in Users : burn[w] \in BurnAmounts(w)
                  /\ BurnEdenBIfElysStakingReduced(burn)
  BY DEF NextBlock
<1>4. snapshot' = TakeDelegationSnapshot /\ stakeChange' = {}
  BY <1>3 DEF BurnEdenBIfElysStakingReduced
<1>5. PICK lost : BlockLedger(lost)
  BY <1>3, BlockLedgers
<1>6. PICK gain : BlockRewards(gain)
  <2>1. \/ pending' = PendingCleared(Reduced, Validators) /\ minted' = minted
        \/ \E v \in Validators, d \in Denoms, x \in Nat, u \in Users :
              /\ pending' = [PendingCleared(Reduced, Validators) EXCEPT ![v][u][d] = @ + x]
              /\ minted' = [minted EXCEPT ![d] = @ + x]
    <3>1. \A v \in Validators : startingInfo'[v] \subseteq Users
      BY <1>5 DEF BlockLedger
    <3>2. Rewards \subseteq Nat
      BY CommitmentAssumption
    <3> QED BY <3>1, <3>2 DEF NextBlock
  <2> QED BY <2>1, BlockPending
<1>7. Solvent' /\ burnt' \in Nat /\ totalSupply' \in [{"Eden", "EdenB", "vested"} -> Int]
  BY <1>1, <1>5, <1>6, BlockSolvent
<1>8. LedgerTypes'
  <2>1. snapshot' \in [Users -> Nat] /\ stakeChange' \subseteq Users
    BY <1>4 DEF TakeDelegationSnapshot, IInv, LedgerInv, LedgerTypes
  <2>2. /\ claimed' \in [Users -> [Denoms -> Nat]] /\ committed' \in [Users -> [Denoms -> Nat]]
        /\ startingInfo' \in [Validators -> SUBSET Users]
    BY <1>5 DEF BlockLedger
  <2>3. pending' \in [Validators -> [Users -> [Denoms -> Nat]]] /\ minted' \in [Denoms -> Nat]
    BY <1>6 DEF BlockRewards
  <2>4. /\ totalCommitted' \in [Denoms -> Nat] /\ enableVestNow' \in BOOLEAN
        /\ programClaimed' \subseteq Users /\ staked' \in [Users -> Nat]
    BY <1>2 DEF IInv, LedgerInv, LedgerTypes, settings
  <2> QED BY <1>7, <2>1, <2>2, <2>3, <2>4 DEF LedgerTypes
<1>9. \A w \in Users : /\ committed'[w]["Eden"] = committed[w]["Eden"]
                       /\ committed'[w]["EdenB"] <= committed[w]["EdenB"]
                       /\ committed'[w]["EdenB"] \in Nat /\ committed[w]["EdenB"] \in Nat
  BY <1>5, AmountsNat, DenomsDef DEF BlockLedger
<1>10. TotalsCoverCommitments'
  <2>1. NumUsers \in Nat /\ Users = 1 .. NumUsers
    BY CommitmentAssumption DEF Users
  <2>2. PICK f, g, h, k : /\ f = [w \in Users |-> committed[w]["EdenB"]]
                          /\ g = [w \in Users |-> committed'[w]["EdenB"]]
                          /\ h = [w \in Users |-> committed[w]["Eden"]]
                          /\ k = [w \in Users |-> committed'[w]["Eden"]]
    OBVIOUS
  <2>3. k = h
    BY <1>9, <2>2
  <2>4. f \in [1 .. NumUsers -> Int] /\ g \in [1 .. NumUsers -> Int] /\ \A i \in 1 .. NumUsers : g[i] <= f[i]
    BY <1>9, <2>1, <2>2
  <2>5. Sum(g, NumUsers) <= Sum(f, NumUsers) /\ Sum(f, NumUsers) \in Int /\ Sum(g, NumUsers) \in Int
    BY <2>1, <2>4, SumOrder, SumInt
  <2>6. totalCommitted["Eden"] = Sum(h, NumUsers) /\ totalCommitted["EdenB"] >= Sum(f, NumUsers)
    BY <2>2 DEF IInv, LedgerInv, TotalsCoverCommitments, TotalOf
  <2>7. totalCommitted["EdenB"] \in Nat /\ totalCommitted' = totalCommitted
    BY <1>2, DenomsDef DEF IInv, LedgerInv, LedgerTypes
  <2>8. totalCommitted'["Eden"] = Sum(k, NumUsers) /\ totalCommitted'["EdenB"] >= Sum(g, NumUsers)
    BY <2>3, <2>5, <2>6, <2>7
  <2> QED BY <2>2, <2>8 DEF TotalsCoverCommitments, TotalOf
<1>11. DelegationsCanWithdraw'
  <2> SUFFICES ASSUME NEW x \in Users, NEW y \in Validators
               PROVE  x \in startingInfo'[y] <=> (IF y = "Elys" THEN staked'[x] > 0 ELSE committed'[x][y] > 0)
    BY DEF DelegationsCanWithdraw, HasDelegation
  <2>1. x \in startingInfo[y] <=> IF y = "Elys" THEN staked[x] > 0 ELSE committed[x][y] > 0
    BY DEF IInv, LedgerInv, DelegationsCanWithdraw, HasDelegation
  <2>2. x \in startingInfo'[y] <=> x \in startingInfo[y] /\ (y = "EdenB" => committed'[x]["EdenB"] > 0)
    BY <1>5 DEF BlockLedger
  <2>3. CASE y = "EdenB"
    <3>1. committed'[x]["EdenB"] > 0 => committed[x]["EdenB"] > 0
      BY <1>9
    <3> QED BY <2>1, <2>2, <2>3, <3>1
  <2>4. CASE y = "Eden"
    BY <1>9, <2>1, <2>2, <2>4
  <2>5. CASE y = "Elys"
    BY <1>2, <2>1, <2>2, <2>5
  <2> QED BY <2>3, <2>4, <2>5, DenomsDef
<1>12. FallsForACause
  <2> SUFFICES ASSUME NEW w \in Users, w \notin Reduced
               PROVE  ~ (EdenBOf(w)' < EdenBOf(w))
    <3>1. height' > height
      BY <1>2
    <3>2. ASSUME NEW x \in Users, x \in Reduced PROVE staked[x] < snapshot[x]
      BY <3>2 DEF Reduced
    <3> QED BY <3>1, <3>2 DEF FallsForACause
  <2>1. lost[w] = 0 /\ Cleared(w, "EdenB") = 0
    BY <1>5 DEF BlockLedger, Cleared
  <2>2. claimed'[w]["EdenB"] + committed'[w]["EdenB"] + lost[w]
          = claimed[w]["EdenB"] + committed[w]["EdenB"] + Cleared(w, "EdenB")
    BY <1>5 DEF BlockLedger
  <2>3. /\ claimed'[w]["EdenB"] \in Nat /\ committed'[w]["EdenB"] \in Nat
        /\ claimed[w]["EdenB"] \in Nat /\ committed[w]["EdenB"] \in Nat
    BY <1>8, AmountsNat, DenomsDef DEF LedgerTypes
  <2>4. claimed'[w]["EdenB"] + committed'[w]["EdenB"] = claimed[w]["EdenB"] + committed[w]["EdenB"]
    BY <2>1, <2>2, <2>3
  <2>5. EdenBOf(w) \in Nat /\ EdenBOf(w)' = EdenBOf(w)
    BY <2>3, <2>4 DEF EdenBOf
  <2> QED BY <2>5
<1> QED BY <1>1, <1>7, <1>8, <1>10, <1>11, <1>12 DEF IInv, LedgerInv
-----------------------------------------------------------------------------
(***************************************************************************)
(* The invariant holds of every behaviour.                                 *)
(***************************************************************************)
LEMMA InitIInv == Init => IInv
<1> SUFFICES ASSUME Init PROVE IInv
  OBVIOUS
<1>1. NumUsers \in Nat /\ Users = 1 .. NumUsers
  BY CommitmentAssumption DEF Users
<1>2. VestInv
  BY InitVestInv
<1>3. /\ claimed = [u \in Users |-> NoCoins] /\ committed = [u \in Users |-> NoCoins]
      /\ totalCommitted = NoCoins /\ minted = NoCoins /\ burnt = 0 /\ vestedNow = 0
      /\ vestings = [u \in Users |-> <<>>] /\ paid = [u \in Users |-> 0]
      /\ pending = [v \in Validators |-> [u \in Users |-> NoCoins]]
      /\ startingInfo = [v \in Validators |-> {}] /\ staked = [u \in Users |-> 0]
      /\ snapshot = [u \in Users |-> 0] /\ stakeChange = {} /\ programClaimed = {}
      /\ enableVestNow = FALSE
  BY DEF Init, Zeros
<1>4. totalSupply \in [{"Eden", "EdenB", "vested"} -> Int]
  BY DEF Init
<1>5. LedgerTypes
  BY <1>3, <1>4 DEF LedgerTypes, NoCoins
<1>6. \A d \in Denoms : NoCoins[d] = 0
  BY DEF NoCoins
<1>7. TotalsCoverCommitments
  <2>1. TotalOf(committed, "Eden") = 0 /\ TotalOf(committed, "EdenB") = 0
    BY <1>3, NoGain, DenomsDef
  <2> QED BY <1>3, <1>6, <2>1, DenomsDef DEF TotalsCoverCommitments
<1>8. DelegationsCanWithdraw
  <2> SUFFICES ASSUME NEW x \in Users, NEW y \in Validators
               PROVE  x \in startingInfo[y] <=> (IF y = "Elys" THEN staked[x] > 0 ELSE committed[x][y] > 0)
    BY DEF DelegationsCanWithdraw, HasDelegation
  <2>1. y # "Elys" => committed[x][y] = 0
    BY <1>3, <1>6, DenomsDef
  <2> QED BY <1>3, <2>1
<1>9. \A w \in Users : EdenOf(w) = 0 /\ EdenBHeld(w) = 0
  <2> TAKE w \in Users
  <2>1. /\ claimed[w]["Eden"] = 0 /\ committed[w]["Eden"] = 0
        /\ claimed[w]["EdenB"] = 0 /\ committed[w]["EdenB"] = 0
    BY <1>3, <1>6, DenomsDef
  <2>2. \A v \in Validators, d \in Denoms : pending[v][w][d] = 0
    BY <1>3, <1>6
  <2>3. PendingOf(w, Validators)["Eden"] = 0 /\ PendingOf(w, Validators)["EdenB"] = 0
    BY <2>2, DenomsDef DEF PendingOf
  <2>4. SeqSum(vestings[w], LeftOf) = 0 /\ paid[w] = 0
    BY <1>3, SeqSumEmpty
  <2> QED BY <2>1, <2>3, <2>4 DEF EdenOf, EdenBHeld
<1>10. Solvent
  <2>1. PICK e, b : e = [u \in Users |-> EdenOf(u)] /\ b = [u \in Users |-> EdenBHeld(u)]
    OBVIOUS
  <2>2. /\ e \in [1 .. NumUsers -> Int] /\ b \in [1 .. NumUsers -> Int]
        /\ \A i \in 1 .. NumUsers : e[i] = 0 /\ b[i] = 0
    BY <1>1, <1>9, <2>1
  <2>3. Sum(e, NumUsers) = 0 /\ Sum(b, NumUsers) = 0
    BY <1>1, <2>2, SumZero
  <2>4. minted["Eden"] = 0 /\ minted["EdenB"] = 0
    BY <1>3, <1>6, DenomsDef
  <2> QED BY <1>3, <2>1, <2>3, <2>4 DEF Solvent
<1> QED BY <1>2, <1>5, <1>7, <1>8, <1>10 DEF IInv, LedgerInv

LEMMA UserStep ==
  ASSUME IInv, UNCHANGED scope, NEW u \in scope.users, UserNext(u)
  PROVE  IInv' /\ FallsForACause
<1>1. u \in Users /\ scope.amounts \subseteq Nat \ {0}
  BY ScopeTypes, SettingTypes DEF VestInv
<1>2. CASE WithdrawAllRewards(u) \/ \E v \in Validators : WithdrawReward(u, v)
  BY <1>1, <1>2, WithdrawStep
<1>3. CASE ClaimVesting(u)
  BY <1>1, <1>3, ClaimStep
<1>4. CASE ClaimRewardProgram(u)
  BY <1>1, <1>4, RewardProgramStep
<1>5. ASSUME NEW amount \in Nat \ {0},
             \/ \E d \in Denoms : CommitClaimedRewards(u, d, amount)
             \/ UncommitEden(u, amount) \/ UncommitEdenB(u, amount)
             \/ Delegate(u, amount) \/ Undelegate(u, amount)
             \/ Vest(u, amount) \/ CancelVest(u, amount) \/ VestNow(u, amount)
      PROVE  IInv' /\ FallsForACause
  <2>0. amount \in Nat
    OBVIOUS
  <2>1. CASE (\E d \in Denoms : CommitClaimedRewards(u, d, amount)) \/ UncommitEdenB(u, amount)
    BY <1>1, <2>0, <2>1, CommitStep
  <2>2. CASE UncommitEden(u, amount)
    BY <1>1, <2>2, UncommitEdenStep
  <2>3. CASE Delegate(u, amount) \/ Undelegate(u, amount)
    BY <1>1, <2>0, <2>3, DelegationStep
  <2>4. CASE Vest(u, amount)
    BY <1>1, <2>0, <2>4, VestingStarted
  <2>5. CASE CancelVest(u, amount)
    BY <1>1, <2>0, <2>5, VestingCancelled
  <2>6. CASE VestNow(u, amount)
    BY <1>1, <2>0, <2>6, VestNowStep
  <2> QED BY <1>5, <2>1, <2>2, <2>3, <2>4, <2>5, <2>6
<1> QED BY <1>1, <1>2, <1>3, <1>4, <1>5 DEF UserNext

LEMMA StepIInv ==
  ASSUME IInv, [Next]_vars
  PROVE  IInv' /\ FallsForACause
<1>1. ASSUME NEW u \in scope.users, UserNext(u), UNCHANGED scope PROVE IInv' /\ FallsForACause
  BY <1>1, UserStep
<1>2. CASE ((\E info \in scope.vestingInfos : UpdateVestingInfo(info)) \/ UpdateEnableVestNow) /\ UNCHANGED scope
  BY <1>2, SettingsStep
<1>3. CASE NextBlock /\ UNCHANGED scope
  BY <1>3, BlockStep
<1>4. CASE UNCHANGED vars
  BY <1>4, StutterStep
<1> QED BY <1>1, <1>2, <1>3, <1>4 DEF Next

LEMMA Invariance == Spec => []IInv
<1>1. Init => IInv
  BY InitIInv
<1>2. IInv /\ [Next]_vars => IInv'
  BY StepIInv
<1> QED BY <1>1, <1>2, PTL DEF Spec
-----------------------------------------------------------------------------
(***************************************************************************)
(* What the invariant says.                                                *)
(***************************************************************************)
LEMMA TypesFollow == IInv => TypeOK
<1> SUFFICES ASSUME IInv PROVE TypeOK
  OBVIOUS
<1>1. VestInv /\ LedgerTypes /\ height \in Nat /\ VestingTypes
  BY DEF IInv, LedgerInv, VestInv
<1>2. ASSUME NEW u \in Users, NEW i \in 1 .. Len(vestings[u])
      PROVE  /\ vestings[u][i].start \in 1 .. height /\ vestings[u][i].num > 0
             /\ vestings[u][i].claimed \in 0 .. VestedSoFar(vestings[u][i])
  <2> DEFINE v == vestings[u][i]
  <2>1. vestings[u] \in Seq(OpenAt(height))
    BY <1>1 DEF VestingTypes
  <2>2. v \in OpenAt(height)
    BY <2>1
  <2> HIDE DEF v
  <2>3. /\ v \in VestingType /\ v.start \in 1 .. height /\ v.claimed <= VestedAt(v, height)
    BY <2>2 DEF OpenAt
  <2>4. v.claimed \in Nat /\ v.num \in Nat \ {0} /\ v.start <= height
    BY <1>1, <2>3 DEF VestingType
  <2>5. VestedAt(v, height) \in Nat
    BY <1>1, <2>3, <2>4, VestedAtBound
  <2>6. v.claimed \in 0 .. VestedSoFar(v)
    BY <2>3, <2>4, <2>5, VestedSoFarIs
  <2> QED BY <2>3, <2>4, <2>6 DEF v
<1>3. vestingInfo \in scope.vestingInfos
  BY <1>1 DEF VestInv
<1> QED BY <1>1, <1>2, <1>3 DEF TypeOK, LedgerTypes, VestingTypes

LEMMA NothingFollows == IInv => NothingFromNothing
<1> SUFFICES ASSUME IInv PROVE NothingFromNothing
  OBVIOUS
<1>1. NumUsers \in Nat /\ Users = 1 .. NumUsers
  BY CommitmentAssumption DEF Users
<1>2. \A u \in Users : /\ VestingLeft(u) = SeqSum(vestings[u], LeftOf)
                       /\ VestingLeft(u) \in Nat /\ paid[u] \in Nat
  <2> TAKE u \in Users
  <2>1. height \in Nat /\ VestInv
    BY SettingTypes DEF VestInv
  <2>2. vestings[u] \in Seq(VestingType) /\ SeqSum(vestings[u], LeftOf) \in Nat /\ paid[u] \in Nat
    BY <2>1, AccountTypes
  <2> QED BY <2>2, VestingSums DEF VestingLeft
<1>3. PICK a, b, c, d, e :
        /\ a = [u \in Users |-> claimed[u]["Eden"]] /\ b = [u \in Users |-> committed[u]["Eden"]]
        /\ c = [u \in Users |-> PendingOf(u, Validators)["Eden"]]
        /\ d = [u \in Users |-> VestingLeft(u) + paid[u]] /\ e = [u \in Users |-> EdenOf(u)]
  OBVIOUS
<1>4. \A u \in Users : /\ a[u] = claimed[u]["Eden"] /\ b[u] = committed[u]["Eden"]
                       /\ c[u] = PendingOf(u, Validators)["Eden"]
                       /\ d[u] = SeqSum(vestings[u], LeftOf) + paid[u] /\ e[u] = EdenOf(u)
                       /\ a[u] \in Int /\ b[u] \in Int /\ c[u] \in Int /\ d[u] \in Int /\ e[u] \in Int
  BY <1>2, <1>3, AmountsNat, DenomsDef
<1>5. /\ a \in [1 .. NumUsers -> Int] /\ b \in [1 .. NumUsers -> Int] /\ c \in [1 .. NumUsers -> Int]
      /\ d \in [1 .. NumUsers -> Int] /\ e \in [1 .. NumUsers -> Int]
  BY <1>1, <1>3, <1>4
<1>6. \A i \in 1 .. NumUsers : e[i] = a[i] + b[i] + c[i] + d[i]
  BY <1>1, <1>4 DEF EdenOf
<1>7. Sum(e, NumUsers) = Sum(a, NumUsers) + Sum(b, NumUsers) + Sum(c, NumUsers) + Sum(d, NumUsers)
  <2>1. NumUsers \in Nat
    BY <1>1
  <2>2. PICK x, y : /\ x = [i \in 1 .. NumUsers |-> a[i] + b[i]]
                    /\ y = [i \in 1 .. NumUsers |-> a[i] + b[i] + c[i]]
    OBVIOUS
  <2>3. \A i \in 1 .. NumUsers : a[i] \in Int /\ b[i] \in Int /\ c[i] \in Int
    BY <1>5
  <2>4. x \in [1 .. NumUsers -> Int] /\ \A i \in 1 .. NumUsers : x[i] = a[i] + b[i]
    BY <2>2, <2>3
  <2>5. y \in [1 .. NumUsers -> Int] /\ \A i \in 1 .. NumUsers : y[i] = x[i] + c[i]
    BY <2>2, <2>3
  <2>6. \A i \in 1 .. NumUsers : e[i] = y[i] + d[i]
    BY <1>6, <2>2
  <2>7. Sum(x, NumUsers) = Sum(a, NumUsers) + Sum(b, NumUsers)
    BY <1>5, <2>1, <2>4, SumAdd, Zenon
  <2>8. Sum(y, NumUsers) = Sum(x, NumUsers) + Sum(c, NumUsers)
    BY <1>5, <2>1, <2>4, <2>5, SumAdd, Zenon
  <2>9. Sum(e, NumUsers) = Sum(y, NumUsers) + Sum(d, NumUsers)
    BY <1>5, <2>1, <2>5, <2>6, SumAdd, Zenon
  <2> QED BY <2>7, <2>8, <2>9, Zenon
<1>8. EdenKnown = Sum(e, NumUsers) + vestedNow
  BY <1>3, <1>7 DEF EdenKnown, TotalOf, PendingTotal
<1>9. PICK f, g, h, z, k :
        /\ f = [u \in Users |-> claimed[u]["EdenB"]] /\ g = [u \in Users |-> committed[u]["EdenB"]]
        /\ h = [u \in Users |-> PendingOf(u, Validators)["EdenB"]]
        /\ z = [u \in Users |-> 0] /\ k = [u \in Users |-> EdenBHeld(u)]
  OBVIOUS
<1>10. \A u \in Users : /\ f[u] = claimed[u]["EdenB"] /\ g[u] = committed[u]["EdenB"]
                        /\ h[u] = PendingOf(u, Validators)["EdenB"] /\ z[u] = 0 /\ k[u] = EdenBHeld(u)
                        /\ f[u] \in Int /\ g[u] \in Int /\ h[u] \in Int /\ k[u] \in Int
  BY <1>9, AmountsNat, DenomsDef
<1>11. /\ f \in [1 .. NumUsers -> Int] /\ g \in [1 .. NumUsers -> Int] /\ h \in [1 .. NumUsers -> Int]
       /\ z \in [1 .. NumUsers -> Int] /\ k \in [1 .. NumUsers -> Int]
  <2>1. z \in [1 .. NumUsers -> Int]
    BY <1>1, <1>9
  <2>2. f \in [1 .. NumUsers -> Int] /\ g \in [1 .. NumUsers -> Int]
    BY <1>1, <1>9, <1>10
  <2>3. h \in [1 .. NumUsers -> Int] /\ k \in [1 .. NumUsers -> Int]
    BY <1>1, <1>9, <1>10
  <2> QED BY <2>1, <2>2, <2>3
<1>12. \A i \in 1 .. NumUsers : k[i] = f[i] + g[i] + h[i] + z[i]
  BY <1>1, <1>10 DEF EdenBHeld
<1>13. Sum(k, NumUsers) = Sum(f, NumUsers) + Sum(g, NumUsers) + Sum(h, NumUsers) + Sum(z, NumUsers)
  <2>1. NumUsers \in Nat
    BY <1>1
  <2>2. PICK x, y : /\ x = [i \in 1 .. NumUsers |-> f[i] + g[i]]
                    /\ y = [i \in 1 .. NumUsers |-> f[i] + g[i] + h[i]]
    OBVIOUS
  <2>3. \A i \in 1 .. NumUsers : f[i] \in Int /\ g[i] \in Int /\ h[i] \in Int
    BY <1>11
  <2>4. x \in [1 .. NumUsers -> Int] /\ \A i \in 1 .. NumUsers : x[i] = f[i] + g[i]
    BY <2>2, <2>3
  <2>5. y \in [1 .. NumUsers -> Int] /\ \A i \in 1 .. NumUsers : y[i] = x[i] + h[i]
    BY <2>2, <2>3
  <2>6. \A i \in 1 .. NumUsers : k[i] = y[i] + z[i]
    BY <1>12, <2>2
  <2>7. Sum(x, NumUsers) = Sum(f, NumUsers) + Sum(g, NumUsers)
    BY <1>11, <2>1, <2>4, SumAdd, Zenon
  <2>8. Sum(y, NumUsers) = Sum(x, NumUsers) + Sum(h, NumUsers)
    BY <1>11, <2>1, <2>4, <2>5, SumAdd, Zenon
  <2>9. Sum(k, NumUsers) = Sum(y, NumUsers) + Sum(z, NumUsers)
    BY <1>11, <2>1, <2>5, <2>6, SumAdd, Zenon
  <2> QED BY <2>7, <2>8, <2>9, Zenon
<1>14. Sum(z, NumUsers) = 0 /\ Sum(f, NumUsers) \in Int /\ Sum(g, NumUsers) \in Int /\ Sum(h, NumUsers) \in Int
  BY <1>1, <1>10, <1>11, SumZero, SumInt
<1>15. Sum(k, NumUsers) = Sum(f, NumUsers) + Sum(g, NumUsers) + Sum(h, NumUsers)
  BY <1>13, <1>14
<1>16. EdenBKnown = Sum(k, NumUsers) + burnt
  BY <1>9, <1>15 DEF EdenBKnown, TotalOf, PendingTotal
<1> QED BY <1>3, <1>8, <1>9, <1>16 DEF IInv, Solvent, NothingFromNothing

LEMMA VestingFollows == IInv => VestingConserved /\ PaidWithinSchedule
<1> SUFFICES ASSUME IInv, NEW u \in Users
             PROVE  /\ GrantTotal(u) = paid[u] + cancelled[u] + VestingLeft(u)
                    /\ paid[u] <= SumOver(grants[u], VestedSoFar)
  BY DEF VestingConserved, PaidWithinSchedule
<1>1. VestInv /\ height \in Nat \ {0} /\ height >= height
  BY SettingTypes DEF VestInv
<1>2. /\ vestings[u] \in Seq(VestingType) /\ grants[u] \in Seq(GrantType)
      /\ grants[u] \in Seq(GrantedAt(height)) /\ paid[u] \in Nat /\ SeqSum(vestings[u], DueBy(height)) \in Nat
  BY <1>1, AccountTypes
<1>3. GrantTotal(u) = SeqSum(grants[u], TotalsOf)
  <2>1. \A i \in 1 .. Len(grants[u]) : grants[u][i] \in GrantType
    BY <1>2
  <2>2. \A i \in 1 .. Len(grants[u]) : grants[u][i].total = TotalsOf[grants[u][i]]
    BY <2>1 DEF TotalsOf
  <2>3. [i \in 1 .. Len(grants[u]) |-> grants[u][i].total] = [i \in 1 .. Len(grants[u]) |-> TotalsOf[grants[u][i]]]
    BY <2>2
  <2> QED BY <2>3 DEF GrantTotal, SumOver, SeqSum
<1>4. VestingLeft(u) = SeqSum(vestings[u], LeftOf)
  BY <1>2, VestingSums DEF VestingLeft
<1>5. SumOver(grants[u], VestedSoFar) = SeqSum(grants[u], PlanBy(height))
  BY <1>2, VestingSums
<1>6. SeqSum(grants[u], TotalsOf) = paid[u] + cancelled[u] + SeqSum(vestings[u], LeftOf)
  BY <1>1 DEF VestInv, Conserved
<1>7. paid[u] + SeqSum(vestings[u], DueBy(height)) <= SeqSum(grants[u], PlanBy(height))
  BY <1>1 DEF VestInv, Scheduled
<1>8. SeqSum(grants[u], PlanBy(height)) \in Nat
  BY <1>1, <1>2, PlanNat
<1> QED BY <1>2, <1>3, <1>4, <1>5, <1>6, <1>7, <1>8
-----------------------------------------------------------------------------
\* Every account's ledgers are natural numbers and every stored vesting began
\* at some block so far, over at least one block, and has paid at most what has
\* vested: no message takes from an account what it does not have
\* (msg_server_vest.go, msg_server_cancel_vest.go, msg_server_uncommit_tokens.go).
THEOREM CommitmentTypeCorrect == Spec => []TypeOK
BY Invariance, TypesFollow, PTL

\* The virtual validators' tokens are the Eden committed, and cover the EdenB
\* committed: CommitClaimedRewards and UncommitTokens move Params.TotalCommitted
\* with the account, a burn of EdenB leaves it behind.
THEOREM TotalsCoverCommitmentsHolds == Spec => []TotalsCoverCommitments
<1>1. IInv => TotalsCoverCommitments
  BY DEF IInv, LedgerInv
<1> QED BY <1>1, Invariance, PTL

\* A delegation, of Elys or of what is committed, can always be withdrawn from:
\* the hooks of estaking write and drop the distribution module's starting info
\* with it, so WithdrawAllRewards in EndBlocker does not fail.
THEOREM DelegationsCanWithdrawHolds == Spec => []DelegationsCanWithdraw
<1>1. IInv => DelegationsCanWithdraw
  BY DEF IInv, LedgerInv
<1> QED BY <1>1, Invariance, PTL

\* No sequence of messages, hooks and blocks makes Eden or EdenB that was not
\* minted, whatever a hook or a burn withdraws on the way.
THEOREM NothingFromNothingHolds == Spec => []NothingFromNothing
BY Invariance, NothingFollows, PTL

\* What went into vesting was paid, taken back by CancelVest or is still
\* vesting, however claims and cancellations follow each other.
THEOREM VestingConservedHolds == Spec => []VestingConserved
<1>1. IInv => VestingConserved
  BY VestingFollows
<1> QED BY <1>1, Invariance, PTL

\* ClaimVesting and CancelVest, which restarts what is left over the blocks
\* that are left, never pay an account ahead of the vestings it started.
THEOREM PaidWithinScheduleHolds == Spec => []PaidWithinSchedule
<1>1. IInv => PaidWithinSchedule
  BY VestingFollows
<1> QED BY <1>1, Invariance, PTL

\* An account's EdenB falls only when it uncommits Eden or ends a block with
\* less Elys delegated than at its snapshot: no step of another account, and no
\* withdrawal or commitment of its own, burns it.
THEOREM EdenBBurntOnReductionOnlyHolds == Spec => EdenBBurntOnReductionOnly
<1>1. IInv /\ [Next]_vars => [FallsForACause]_vars
  BY StepIInv
<1>2. [FallsForACause]_vars =>
        [\A u \in Users : EdenBOf(u)' < EdenBOf(u) =>
          \/ committed'[u]["Eden"] < committed[u]["Eden"]
          \/ height' > height /\ staked[u] < snapshot[u]]_vars
  BY DEF FallsForACause
<1> QED BY <1>1, <1>2, Invariance, PTL DEF Spec, EdenBBurntOnReductionOnly
=============================================================================
