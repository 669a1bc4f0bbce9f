----------------------------- MODULE AmmProofs -----------------------------
(***************************************************************************)
(* Proofs about x/amm for any pools, accounts, denoms and messages, all    *)
(* amounts and fees: the pools' records, their accounts and the liquidity  *)
(* of the denoms agree after every swap, transfer and round of a batch.    *)
(***************************************************************************)
EXTENDS Amm, ElysMathTheorems, FiniteSetTheorems

\* A state of the chain, and one in which the pools are backed.
ChainType ==
    [liquidity : [Pools -> [Denoms -> Nat]], denomLiquidity : [Denoms -> Nat],
     bank : [Accounts -> [Denoms -> Nat]]]

Backed(s) ==
    /\ \A p \in Pools : s.liquidity[p] = s.bank[PoolAddress(p)]
    /\ \A d \in Denoms : s.denomLiquidity[d] = Sum([p \in Pools |-> s.liquidity[p][d]], Len(Assets))

Good == {s \in ChainType : Backed(s)}

LEMMA PoolsDef == Pools = 1 .. Len(Assets) /\ Len(Assets) \in Nat
BY AmmAssumption DEF Pools

LEMMA AssetsType == \A p \in Pools : Assets[p] \subseteq Denoms /\ Cardinality(Assets[p]) = 2
BY AmmAssumption DEF Pools

\* A pool has another denom than any given one.
LEMMA OtherDenom ==
  ASSUME NEW p \in Pools, NEW d
  PROVE  Other(p, d) \in Denoms /\ Other(p, d) # d
<1>1. Assets[p] \subseteq Denoms /\ Cardinality(Assets[p]) = 2
  BY AssetsType
<1>2. \E e \in Assets[p] : e # d
  <2> SUFFICES ASSUME \A e \in Assets[p] : e = d PROVE FALSE
    OBVIOUS
  <2>1. Assets[p] = {} \/ Assets[p] = {d}
    OBVIOUS
  <2>2. Cardinality({}) = 0 /\ Cardinality({d}) = 1
    BY FS_EmptySet, FS_Singleton
  <2>3. Cardinality(Assets[p]) = 0 \/ Cardinality(Assets[p]) = 1
    BY <2>1, <2>2
  <2> QED BY <1>1, <2>3
<1> QED BY <1>1, <1>2 DEF Other

\* Accounts that are not a pool's: no swap takes their coins for the pool's.
Outside == Accounts \ {PoolAddress(p) : p \in Pools}

LEMMA AccountsApart ==
  /\ \A u \in Users : Owner(u) \in Outside
  /\ \A p \in Pools : Revenue(p) \in Outside /\ PoolAddress(p) \in Accounts
  /\ TakerFees \in Outside
  /\ \A a \in Outside, p \in Pools : a # PoolAddress(p) /\ a \in Accounts
  /\ \A p, q \in Pools : PoolAddress(p) = PoolAddress(q) => p = q
  /\ \A u, v \in Users : Owner(u) = Owner(v) => u = v
BY DEF Accounts, Outside, Owner, Revenue, PoolAddress, TakerFees

\* One cell of a table of amounts changes.
LEMMA CellChanged ==
  ASSUME NEW A, NEW D, NEW f \in [A -> [D -> Nat]], NEW a \in A, NEW d \in D, NEW k \in Nat,
         NEW g, g = [f EXCEPT ![a][d] = k]
  PROVE  /\ g \in [A -> [D -> Nat]] /\ g[a][d] = k
         /\ \A b \in A, e \in D : b # a \/ e # d => g[b][e] = f[b][e]
OBVIOUS

(***************************************************************************)
(* A transfer between two accounts moves the amount and nothing else.      *)
(***************************************************************************)
LEMMA SendMoves ==
  ASSUME NEW s \in ChainType, NEW from \in Accounts, NEW to \in Accounts, from # to,
         NEW d \in Denoms, NEW n \in Nat, NEW t \in Send(s, from, to, d, n)
  PROVE  /\ t \in ChainType
         /\ t.liquidity = s.liquidity /\ t.denomLiquidity = s.denomLiquidity
         /\ t.bank[from][d] = s.bank[from][d] - n
         /\ t.bank[to][d] = s.bank[to][d] + n
         /\ \A a \in Accounts, e \in Denoms :
               (a # from /\ a # to) \/ e # d => t.bank[a][e] = s.bank[a][e]
<1>1. s.bank \in [Accounts -> [Denoms -> Nat]] /\ s.bank[from][d] \in Nat /\ s.bank[to][d] \in Nat
  BY DEF ChainType
<1>2. s.bank[from][d] >= n /\ t = [s EXCEPT !.bank[from][d] = @ - n, !.bank[to][d] = @ + n]
  BY <1>1 DEF Send
<1>3. PICK f, g, k, l : /\ k = s.bank[from][d] - n /\ l = s.bank[to][d] + n
                        /\ f = [s.bank EXCEPT ![from][d] = k] /\ g = [f EXCEPT ![to][d] = l]
  OBVIOUS
<1>4. k \in Nat /\ l \in Nat
  BY <1>1, <1>2, <1>3
<1>5. /\ f \in [Accounts -> [Denoms -> Nat]] /\ f[from][d] = k
      /\ \A a \in Accounts, e \in Denoms : a # from \/ e # d => f[a][e] = s.bank[a][e]
  BY <1>1, <1>3, <1>4, CellChanged
<1>6. /\ g \in [Accounts -> [Denoms -> Nat]] /\ g[to][d] = l
      /\ \A a \in Accounts, e \in Denoms : a # to \/ e # d => g[a][e] = f[a][e]
  <2>1. f \in [Accounts -> [Denoms -> Nat]]
    BY <1>5
  <2>2. g = [f EXCEPT ![to][d] = l] /\ l \in Nat
    BY <1>3, <1>4
  <2> QED BY <2>1, <2>2, CellChanged
<1>7. f[to][d] = s.bank[to][d]
  BY <1>5
<1>8. t = [s EXCEPT !.bank = g]
  <2>1. t = [s EXCEPT !.bank = [f EXCEPT ![to][d] = @ + n]]
    BY <1>2, <1>3 DEF ChainType
  <2> QED BY <1>3, <1>7, <2>1
<1>9. t.bank = g /\ t.liquidity = s.liquidity /\ t.denomLiquidity = s.denomLiquidity
      /\ t \in ChainType
  BY <1>6, <1>8 DEF ChainType
<1>10. t.bank[from][d] = s.bank[from][d] - n /\ t.bank[to][d] = s.bank[to][d] + n
  <2>1. g[from][d] = f[from][d] /\ g[to][d] = l
    BY <1>6
  <2> QED BY <1>3, <1>5, <1>9, <2>1
<1>11. \A a \in Accounts, e \in Denoms :
          (a # from /\ a # to) \/ e # d => t.bank[a][e] = s.bank[a][e]
  BY <1>5, <1>6, <1>9
<1> QED BY <1>9, <1>10, <1>11

\* What the record of a pool and of a denom is changed to.
Recorded(s, p, d, k, l) == [s EXCEPT !.liquidity[p][d] = k, !.denomLiquidity[d] = l]

RecordMoved(s, r, p, d, k, l) ==
    /\ r \in ChainType /\ r.bank = s.bank
    /\ r.liquidity[p][d] = k /\ r.denomLiquidity[d] = l
    /\ \A q \in Pools, e \in Denoms : q # p \/ e # d => r.liquidity[q][e] = s.liquidity[q][e]
    /\ \A e \in Denoms : e # d => r.denomLiquidity[e] = s.denomLiquidity[e]

LEMMA RecordChanged ==
  ASSUME NEW s \in ChainType, NEW p \in Pools, NEW d \in Denoms, NEW k \in Nat, NEW l \in Nat
  PROVE  RecordMoved(s, Recorded(s, p, d, k, l), p, d, k, l)
<1>0. PICK r : r = Recorded(s, p, d, k, l)
  OBVIOUS
<1>1. /\ s.liquidity \in [Pools -> [Denoms -> Nat]] /\ s.denomLiquidity \in [Denoms -> Nat]
      /\ s.bank \in [Accounts -> [Denoms -> Nat]]
  BY DEF ChainType
<1>2. PICK f, g : f = [s.liquidity EXCEPT ![p][d] = k] /\ g = [s.denomLiquidity EXCEPT ![d] = l]
  OBVIOUS
<1>3. /\ f \in [Pools -> [Denoms -> Nat]] /\ f[p][d] = k
      /\ \A q \in Pools, e \in Denoms : q # p \/ e # d => f[q][e] = s.liquidity[q][e]
  BY <1>1, <1>2, CellChanged
<1>4. g \in [Denoms -> Nat] /\ g[d] = l /\ \A e \in Denoms : e # d => g[e] = s.denomLiquidity[e]
  BY <1>1, <1>2
<1>5. r = [s EXCEPT !.liquidity = f, !.denomLiquidity = g]
  BY <1>0, <1>2 DEF ChainType, Recorded
<1>6. r.liquidity = f /\ r.denomLiquidity = g /\ r.bank = s.bank /\ r \in ChainType
  BY <1>1, <1>3, <1>4, <1>5 DEF ChainType
<1> QED BY <1>0, <1>3, <1>4, <1>6 DEF RecordMoved

\* The coins of denom d, pool by pool.
InPools(s, d) == [p \in Pools |-> s.liquidity[p][d]]

(***************************************************************************)
(* A change of a pool's record, of its account and of the denom's          *)
(* liquidity by the same amount keeps the pools backed.                    *)
(***************************************************************************)
LEMMA BackedStep ==
  ASSUME NEW s \in Good, NEW r \in ChainType, NEW p \in Pools, NEW d \in Denoms, NEW k \in Int,
         r.liquidity[p][d] = s.liquidity[p][d] + k,
         r.bank[PoolAddress(p)][d] = s.bank[PoolAddress(p)][d] + k,
         r.denomLiquidity[d] = s.denomLiquidity[d] + k,
         \A q \in Pools, e \in Denoms : q # p \/ e # d =>
            /\ r.liquidity[q][e] = s.liquidity[q][e]
            /\ r.bank[PoolAddress(q)][e] = s.bank[PoolAddress(q)][e],
         \A e \in Denoms : e # d => r.denomLiquidity[e] = s.denomLiquidity[e]
  PROVE  r \in Good
<1>1. /\ s.liquidity \in [Pools -> [Denoms -> Nat]] /\ r.liquidity \in [Pools -> [Denoms -> Nat]]
      /\ s.bank \in [Accounts -> [Denoms -> Nat]] /\ r.bank \in [Accounts -> [Denoms -> Nat]]
      /\ s.denomLiquidity \in [Denoms -> Nat]
  BY DEF ChainType, Good
<1>2. ASSUME NEW q \in Pools PROVE r.liquidity[q] = r.bank[PoolAddress(q)]
  <2>1. s.liquidity[q] = s.bank[PoolAddress(q)]
    BY DEF Good, Backed
  <2>2. PoolAddress(q) \in Accounts
    BY AccountsApart
  <2>3. ASSUME NEW e \in Denoms PROVE r.liquidity[q][e] = r.bank[PoolAddress(q)][e]
    <3>1. CASE q = p /\ e = d
      BY <2>1, <3>1
    <3>2. CASE q # p \/ e # d
      BY <2>1, <3>2
    <3> QED BY <3>1, <3>2
  <2>4. r.liquidity[q] \in [Denoms -> Nat] /\ r.bank[PoolAddress(q)] \in [Denoms -> Nat]
    BY <1>1, <2>2
  <2> QED BY <2>3, <2>4
<1>3. ASSUME NEW e \in Denoms PROVE r.denomLiquidity[e] = Sum(InPools(r, e), Len(Assets))
  <2>1. s.denomLiquidity[e] = Sum(InPools(s, e), Len(Assets))
    BY DEF Good, Backed, InPools
  <2>2. PICK f, g : f = InPools(s, e) /\ g = InPools(r, e)
    OBVIOUS
  <2>3. f \in [1 .. Len(Assets) -> Int] /\ g \in [1 .. Len(Assets) -> Int]
    <3>1. \A q \in Pools : s.liquidity[q][e] \in Int /\ r.liquidity[q][e] \in Int
      BY <1>1
    <3>2. f \in [Pools -> Int] /\ g \in [Pools -> Int]
      BY <2>2, <3>1 DEF InPools
    <3> QED BY <3>2, PoolsDef
  <2>4. \A i \in Pools : f[i] = s.liquidity[i][e] /\ g[i] = r.liquidity[i][e]
    BY <2>2 DEF InPools
  <2>5. p \in 1 .. Len(Assets) /\ Len(Assets) \in Nat
    BY PoolsDef
  <2>6. \A i \in 1 .. Len(Assets) : i # p => g[i] = f[i]
    BY <2>4, PoolsDef
  <2>7. Sum(g, Len(Assets)) = Sum(f, Len(Assets)) + g[p] - f[p]
    BY <2>3, <2>5, <2>6, SumUpdate
  <2>8. CASE e = d
    <3>1. PICK x, y, z : /\ x = s.liquidity[p][d] /\ y = Sum(f, Len(Assets))
                         /\ z = Sum(g, Len(Assets))
      OBVIOUS
    <3>2. x \in Int /\ y \in Int
      <4>1. x \in Int
        BY <1>1, <3>1
      <4>2. Sum(f, Len(Assets)) \in Int
        BY <2>3, <2>5, SumInt
      <4> QED BY <3>1, <4>1, <4>2
    <3>3. z = y + (x + k) - x
      BY <2>4, <2>7, <2>8, <3>1
    <3>4. r.denomLiquidity[e] = y + k
      BY <2>1, <2>2, <2>8, <3>1
    <3>5. z = y + k
      BY <3>2, <3>3
    <3> QED BY <2>2, <3>1, <3>4, <3>5
  <2>9. CASE e # d
    <3>1. g[p] = f[p] /\ f[p] \in Int
      BY <2>3, <2>4, <2>5, <2>9
    <3>2. Sum(f, Len(Assets)) \in Int
      BY <2>3, <2>5, SumInt
    <3>3. Sum(g, Len(Assets)) = Sum(f, Len(Assets))
      BY <2>7, <3>1, <3>2
    <3> QED BY <2>1, <2>2, <2>9, <3>3
  <2> QED BY <2>8, <2>9
<1> QED BY <1>2, <1>3 DEF Good, Backed, InPools

(***************************************************************************)
(* Coins that come into a pool (AddToPoolBalanceAndUpdateLiquidity) and    *)
(* coins that leave it (RemoveFromPoolBalanceAndUpdateLiquidity).          *)
(***************************************************************************)
LEMMA PoolReceives ==
  ASSUME NEW s \in Good, NEW p \in Pools, NEW from \in Outside, NEW d \in Denoms, NEW n \in Nat,
         NEW t \in Send(s, from, PoolAddress(p), d, n)
  PROVE  AddToPoolBalance(t, p, d, n) \in Good
<1>1. /\ from \in Accounts /\ PoolAddress(p) \in Accounts /\ from # PoolAddress(p)
      /\ s \in ChainType
  BY AccountsApart DEF Good
<1>2. /\ t \in ChainType
      /\ t.liquidity = s.liquidity /\ t.denomLiquidity = s.denomLiquidity
      /\ t.bank[PoolAddress(p)][d] = s.bank[PoolAddress(p)][d] + n
      /\ \A a \in Accounts, e \in Denoms :
            (a # from /\ a # PoolAddress(p)) \/ e # d => t.bank[a][e] = s.bank[a][e]
  BY <1>1, SendMoves
<1>3. t.liquidity[p][d] \in Nat /\ t.denomLiquidity[d] \in Nat
  BY <1>2 DEF ChainType
<1>4. PICK k, l, r : /\ k = t.liquidity[p][d] + n /\ l = t.denomLiquidity[d] + n
                     /\ r = Recorded(t, p, d, k, l)
  OBVIOUS
<1>5. k \in Nat /\ l \in Nat
  BY <1>3, <1>4
<1>6. AddToPoolBalance(t, p, d, n) = r
  BY <1>2, <1>4 DEF AddToPoolBalance, ChainType, Recorded
<1>7. /\ r \in ChainType /\ r.bank = t.bank
      /\ r.liquidity[p][d] = k /\ r.denomLiquidity[d] = l
      /\ \A q \in Pools, e \in Denoms : q # p \/ e # d => r.liquidity[q][e] = t.liquidity[q][e]
      /\ \A e \in Denoms : e # d => r.denomLiquidity[e] = t.denomLiquidity[e]
  <2>1. t \in ChainType /\ k \in Nat /\ l \in Nat
    BY <1>2, <1>5
  <2>2. RecordMoved(t, r, p, d, k, l)
    BY <1>4, <2>1, RecordChanged
  <2> QED BY <2>2 DEF RecordMoved
<1>8. /\ r.liquidity[p][d] = s.liquidity[p][d] + n
      /\ r.bank[PoolAddress(p)][d] = s.bank[PoolAddress(p)][d] + n
      /\ r.denomLiquidity[d] = s.denomLiquidity[d] + n
      /\ \A e \in Denoms : e # d => r.denomLiquidity[e] = s.denomLiquidity[e]
  BY <1>2, <1>4, <1>7
<1>9. \A q \in Pools, e \in Denoms : q # p \/ e # d =>
         /\ r.liquidity[q][e] = s.liquidity[q][e]
         /\ r.bank[PoolAddress(q)][e] = s.bank[PoolAddress(q)][e]
  <2> TAKE q \in Pools, e \in Denoms
  <2> HAVE q # p \/ e # d
  <2>1. PoolAddress(q) \in Accounts /\ PoolAddress(q) # from /\ (q # p => PoolAddress(q) # PoolAddress(p))
    BY AccountsApart
  <2> QED BY <1>2, <1>7, <2>1
<1>10. n \in Int
  OBVIOUS
<1>11. r \in Good
  BY <1>7, <1>8, <1>9, <1>10, BackedStep
<1> QED BY <1>6, <1>11

LEMMA PoolPays ==
  ASSUME NEW s \in Good, NEW p \in Pools, NEW to \in Outside, NEW d \in Denoms, NEW n \in Nat,
         NEW t \in Send(s, PoolAddress(p), to, d, n), NEW r \in RemoveFromPoolBalance(t, p, d, n)
  PROVE  r \in Good
<1>1. /\ to \in Accounts /\ PoolAddress(p) \in Accounts /\ PoolAddress(p) # to
      /\ s \in ChainType
  BY AccountsApart DEF Good
<1>2. /\ t \in ChainType
      /\ t.liquidity = s.liquidity /\ t.denomLiquidity = s.denomLiquidity
      /\ t.bank[PoolAddress(p)][d] = s.bank[PoolAddress(p)][d] - n
      /\ \A a \in Accounts, e \in Denoms :
            (a # PoolAddress(p) /\ a # to) \/ e # d => t.bank[a][e] = s.bank[a][e]
  BY <1>1, SendMoves
<1>3. t.liquidity[p][d] \in Nat /\ t.denomLiquidity[d] \in Nat
  BY <1>2 DEF ChainType
<1>4. PICK k, l : k = t.liquidity[p][d] - n /\ l = t.denomLiquidity[d] - n
  OBVIOUS
<1>5. ~ (t.liquidity[p][d] < n) /\ ~ (t.denomLiquidity[d] < n)
  BY DEF RemoveFromPoolBalance
<1>6. k \in Nat /\ l \in Nat
  BY <1>3, <1>4, <1>5
<1>7. r = Recorded(t, p, d, k, l)
  BY <1>2, <1>4, <1>5 DEF RemoveFromPoolBalance, ChainType, Recorded
<1>8. /\ r \in ChainType /\ r.bank = t.bank
      /\ r.liquidity[p][d] = k /\ r.denomLiquidity[d] = l
      /\ \A q \in Pools, e \in Denoms : q # p \/ e # d => r.liquidity[q][e] = t.liquidity[q][e]
      /\ \A e \in Denoms : e # d => r.denomLiquidity[e] = t.denomLiquidity[e]
  <2>1. t \in ChainType /\ k \in Nat /\ l \in Nat
    BY <1>2, <1>6
  <2>2. RecordMoved(t, r, p, d, k, l)
    BY <1>7, <2>1, RecordChanged
  <2> QED BY <2>2 DEF RecordMoved
<1>9. PICK m : m = - n /\ m \in Int
  OBVIOUS
<1>10. /\ r.liquidity[p][d] = s.liquidity[p][d] + m
       /\ r.bank[PoolAddress(p)][d] = s.bank[PoolAddress(p)][d] + m
       /\ r.denomLiquidity[d] = s.denomLiquidity[d] + m
       /\ \A e \in Denoms : e # d => r.denomLiquidity[e] = s.denomLiquidity[e]
  <2>1. s.bank[PoolAddress(p)][d] \in Nat
    BY <1>1 DEF ChainType
  <2> QED BY <1>2, <1>3, <1>4, <1>8, <1>9, <2>1
<1>11. \A q \in Pools, e \in Denoms : q # p \/ e # d =>
         /\ r.liquidity[q][e] = s.liquidity[q][e]
         /\ r.bank[PoolAddress(q)][e] = s.bank[PoolAddress(q)][e]
  <2> TAKE q \in Pools, e \in Denoms
  <2> HAVE q # p \/ e # d
  <2>1. PoolAddress(q) \in Accounts /\ PoolAddress(q) # to /\ (q # p => PoolAddress(q) # PoolAddress(p))
    BY AccountsApart
  <2> QED BY <1>2, <1>8, <2>1
<1> QED BY <1>8, <1>9, <1>10, <1>11, BackedStep

\* Transfers of which no pool is a party.
LEMMA OutsidersSend ==
  ASSUME NEW s \in Good, NEW from \in Outside, NEW to \in Outside, from # to, NEW d \in Denoms,
         NEW n \in Nat, NEW t \in Send(s, from, to, d, n)
  PROVE  t \in Good
<1>1. from \in Accounts /\ to \in Accounts /\ s \in ChainType
  BY AccountsApart, PoolsDef DEF Good, Outside
<1>2. /\ t \in ChainType /\ t.liquidity = s.liquidity /\ t.denomLiquidity = s.denomLiquidity
      /\ \A a \in Accounts, e \in Denoms : a # from /\ a # to => t.bank[a][e] = s.bank[a][e]
  BY <1>1, SendMoves
<1>3. ASSUME NEW p \in Pools PROVE t.liquidity[p] = t.bank[PoolAddress(p)]
  <2>1. PoolAddress(p) \in Accounts /\ PoolAddress(p) # from /\ PoolAddress(p) # to
    BY AccountsApart
  <2>2. s.bank[PoolAddress(p)] \in [Denoms -> Nat] /\ t.bank[PoolAddress(p)] \in [Denoms -> Nat]
    BY <1>1, <1>2, <2>1 DEF ChainType
  <2>3. t.bank[PoolAddress(p)] = s.bank[PoolAddress(p)]
    BY <1>2, <2>1, <2>2
  <2> QED BY <1>2, <2>3 DEF Good, Backed
<1> QED BY <1>2, <1>3 DEF Good, Backed

-----------------------------------------------------------------------------
(***************************************************************************)
(* Amounts of coins are naturals: no quotient of the curve or the fees     *)
(* divides by zero.                                                        *)
(***************************************************************************)
LEMMA OutAmounts ==
  ASSUME NEW s \in ChainType, NEW p \in Pools, NEW d \in Denoms, NEW amount \in Nat \ {0},
         NEW part \in Nat \ {0}, NEW whole \in Nat,
         NEW out \in CalcOutAmtGivenIn(s, p, d, amount, part, whole)
  PROVE  out \in Nat \ {0}
<1>1. PICK a, b : a = s.liquidity[p][Other(p, d)] /\ b = s.liquidity[p][d]
  OBVIOUS
<1>2. a \in Nat /\ b \in Nat
  BY <1>1, OtherDenom DEF ChainType
<1>3. amount * part \in Nat \ {0}
  OBVIOUS
<1>4. b * whole + amount * part \in Nat \ {0}
  <2>1. b * whole \in Nat
    BY <1>2, ProductNat
  <2> QED BY <1>3, <2>1
<1>5. a * amount * part \in Nat
  <2>1. a * amount \in Nat
    BY <1>2, ProductNat
  <2> QED BY <2>1, ProductNat
<1>6. out = TruncateInt(a * amount * part, b * whole + amount * part) /\ out > 0
  BY <1>1 DEF CalcOutAmtGivenIn
<1>7. TruncateInt(a * amount * part, b * whole + amount * part) \in Nat
  BY <1>4, <1>5, TruncateNat
<1> QED BY <1>6, <1>7

LEMMA InAmounts ==
  ASSUME NEW s \in ChainType, NEW p \in Pools, NEW d \in Denoms, NEW amount \in Nat,
         NEW part \in Nat \ {0}, NEW whole \in Nat,
         NEW in \in CalcInAmtGivenOut(s, p, d, amount, part, whole)
  PROVE  in \in Nat
<1>1. PICK b : b = s.liquidity[p][d]
  OBVIOUS
<1>2. b \in Nat
  BY <1>1 DEF ChainType
<1>3. PICK left \in Nat \ {0} : in = CeilInt(b * amount * whole, left * part)
  BY <1>1 DEF CalcInAmtGivenOut
<1>4. left * part \in Nat \ {0}
  OBVIOUS
<1>5. b * amount * whole \in Nat
  <2>1. b * amount \in Nat
    BY <1>2, ProductNat
  <2> QED BY <2>1, ProductNat
<1> QED BY <1>3, <1>4, <1>5, CeilBound

LEMMA FeeAmounts ==
  ASSUME NEW amount \in Nat, NEW portion \in Nat, NEW whole \in Nat \ {0}
  PROVE  PortionCoins(amount, portion, whole) \in Nat
<1>1. amount * portion \in Nat
  BY ProductNat
<1>2. (amount * portion) \div whole \in Nat
  BY <1>1, TruncateNat DEF TruncateInt
<1> QED BY <1>2 DEF PortionCoins

\* The fees, with any discount, at which swaps are executed or estimated.
Fees == 0 .. FullFee

LEMMA FeesOfAll ==
  /\ FullFee \in Fees
  /\ \A u \in Users : ApplyDiscount(u) \in Fees
<1>1. One \in Nat /\ SwapFee \in Nat
  BY AmmAssumption
<1>2. SwapFee * One \in Nat
  BY <1>1, ProductNat
<1>3. ASSUME NEW u \in Users PROVE ApplyDiscount(u) \in Fees
  <2> DEFINE x == One - Discount[u]
  <2>1. Discount[u] \in 0 .. One
    BY AmmAssumption
  <2>2. x \in Nat /\ x <= One
    BY <1>1, <2>1
  <2>3. ApplyDiscount(u) = SwapFee * x
    BY DEF ApplyDiscount
  <2> HIDE DEF x
  <2>4. SwapFee * x \in Nat /\ SwapFee * x <= SwapFee * One
    BY <1>1, <2>2, ProductNat, ProductMonotone
  <2> QED BY <1>2, <2>3, <2>4 DEF Fees, FullFee
<1> QED BY <1>2, <1>3 DEF Fees, FullFee

LEMMA Portions ==
  ASSUME NEW fee \in Fees, NEW hops \in Nat \ {0}
  PROVE  /\ CurvePart(fee, hops) \in Nat \ {0} /\ Whole(hops) \in Nat \ {0}
         /\ One * hops \in Nat \ {0} /\ fee \in Nat /\ TakerFee \in Nat
<1>1. One \in Nat \ {0} /\ SwapFee \in Nat /\ TakerFee \in Nat /\ SwapFee + 1 <= One
  BY AmmAssumption
<1>2. One * hops \in Nat /\ One * 1 <= One * hops
  BY <1>1, ProductNat, ProductMonotone
<1>3. fee \in Nat /\ fee <= SwapFee * One
  BY <1>1 DEF Fees, FullFee
<1>4. One * One \in Nat /\ One * (SwapFee + 1) <= One * One
  BY <1>1, ProductNat, ProductMonotone
<1>5. One * (SwapFee + 1) = SwapFee * One + One /\ SwapFee * One \in Nat
  BY <1>1, ProductNat
<1>6. fee < One * One
  BY <1>1, <1>3, <1>4, <1>5
<1> DEFINE o == One * One
<1>7. o \in Nat /\ fee < o /\ Whole(hops) = o * hops
  BY <1>4, <1>6 DEF Whole
<1> HIDE DEF o
<1>8. o * hops \in Nat /\ o * 1 <= o * hops
  BY <1>7, ProductNat, ProductMonotone
<1>9. Whole(hops) \in Nat /\ fee < Whole(hops)
  BY <1>3, <1>7, <1>8
<1> QED BY <1>1, <1>2, <1>3, <1>9 DEF CurvePart

-----------------------------------------------------------------------------
(***************************************************************************)
(* A trade, its fees and the trade of the swap fee in the same pool.       *)
(***************************************************************************)
LEMMA ExchangeBacked ==
  ASSUME NEW s \in Good, NEW p \in Pools, NEW from \in Outside, NEW to \in Outside,
         NEW d \in Denoms, NEW in \in Nat, NEW out \in Nat,
         NEW r \in Exchange(s, p, from, to, d, in, out)
  PROVE  r \in Good
<1>0. PICK a \in Send(s, from, PoolAddress(p), d, in) :
         \E b \in Send(AddToPoolBalance(a, p, d, in), PoolAddress(p), to, Other(p, d), out) :
            r \in RemoveFromPoolBalance(b, p, Other(p, d), out)
  BY DEF Exchange
<1>1. PICK b \in Send(AddToPoolBalance(a, p, d, in), PoolAddress(p), to, Other(p, d), out) :
         r \in RemoveFromPoolBalance(b, p, Other(p, d), out)
  BY <1>0
<1>2. AddToPoolBalance(a, p, d, in) \in Good
  BY PoolReceives
<1>3. Other(p, d) \in Denoms
  BY OtherDenom
<1> QED BY <1>1, <1>2, <1>3, PoolPays

LEMMA TakeFeeBacked ==
  ASSUME NEW s \in Good, NEW p \in Pools, NEW d \in Denoms, NEW fee \in Nat, NEW to \in Outside,
         NEW r \in TakeFee(s, p, d, fee, to)
  PROVE  r \in Good
<1>1. CASE fee = 0
  BY <1>1 DEF TakeFee
<1>2. CASE fee # 0
  <2>1. PICK t \in Send(s, PoolAddress(p), to, d, fee) : r \in RemoveFromPoolBalance(t, p, d, fee)
    BY <1>2 DEF TakeFee
  <2> QED BY <2>1, PoolPays
<1> QED BY <1>1, <1>2

LEMMA CollectedBacked ==
  ASSUME NEW s \in Good, NEW p \in Pools, NEW d \in Denoms, NEW fee \in Nat,
         NEW r \in OnCollectFee(s, p, d, fee)
  PROVE  r \in Good
<1>1. CASE r = s
  BY <1>1
<1>2. CASE fee # 0 /\ r \in SwapFeesToRevenueToken(s, p, d, fee)
  <2>1. PICK out \in CalcOutAmtGivenIn(s, p, d, fee, 1, 1) :
          r \in Exchange(s, p, Revenue(p), Revenue(p), d, fee, out)
    BY <1>2 DEF SwapFeesToRevenueToken
  <2>2. s \in ChainType /\ fee \in Nat \ {0} /\ 1 \in Nat \ {0} /\ 1 \in Nat
    BY <1>2 DEF Good
  <2>3. out \in Nat
    BY <2>2, OutAmounts
  <2> QED BY <2>1, <2>3, AccountsApart, ExchangeBacked
<1> QED BY <1>1, <1>2 DEF OnCollectFee

LEMMA SwapBacked ==
  ASSUME NEW s \in Good, NEW p \in Pools, NEW from \in Outside, NEW to \in Outside,
         NEW d \in Denoms, NEW in \in Nat, NEW out \in Nat, NEW fee \in Fees,
         NEW hops \in Nat \ {0},
         NEW r \in UpdatePoolForSwap(s, p, from, to, d, in, out, fee, hops)
  PROVE  r \in Good
<1>1. PICK taker, coins : /\ taker = PortionCoins(in, TakerFee, One * hops)
                          /\ coins = PortionCoins(in, fee, Whole(hops))
  OBVIOUS
<1>2. taker \in Nat /\ coins \in Nat
  <2>1. One * hops \in Nat \ {0} /\ Whole(hops) \in Nat \ {0} /\ TakerFee \in Nat /\ fee \in Nat
    BY Portions
  <2> QED BY <1>1, <2>1, FeeAmounts
<1>3. PICK c \in UNION {TakeFee(b, p, d, coins, Revenue(p)) :
                          b \in UNION {TakeFee(a, p, d, taker, TakerFees) :
                                         a \in Exchange(s, p, from, to, d, in, out)}} :
         r \in OnCollectFee(c, p, d, coins)
  BY <1>1 DEF UpdatePoolForSwap
<1>4. PICK b \in UNION {TakeFee(a, p, d, taker, TakerFees) :
                          a \in Exchange(s, p, from, to, d, in, out)} :
         c \in TakeFee(b, p, d, coins, Revenue(p))
  BY <1>3
<1>5. PICK a \in Exchange(s, p, from, to, d, in, out) : b \in TakeFee(a, p, d, taker, TakerFees)
  BY <1>4
<1>6. a \in Good
  BY ExchangeBacked
<1>7. b \in Good
  BY <1>2, <1>5, <1>6, AccountsApart, TakeFeeBacked
<1>8. c \in Good
  BY <1>2, <1>4, <1>7, AccountsApart, TakeFeeBacked
<1> QED BY <1>2, <1>3, <1>8, CollectedBacked

-----------------------------------------------------------------------------
(***************************************************************************)
(* Hops and routes.                                                        *)
(***************************************************************************)
\* What the hops of an exact amount in leave and pay out.
Outcomes == [chain : Good, denom : Denoms, amount : Nat \ {0}]

LEMMA MessageType ==
  ASSUME NEW m \in Messages
  PROVE  /\ Owner(m.sender) \in Outside /\ Owner(m.recipient) \in Outside
         /\ m.sender \in Users /\ m.recipient \in Users
         /\ m.denom \in Denoms /\ m.amount \in Nat \ {0} /\ m.limit \in Nat
         /\ Len(m.hops) \in Nat \ {0}
         /\ \A i \in 1 .. Len(m.hops) : m.hops[i].pool \in Pools /\ m.hops[i].denom \in Denoms
<1>1. /\ m.sender \in Users /\ m.recipient \in Users
      /\ m.denom \in Denoms /\ m.amount \in Nat \ {0} /\ m.limit \in Nat
      /\ m.hops \in Seq(HopType) /\ m.hops # <<>>
  BY AmmAssumption
<1>2. PICK h \in Seq(HopType) : h = m.hops /\ h # <<>>
  BY <1>1
<1>3. Len(h) \in Nat \ {0} /\ \A i \in 1 .. Len(h) : h[i] \in HopType
  BY <1>2
<1>4. \A x \in HopType : x.pool \in Pools /\ x.denom \in Denoms
  BY DEF HopType
<1> QED BY <1>1, <1>2, <1>3, <1>4, AccountsApart

LEMMA HopIn ==
  ASSUME NEW s \in Good, NEW p \in Pools, NEW from \in Outside, NEW to \in Outside,
         NEW d \in Denoms, NEW in \in Nat \ {0}, NEW e \in Denoms, NEW min \in Nat,
         NEW fee \in Fees, NEW hops \in Nat \ {0},
         NEW o \in InternalSwapExactAmountIn(s, p, from, to, d, in, e, min, fee, hops)
  PROVE  o \in Outcomes
<1>1. PICK out \in {x \in CalcOutAmtGivenIn(s, p, d, in, CurvePart(fee, hops), Whole(hops)) :
                      Enough(x, min)} :
        o \in {[chain |-> t, denom |-> e, amount |-> out] :
                 t \in UpdatePoolForSwap(s, p, from, to, d, in, out, fee, hops)}
  BY DEF InternalSwapExactAmountIn
<1>2. PICK t \in UpdatePoolForSwap(s, p, from, to, d, in, out, fee, hops) :
        o = [chain |-> t, denom |-> e, amount |-> out]
  BY <1>1
<1>3. s \in ChainType /\ CurvePart(fee, hops) \in Nat \ {0} /\ Whole(hops) \in Nat
  BY Portions DEF Good
<1>4. out \in CalcOutAmtGivenIn(s, p, d, in, CurvePart(fee, hops), Whole(hops))
  BY <1>1
<1>5. out \in Nat \ {0}
  BY <1>3, <1>4, OutAmounts
<1>6. t \in Good
  <2>1. in \in Nat /\ out \in Nat
    BY <1>5
  <2> QED BY <1>2, <2>1, SwapBacked
<1> QED BY <1>2, <1>5, <1>6 DEF Outcomes

LEMMA HopOut ==
  ASSUME NEW s \in Good, NEW p \in Pools, NEW from \in Outside, NEW to \in Outside,
         NEW d \in Denoms, NEW max, NEW out \in Nat, NEW fee \in Fees, NEW hops \in Nat \ {0},
         NEW r \in InternalSwapExactAmountOut(s, p, from, to, d, max, out, fee, hops)
  PROVE  r \in Good
<1>1. PICK in \in CalcInAmtGivenOut(s, p, d, out, CurvePart(fee, hops), Whole(hops)) :
        r \in UpdatePoolForSwap(s, p, from, to, d, in, out, fee, hops)
  BY DEF InternalSwapExactAmountOut
<1>2. s \in ChainType /\ CurvePart(fee, hops) \in Nat \ {0} /\ Whole(hops) \in Nat
  BY Portions DEF Good
<1>3. in \in Nat
  BY <1>1, <1>2, InAmounts
<1> QED BY <1>1, <1>3, SwapBacked

(***************************************************************************)
(* The hops of an exact amount in, one after the other.  That HopsIn is    *)
(* what its recursion says follows from there being a solution of it.      *)
(***************************************************************************)
LEMMA NextInOutcome ==
  ASSUME NEW m \in Messages, NEW recipient \in Users, NEW i \in 1 .. Len(m.hops),
         NEW o \in Outcomes
  PROVE  NextHopIn(m, recipient, i, o) \subseteq Outcomes
<1>1. PICK n, p, from, e : /\ n = Len(m.hops) /\ p = m.hops[i].pool
                           /\ from = Owner(m.sender) /\ e = m.hops[i].denom
  OBVIOUS
<1>2. n \in Nat \ {0} /\ p \in Pools /\ from \in Outside /\ e \in Denoms /\ m.limit \in Nat
  BY <1>1, MessageType
<1>3. PICK to : to = IF i = n THEN Owner(recipient) ELSE from
  OBVIOUS
<1>4. PICK min : min = IF i = n THEN m.limit ELSE 1
  OBVIOUS
<1>5. to \in Outside /\ min \in Nat
  BY <1>2, <1>3, <1>4, AccountsApart
<1> DEFINE fee == ApplyDiscount(m.sender)
<1>6. fee \in Fees
  BY MessageType, FeesOfAll
<1>7. o.chain \in Good /\ o.denom \in Denoms /\ o.amount \in Nat \ {0}
  BY DEF Outcomes
<1>8. NextHopIn(m, recipient, i, o)
        = InternalSwapExactAmountIn(o.chain, p, from, to, o.denom, o.amount, e, min, fee, n)
  BY <1>1, <1>3, <1>4 DEF NextHopIn
<1> HIDE DEF fee
<1> QED BY <1>2, <1>5, <1>6, <1>7, <1>8, HopIn

LEMMA HopsInType ==
  ASSUME NEW s \in Good, NEW m \in Messages, NEW recipient \in Users
  PROVE  \A i \in 0 .. Len(m.hops) : HopsIn(s, m, recipient)[i] \subseteq Outcomes
<1>1. PICK n \in Nat \ {0} : n = Len(m.hops)
  BY MessageType
<1> DEFINE T == SUBSET Outcomes
           base == {[chain |-> s, denom |-> m.denom, amount |-> m.amount]}
           Step(i, x) == UNION {NextHopIn(m, recipient, i, o) : o \in x}
           step == [i \in 1 .. n |-> [x \in T |-> Step(i, x)]]
<1>2. base \in T
  BY MessageType DEF Outcomes
<1>3. \A i \in 1 .. n, x \in T : Step(i, x) \in T
  BY <1>1, NextInOutcome
<1>4. step \in [1 .. n -> [T -> T]]
  BY <1>3
<1>5. PICK f : Iterates(f, T, base, step, n)
  <2> HIDE DEF T, base, step
  <2> QED BY <1>2, <1>4, Recursion
<1>6. f = [i \in 0 .. n |-> IF i = 0 THEN base ELSE Step(i, f[i-1])]
  <2>1. f \in [0 .. n -> T] /\ f[0] = base
    BY <1>5 DEF Iterates
  <2>2. ASSUME NEW i \in 1 .. n PROVE f[i] = Step(i, f[i-1])
    <3>1. f[i] = step[i][f[i-1]]
      BY <1>5 DEF Iterates
    <3>2. f[i-1] \in T
      BY <2>1
    <3> QED BY <3>1, <3>2
  <2> HIDE DEF T, base, Step
  <2>3. \A i \in 0 .. n : i # 0 => i \in 1 .. n
    OBVIOUS
  <2> QED BY <2>1, <2>2, <2>3
<1> DEFINE H == HopsIn(s, m, recipient)
<1>7. H = [i \in 0 .. n |-> IF i = 0 THEN base ELSE Step(i, H[i-1])]
  BY <1>1, <1>6, Zenon DEF HopsIn
<1> HIDE DEF H
<1>8. H[0] \in T
  BY <1>2, <1>7
<1>9. \A i \in 1 .. n : H[i-1] \in T => H[i] \in T
  <2>1. \A i \in 1 .. n : H[i] = Step(i, H[i-1])
    <3> HIDE DEF Step, base
    <3> QED BY <1>7
  <2> QED BY <1>3, <2>1
<1>10. \A i \in 0 .. n : H[i] \in T
  <2> HIDE DEF T
  <2> QED BY <1>8, <1>9, StepInduction
<1> QED BY <1>1, <1>10 DEF H

LEMMA RouteInBacked ==
  ASSUME NEW s \in Good, NEW m \in Messages, NEW recipient \in Users
  PROVE  RouteExactAmountIn(s, m, recipient) \subseteq Good
<1>1. HopsIn(s, m, recipient)[Len(m.hops)] \subseteq Outcomes
  BY HopsInType, MessageType
<1> QED BY <1>1 DEF RouteExactAmountIn, Outcomes

(***************************************************************************)
(* What the hops of an exact amount out need, counted from the last one.   *)
(***************************************************************************)
LEMMA ExpectedAmount ==
  ASSUME NEW s \in Good, NEW m \in Messages, NEW i \in 1 .. Len(m.hops), NEW out \in Nat
  PROVE  ExpectedIn(s, m, i, out) \subseteq Nat
<1>1. PICK n, p, d : n = Len(m.hops) /\ p = m.hops[i].pool /\ d = m.hops[i].denom
  OBVIOUS
<1>2. n \in Nat \ {0} /\ p \in Pools /\ d \in Denoms
  BY <1>1, MessageType
<1>3. s \in ChainType /\ CurvePart(FullFee, n) \in Nat \ {0} /\ Whole(n) \in Nat
  BY <1>2, FeesOfAll, Portions DEF Good
<1>4. CalcInAmtGivenOut(s, p, d, out, CurvePart(FullFee, n), Whole(n)) \subseteq Nat
  BY <1>2, <1>3, InAmounts
<1> QED BY <1>1, <1>4 DEF ExpectedIn

LEMMA NeededType ==
  ASSUME NEW s \in Good, NEW m \in Messages
  PROVE  \A k \in 0 .. Len(m.hops) : createMultihopExpectedSwapOuts(s, m)[k] \subseteq Nat
<1>1. PICK n \in Nat \ {0} : n = Len(m.hops)
  BY MessageType
<1> DEFINE T == SUBSET Nat
           base == {m.amount}
           Step(k, x) == UNION {ExpectedIn(s, m, Len(m.hops) - k + 1, out) : out \in x}
           step == [k \in 1 .. n |-> [x \in T |-> Step(k, x)]]
<1>2. base \in T
  BY MessageType
<1>3. \A k \in 1 .. n, x \in T : Step(k, x) \in T
  <2> TAKE k \in 1 .. n, x \in T
  <2>1. Len(m.hops) - k + 1 \in 1 .. Len(m.hops)
    BY <1>1
  <2> QED BY <2>1, ExpectedAmount
<1>4. step \in [1 .. n -> [T -> T]]
  BY <1>3
<1>5. PICK f : Iterates(f, T, base, step, n)
  <2> HIDE DEF T, base, step
  <2> QED BY <1>2, <1>4, Recursion
<1>6. f = [k \in 0 .. n |-> IF k = 0 THEN base ELSE Step(k, f[k-1])]
  <2>1. f \in [0 .. n -> T] /\ f[0] = base
    BY <1>5 DEF Iterates
  <2>2. ASSUME NEW k \in 1 .. n PROVE f[k] = Step(k, f[k-1])
    <3>1. f[k] = step[k][f[k-1]]
      BY <1>5 DEF Iterates
    <3>2. f[k-1] \in T
      BY <2>1
    <3> QED BY <3>1, <3>2
  <2> HIDE DEF T, base, Step
  <2>3. \A k \in 0 .. n : k # 0 => k \in 1 .. n
    OBVIOUS
  <2> QED BY <2>1, <2>2, <2>3
<1> DEFINE H == createMultihopExpectedSwapOuts(s, m)
<1>7. H = [k \in 0 .. n |-> IF k = 0 THEN base ELSE Step(k, H[k-1])]
  BY <1>1, <1>6, Zenon DEF createMultihopExpectedSwapOuts
<1> HIDE DEF H
<1>8. H[0] \in T
  BY <1>2, <1>7
<1>9. \A k \in 1 .. n : H[k-1] \in T => H[k] \in T
  <2>1. \A k \in 1 .. n : H[k] = Step(k, H[k-1])
    <3> HIDE DEF Step, base
    <3> QED BY <1>7
  <2> QED BY <1>3, <2>1
<1>10. \A k \in 0 .. n : H[k] \in T
  <2> HIDE DEF T
  <2> QED BY <1>8, <1>9, StepInduction
<1> QED BY <1>1, <1>10 DEF H

(***************************************************************************)
(* The hops of an exact amount out.                                        *)
(***************************************************************************)
LEMMA NextOutBacked ==
  ASSUME NEW m \in Messages, NEW needed, \A k \in 0 .. Len(m.hops) : needed[k] \subseteq Nat,
         NEW i \in 1 .. Len(m.hops), NEW t \in Good
  PROVE  NextHopOut(m, needed, i, t) \subseteq Good
<1>1. PICK n, p, from, to, d : /\ n = Len(m.hops) /\ p = m.hops[i].pool
                               /\ from = Owner(m.sender) /\ to = Owner(m.recipient)
                               /\ d = m.hops[i].denom
  OBVIOUS
<1>2. n \in Nat \ {0} /\ p \in Pools /\ from \in Outside /\ to \in Outside /\ d \in Denoms
  BY <1>1, MessageType
<1>3. n - i \in 0 .. n
  BY <1>1, <1>2
<1>4. needed[n - i] \subseteq Nat
  BY <1>1, <1>3
<1> DEFINE fee == ApplyDiscount(m.sender)
<1>5. fee \in Fees
  BY MessageType, FeesOfAll
<1>6. ASSUME NEW max, NEW out \in needed[n - i]
      PROVE  InternalSwapExactAmountOut(t, p, from, to, d, max, out, fee, n) \subseteq Good
  <2>1. out \in Nat
    BY <1>4
  <2> HIDE DEF fee
  <2> QED BY <1>2, <1>5, <2>1, HopOut
<1>7. ASSUME NEW r \in NextHopOut(m, needed, i, t) PROVE r \in Good
  <2>1. \E max \in IF i = 1 THEN {m.limit} ELSE needed[n - i + 1] : \E out \in needed[n - i] :
           r \in InternalSwapExactAmountOut(t, p, from, to, d, max, out, fee, n)
    BY <1>1, <1>7, SMT DEF NextHopOut
  <2> QED BY <1>6, <2>1
<1> QED BY <1>7

LEMMA HopsOutBacked ==
  ASSUME NEW s \in Good, NEW m \in Messages, NEW needed,
         \A k \in 0 .. Len(m.hops) : needed[k] \subseteq Nat
  PROVE  \A i \in 0 .. Len(m.hops) : HopsOut(s, m, needed)[i] \subseteq Good
<1>1. PICK n \in Nat \ {0} : n = Len(m.hops)
  BY MessageType
<1> DEFINE T == SUBSET Good
           base == {s}
           Step(i, x) == UNION {NextHopOut(m, needed, i, t) : t \in x}
           step == [i \in 1 .. n |-> [x \in T |-> Step(i, x)]]
<1>2. base \in T
  OBVIOUS
<1>3. \A i \in 1 .. n, x \in T : Step(i, x) \in T
  BY <1>1, NextOutBacked
<1>4. step \in [1 .. n -> [T -> T]]
  BY <1>3
<1>5. PICK f : Iterates(f, T, base, step, n)
  <2> HIDE DEF T, base, step
  <2> QED BY <1>2, <1>4, Recursion
<1>6. f = [i \in 0 .. n |-> IF i = 0 THEN base ELSE Step(i, f[i-1])]
  <2>1. f \in [0 .. n -> T] /\ f[0] = base
    BY <1>5 DEF Iterates
  <2>2. ASSUME NEW i \in 1 .. n PROVE f[i] = Step(i, f[i-1])
    <3>1. f[i] = step[i][f[i-1]]
      BY <1>5 DEF Iterates
    <3>2. f[i-1] \in T
      BY <2>1
    <3> QED BY <3>1, <3>2
  <2> HIDE DEF T, base, Step
  <2>3. \A i \in 0 .. n : i # 0 => i \in 1 .. n
    OBVIOUS
  <2> QED BY <2>1, <2>2, <2>3
<1> DEFINE H == HopsOut(s, m, needed)
<1>7. H = [i \in 0 .. n |-> IF i = 0 THEN base ELSE Step(i, H[i-1])]
  BY <1>1, <1>6, Zenon DEF HopsOut
<1> HIDE DEF H
<1>8. H[0] \in T
  BY <1>2, <1>7
<1>9. \A i \in 1 .. n : H[i-1] \in T => H[i] \in T
  <2>1. \A i \in 1 .. n : H[i] = Step(i, H[i-1])
    <3> HIDE DEF Step, base
    <3> QED BY <1>7
  <2> QED BY <1>3, <2>1
<1>10. \A i \in 0 .. n : H[i] \in T
  <2> HIDE DEF T
  <2> QED BY <1>8, <1>9, StepInduction
<1> QED BY <1>1, <1>10 DEF H

LEMMA RouteOutBacked ==
  ASSUME NEW s \in Good, NEW m \in Messages
  PROVE  RouteExactAmountOut(s, m) \subseteq Good
<1>1. PICK needed : needed = createMultihopExpectedSwapOuts(s, m)
  OBVIOUS
<1>2. \A k \in 0 .. Len(m.hops) : needed[k] \subseteq Nat
  BY <1>1, NeededType
<1>3. HopsOut(s, m, needed)[Len(m.hops)] \subseteq Good
  BY <1>2, HopsOutBacked, MessageType
<1> QED BY <1>1, <1>3 DEF RouteExactAmountOut

LEMMA ApplyBacked ==
  ASSUME NEW s \in Good, NEW m \in Messages
  PROVE  ApplySwapRequest(s, m) \subseteq Good
<1>1. m.recipient \in Users
  BY MessageType
<1> QED BY <1>1, RouteInBacked, RouteOutBacked DEF ApplySwapRequest

-----------------------------------------------------------------------------
(***************************************************************************)
(* The batch: requests are taken from the store, and what is executed of   *)
(* them leaves the pools backed.                                           *)
(***************************************************************************)
LEMMA SelectedFromStore ==
  ASSUME NEW q
  PROVE  /\ SelectOneSwapRequest(q) \subseteq q
         /\ \A r : SelectReverseSwapRequest(q, r) \subseteq q
<1>1. \A x : First(x) \subseteq x
  BY DEF First
<1>2. \A x : SelectOneSwapRequest(x) \subseteq x
  BY <1>1 DEF SelectOneSwapRequest
<1>3. ASSUME NEW r PROVE SelectReverseSwapRequest(q, r) \subseteq q
  <2>1. PICK k : k = SwapPrefix(r.msg)
    OBVIOUS
  <2>2. PICK x : x = {o \in q : SwapPrefix(o.msg) = <<k[3], k[2], k[1]>>}
    OBVIOUS
  <2>3. SelectReverseSwapRequest(q, r)
          = IF {k[1], k[3]} \cap Slashed # {} THEN {} ELSE SelectOneSwapRequest(x)
    BY <2>1, <2>2 DEF SelectReverseSwapRequest
  <2>4. SelectOneSwapRequest(x) \subseteq x /\ x \subseteq q
    BY <1>2, <2>2
  <2> QED BY <2>3, <2>4
<1> QED BY <1>2, <1>3

LEMMA RoundBacked ==
  ASSUME NEW s \in Good, NEW q, \A r \in q : r.msg \in Messages, NEW x \in Rounds(q, s)
  PROVE  x.queue \subseteq q /\ x.chain \in Good
<1>1. PICK r \in SelectOneSwapRequest(q) : x = Round(q, s, r)
  BY DEF Rounds
<1>2. PICK opposite, mine, theirs :
        /\ opposite = SelectReverseSwapRequest(q, r)
        /\ mine = ApplySwapRequest(s, r.msg)
        /\ theirs = UNION {ApplySwapRequest(s, o.msg) : o \in opposite}
  OBVIOUS
<1>3. r \in q /\ opposite \subseteq q
  BY <1>1, <1>2, SelectedFromStore
<1>4. mine \subseteq Good
  BY <1>2, <1>3, ApplyBacked
<1>5. theirs \subseteq Good
  BY <1>2, <1>3, ApplyBacked
<1>6. PICK executed : executed = IF opposite = {} THEN mine ELSE IF mine = {} THEN {} ELSE theirs
  OBVIOUS
<1>7. executed \subseteq Good
  BY <1>4, <1>5, <1>6
<1>8. x = [queue |-> q \ RemovedRequests(r, opposite, mine, theirs),
           chain |-> IF executed = {} THEN s ELSE CHOOSE t \in executed : TRUE]
  BY <1>1, <1>2, <1>6, Zenon DEF Round
<1>9. executed # {} => (CHOOSE t \in executed : TRUE) \in executed
  OBVIOUS
<1> QED BY <1>7, <1>8, <1>9

-----------------------------------------------------------------------------
(***************************************************************************)
(* A store of requests: no two of them share an index, so that any two are *)
(* ordered.                                                                *)
(***************************************************************************)
StoreOf(q, n) ==
  /\ q \subseteq [index : 1 .. n, msg : Messages] /\ IsFiniteSet(q)
  /\ \A r, o \in q : r.index = o.index => r = o

(***************************************************************************)
(* The invariant is TypeOK with PoolsBacked, in terms of the state of the  *)
(* chain, and with what orders the store.  Neither TypeOK nor PoolsBacked  *)
(* is inductive alone: a pool's coins leave by a send and by two records,  *)
(* and each refuses on its own to go below zero, so that what one of them  *)
(* lets pass is natural in the others only because they agree.             *)
(***************************************************************************)
IInv ==
  /\ Chain \in Good
  /\ StoreOf(queue, lastIndex)
  /\ lastIndex \in 0 .. delivered
  /\ phase \in {"deliver", "batch"} /\ height \in 1 .. MaxHeight
  /\ delivered \in 0 .. MaxDelivered

LEMMA IInvMeans == IInv => TypeOK /\ PoolsBacked
BY DEF IInv, StoreOf, TypeOK, PoolsBacked, Chain, Good, ChainType, Backed

LEMMA BecomeGood ==
  ASSUME NEW s \in Good, Become(s)
  PROVE  Chain' \in Good
<1>1. s = [liquidity |-> s.liquidity, denomLiquidity |-> s.denomLiquidity, bank |-> s.bank]
  BY DEF Good, ChainType
<1> QED BY <1>1 DEF Become, Chain

LEMMA InitBacked == Init => IInv
<1> SUFFICES ASSUME Init PROVE IInv
  OBVIOUS
<1>1. Liquidity \in [Pools -> [Denoms -> Nat]] /\ Wallets \in [Users -> [Denoms -> Nat]]
  BY AmmAssumption
<1>2. denomLiquidity \in [Denoms -> Nat]
  <2>1. ASSUME NEW d \in Denoms
        PROVE  Sum([p \in Pools |-> Liquidity[p][d]], Len(Assets)) \in Nat
    <3>1. PICK g : g = [p \in Pools |-> Liquidity[p][d]]
      OBVIOUS
    <3>2. g \in [1 .. Len(Assets) -> Nat] /\ Len(Assets) \in Nat
      BY <1>1, <3>1, PoolsDef
    <3>3. Sum(g, Len(Assets)) \in Nat
      BY <3>2, SumBound
    <3> QED BY <3>1, <3>3
  <2> QED BY <2>1 DEF Init
<1>3. /\ bank \in [Accounts -> [Denoms -> Nat]]
      /\ \A p \in Pools : bank[PoolAddress(p)] = Liquidity[p]
  <2>1. ASSUME NEW a \in Accounts
        PROVE  (CASE a[1] = "user" -> Wallets[a[2]]
                  [] a[1] = "pool" -> Liquidity[a[2]]
                  [] OTHER -> [d \in Denoms |-> 0]) \in [Denoms -> Nat]
    <3>1. CASE \E u \in Users : a = Owner(u)
      BY <1>1, <3>1 DEF Owner
    <3>2. CASE \E p \in Pools : a = PoolAddress(p)
      BY <1>1, <3>2 DEF PoolAddress
    <3>3. CASE (\E p \in Pools : a = Revenue(p)) \/ a = TakerFees
      <4>1. a[1] # "user" /\ a[1] # "pool"
        BY <3>3 DEF Revenue, TakerFees
      <4> QED BY <4>1
    <3> QED BY <3>1, <3>2, <3>3 DEF Accounts
  <2>2. \A p \in Pools : PoolAddress(p) \in Accounts /\ PoolAddress(p) = <<"pool", p>>
    BY AccountsApart DEF PoolAddress
  <2>3. \A p \in Pools : bank[PoolAddress(p)] = Liquidity[p]
    BY <2>2 DEF Init
  <2> QED BY <2>1, <2>3 DEF Init
<1>4. TypeOK
  BY <1>1, <1>2, <1>3, AmmAssumption DEF Init, TypeOK
<1>5. PoolsBacked
  BY <1>3 DEF Init, PoolsBacked
<1>6. Chain \in Good
  BY <1>4, <1>5 DEF TypeOK, PoolsBacked, Chain, Good, ChainType, Backed
<1>7. IsFiniteSet(queue)
  BY FS_EmptySet DEF Init
<1> QED BY <1>4, <1>6, <1>7 DEF Init, TypeOK, IInv, StoreOf

LEMMA NextBacked == IInv /\ [Next]_vars => IInv'
<1> SUFFICES ASSUME IInv, [Next]_vars PROVE IInv'
  OBVIOUS
<1>1. /\ Chain \in Good
      /\ StoreOf(queue, lastIndex) /\ \A r \in queue : r.msg \in Messages
      /\ lastIndex \in 0 .. delivered
      /\ phase \in {"deliver", "batch"} /\ height \in 1 .. MaxHeight
      /\ delivered \in 0 .. MaxDelivered /\ MaxDelivered \in Nat /\ MaxHeight \in Nat
  BY AmmAssumption DEF IInv, StoreOf
<1>2. ASSUME UNCHANGED <<liquidity, denomLiquidity, bank>> PROVE Chain' \in Good
  BY <1>1, <1>2 DEF Chain
<1>3. ASSUME NEW m \in Messages, SwapExactAmount(m) PROVE IInv'
  <2>1. StoreOf(queue', lastIndex')
    <3>1. PICK x : x = [index |-> lastIndex + 1, msg |-> m]
      OBVIOUS
    <3>2. queue' = queue \cup {x} /\ lastIndex' = lastIndex + 1
      BY <1>3, <3>1 DEF SwapExactAmount, FreshIndex
    <3>3. lastIndex \in Nat /\ queue \subseteq [index : 1 .. lastIndex, msg : Messages]
      BY <1>1 DEF StoreOf
    <3>4. queue' \subseteq [index : 1 .. lastIndex', msg : Messages]
      BY <3>1, <3>2, <3>3
    <3>5. \A r \in queue : r.index # x.index
      BY <3>1, <3>3
    <3>6. IsFiniteSet(queue')
      BY <1>1, <3>2, FS_AddElement DEF StoreOf
    <3>7. \A r, o \in queue' : r.index = o.index => r = o
      BY <1>1, <3>2, <3>5 DEF StoreOf
    <3> QED BY <3>4, <3>6, <3>7 DEF StoreOf
  <2>2. Chain' \in Good
    BY <1>2, <1>3 DEF SwapExactAmount
  <2>3. lastIndex' = lastIndex + 1 /\ delivered' = delivered + 1 /\ delivered < MaxDelivered
    BY <1>3 DEF SwapExactAmount, FreshIndex
  <2>4. lastIndex' \in 0 .. delivered' /\ delivered' \in 0 .. MaxDelivered
    BY <1>1, <2>3
  <2>5. phase' = phase /\ height' = height
    BY <1>3 DEF SwapExactAmount
  <2> QED BY <1>1, <2>1, <2>2, <2>4, <2>5 DEF IInv
<1>4. ASSUME NEW m \in Messages, UpFrontSwapExactAmountIn(m) PROVE IInv'
  <2>1. PICK s \in RouteExactAmountIn(Chain, m, m.sender) : Become(s)
    BY <1>4 DEF UpFrontSwapExactAmountIn
  <2>2. s \in Good
    BY <1>1, <2>1, MessageType, RouteInBacked
  <2>3. Chain' \in Good
    BY <2>1, <2>2, BecomeGood
  <2> QED BY <1>1, <1>4, <2>3 DEF UpFrontSwapExactAmountIn, IInv
<1>5. ASSUME NEW u \in Users, NEW v \in Users, NEW d \in Denoms, NEW amount \in Transfers,
             Transfer(u, v, d, amount)
      PROVE  IInv'
  <2>1. PICK s \in Send(Chain, Owner(u), Owner(v), d, amount) : Become(s)
    BY <1>5 DEF Transfer
  <2>2. Owner(u) # Owner(v) /\ Owner(u) \in Outside /\ Owner(v) \in Outside /\ amount \in Nat
    BY <1>5, AccountsApart, AmmAssumption DEF Transfer
  <2>3. s \in Good
    BY <1>1, <2>1, <2>2, OutsidersSend
  <2>4. Chain' \in Good
    BY <2>1, <2>3, BecomeGood
  <2> QED BY <1>1, <1>5, <2>4 DEF Transfer, IInv
<1>6. ASSUME BeginBatch PROVE IInv'
  BY <1>1, <1>2, <1>6 DEF BeginBatch, IInv
<1>7. ASSUME SettleOne PROVE IInv'
  <2>1. PICK next \in Rounds(queue, Chain) : queue' = next.queue /\ Become(next.chain)
    BY <1>7 DEF SettleOne
  <2>2. next.queue \subseteq queue /\ next.chain \in Good
    BY <1>1, <2>1, RoundBacked
  <2>3. Chain' \in Good
    BY <2>1, <2>2, BecomeGood
  <2>4. StoreOf(queue', lastIndex')
    <3>1. queue' \subseteq queue /\ lastIndex' = lastIndex
      BY <1>7, <2>1, <2>2 DEF SettleOne
    <3> QED BY <1>1, <3>1, FS_Subset DEF StoreOf
  <2> QED BY <1>1, <1>7, <2>3, <2>4 DEF SettleOne, IInv
<1>8. ASSUME FinishBlock PROVE IInv'
  BY <1>1, <1>2, <1>8, FS_EmptySet DEF FinishBlock, IInv, StoreOf
<1>9. ASSUME UNCHANGED vars PROVE IInv'
  BY <1>1, <1>2, <1>9 DEF vars, IInv
<1> QED BY <1>3, <1>4, <1>5, <1>6, <1>7, <1>8, <1>9 DEF Next

LEMMA InvariantHolds == Spec => []IInv
BY InitBacked, NextBacked, PTL DEF Spec

(***************************************************************************)
(* Type correctness: amounts in the pools, of the denoms and of every      *)
(* account stay natural, and the indices of the requests in the transient  *)
(* store are those that SetLastSwapRequestIndex has given in the block.    *)
(***************************************************************************)
THEOREM AmmTypeCorrect == Spec => []TypeOK
<1>1. IInv => TypeOK
  BY IInvMeans
<1> QED BY <1>1, InvariantHolds, PTL

(***************************************************************************)
(* A pool's record, its account and the liquidity of the denoms agree      *)
(* after every swap up front and every round of EndBlocker, however many   *)
(* hops, fees and trades of fees it took (update_pool_for_swap.go, fee.go).*)
(***************************************************************************)
THEOREM PoolsBackedHolds == Spec => []PoolsBacked
<1>1. IInv => PoolsBacked
  BY IInvMeans
<1> QED BY <1>1, InvariantHolds, PTL

-----------------------------------------------------------------------------
(***************************************************************************)
(* The order of the store.  Keys are compared from the left: the order is  *)
(* total on the keys, and two requests of one store have different keys.   *)
(***************************************************************************)
Keys == [1 .. 5 -> Nat]
Requests == [index : Nat, msg : Messages]

LEMMA PrecedesIrreflexive ==
  ASSUME NEW k \in Keys
  PROVE  ~ Precedes(k, k)
BY DEF Precedes, Keys

LEMMA PrecedesTransitive ==
  ASSUME NEW k \in Keys, NEW l \in Keys, NEW m \in Keys, Precedes(k, l), Precedes(l, m)
  PROVE  Precedes(k, m)
<1>0. DOMAIN k = 1 .. 5 /\ DOMAIN l = 1 .. 5 /\ \A i \in 1 .. 5 : k[i] \in Nat /\ l[i] \in Nat /\ m[i] \in Nat
  BY DEF Keys
<1>1. PICK i \in 1 .. 5 : k[i] < l[i] /\ \A x \in 1 .. i - 1 : k[x] = l[x]
  BY <1>0 DEF Precedes
<1>2. PICK j \in 1 .. 5 : l[j] < m[j] /\ \A x \in 1 .. j - 1 : l[x] = m[x]
  BY <1>0 DEF Precedes
<1>3. CASE i < j
  <2>1. k[i] < m[i] /\ \A x \in 1 .. i - 1 : k[x] = m[x]
    BY <1>0, <1>1, <1>2, <1>3
  <2> QED BY <1>0, <2>1 DEF Precedes
<1>4. CASE i = j
  <2>1. k[i] < m[i]
    BY <1>0, <1>1, <1>2, <1>4
  <2>2. \A x \in 1 .. i - 1 : k[x] = m[x]
    BY <1>0, <1>1, <1>2, <1>4
  <2> QED BY <1>0, <2>1, <2>2 DEF Precedes
<1>5. CASE j < i
  <2>1. k[j] < m[j] /\ \A x \in 1 .. j - 1 : k[x] = m[x]
    BY <1>0, <1>1, <1>2, <1>5
  <2> QED BY <1>0, <2>1 DEF Precedes
<1> QED BY <1>3, <1>4, <1>5

LEMMA PrecedesTotal ==
  ASSUME NEW k \in Keys, NEW l \in Keys, k # l
  PROVE  Precedes(k, l) \/ Precedes(l, k)
<1>1. /\ DOMAIN k = 1 .. 5 /\ DOMAIN l = 1 .. 5
      /\ \A i \in 1 .. 5 : k[i] \in Nat /\ l[i] \in Nat
  BY DEF Keys
<1>2. ASSUME NEW i \in 1 .. 5, k[i] # l[i], \A x \in 1 .. i - 1 : k[x] = l[x]
      PROVE  Precedes(k, l) \/ Precedes(l, k)
  <2>1. CASE k[i] < l[i]
    BY <1>1, <1>2, <2>1 DEF Precedes
  <2>2. CASE l[i] < k[i]
    BY <1>1, <1>2, <2>2 DEF Precedes
  <2>3. k[i] \in Nat /\ l[i] \in Nat
    BY <1>1
  <2> QED BY <1>2, <2>1, <2>2, <2>3
<1>3. \E i \in 1 .. 5 : k[i] # l[i] /\ \A x \in 1 .. i - 1 : k[x] = l[x]
  <2>1. PICK y \in 1 .. 5 : k[y] # l[y]
    BY DEF Keys
  <2>2. CASE k[1] # l[1]
    BY <2>2
  <2>3. CASE k[1] = l[1] /\ k[2] # l[2]
    BY <2>3
  <2>4. CASE k[1] = l[1] /\ k[2] = l[2] /\ k[3] # l[3]
    <3>1. \A x \in 1 .. 3 - 1 : k[x] = l[x]
      BY <2>4
    <3> QED BY <2>4, <3>1
  <2>5. CASE k[1] = l[1] /\ k[2] = l[2] /\ k[3] = l[3] /\ k[4] # l[4]
    <3>1. \A x \in 1 .. 4 - 1 : k[x] = l[x]
      BY <2>5
    <3> QED BY <2>5, <3>1
  <2>6. CASE k[1] = l[1] /\ k[2] = l[2] /\ k[3] = l[3] /\ k[4] = l[4]
    <3>1. y = 5
      BY <2>1, <2>6
    <3>2. \A x \in 1 .. 5 - 1 : k[x] = l[x]
      BY <2>6
    <3> QED BY <2>1, <3>1, <3>2
  <2> QED BY <2>2, <2>3, <2>4, <2>5, <2>6
<1> QED BY <1>2, <1>3

\* The key of a request: three parts that depend on the message alone, then
\* the sender, then the index.
LEMMA KeyOfRequest ==
  ASSUME NEW r \in Requests
  PROVE  /\ SwapKey(r) \in Keys
         /\ SwapKey(r)[1] = SwapPrefix(r.msg)[1] /\ SwapKey(r)[2] = SwapPrefix(r.msg)[2]
         /\ SwapKey(r)[3] = SwapPrefix(r.msg)[3]
         /\ SwapKey(r)[4] = r.msg.sender /\ SwapKey(r)[5] = r.index
<1>1. PICK m \in Messages : m = r.msg
  BY DEF Requests
<1>2. Denoms \subseteq Nat /\ Pools \subseteq Nat /\ Users \subseteq Nat
  BY PoolsDef, AmmAssumption DEF Denoms, Users
<1>3. /\ m.denom \in Nat /\ m.sender \in Nat
      /\ \A i \in 1 .. Len(m.hops) : m.hops[i].pool \in Nat /\ m.hops[i].denom \in Nat
      /\ 1 \in 1 .. Len(m.hops) /\ Len(m.hops) \in 1 .. Len(m.hops)
  <2>1. /\ m.denom \in Denoms /\ m.sender \in Users /\ Len(m.hops) \in Nat \ {0}
        /\ \A i \in 1 .. Len(m.hops) : m.hops[i].pool \in Pools /\ m.hops[i].denom \in Denoms
    BY MessageType
  <2>2. 1 \in 1 .. Len(m.hops) /\ Len(m.hops) \in 1 .. Len(m.hops)
    BY <2>1
  <2> QED BY <1>2, <2>1, <2>2
<1>4. PICK a, b, c : SwapPrefix(m) = <<a, b, c>> /\ a \in Nat /\ b \in Nat /\ c \in Nat
  BY <1>3 DEF SwapPrefix, LastHop
<1>5. r.index \in Nat
  BY DEF Requests
<1>6. SwapKey(r) = <<a, b, c, m.sender, r.index>>
  BY <1>1, <1>4 DEF SwapKey
<1>7. SwapPrefix(m)[1] = a /\ SwapPrefix(m)[2] = b /\ SwapPrefix(m)[3] = c
  BY <1>4
<1> QED BY <1>1, <1>3, <1>4, <1>5, <1>6, <1>7 DEF Keys

\* Requests that differ in their indices.
Distinct(q) == q \subseteq Requests /\ \A r, o \in q : r.index = o.index => r = o

LEMMA RequestsOrdered ==
  ASSUME NEW q, Distinct(q), NEW r \in q, NEW o \in q, r # o
  PROVE  \/ Precedes(SwapKey(r), SwapKey(o)) /\ ~ Precedes(SwapKey(o), SwapKey(r))
         \/ Precedes(SwapKey(o), SwapKey(r)) /\ ~ Precedes(SwapKey(r), SwapKey(o))
<1>1. r \in Requests /\ o \in Requests /\ r.index # o.index
  BY DEF Distinct
<1>2. PICK k \in Keys, l \in Keys : k = SwapKey(r) /\ l = SwapKey(o) /\ k[5] # l[5]
  BY <1>1, KeyOfRequest
<1>3. Precedes(k, l) \/ Precedes(l, k)
  BY <1>2, PrecedesTotal
<1>4. ~ (Precedes(k, l) /\ Precedes(l, k))
  BY <1>2, PrecedesTransitive, PrecedesIrreflexive
<1> QED BY <1>2, <1>3, <1>4

\* There is at most one first request, and one if there are requests at all.
LEMMA FirstUnique ==
  ASSUME NEW q, Distinct(q), NEW r \in First(q), NEW o \in First(q)
  PROVE  r = o
<1> SUFFICES ASSUME r # o PROVE FALSE
  OBVIOUS
<1>1. r \in q /\ o \in q
  BY DEF First
<1>2. Precedes(SwapKey(r), SwapKey(o)) /\ Precedes(SwapKey(o), SwapKey(r))
  BY <1>1 DEF First
<1> QED BY <1>1, <1>2, RequestsOrdered

LEMMA FirstExists ==
  ASSUME NEW q, Distinct(q), IsFiniteSet(q), q # {}
  PROVE  First(q) # {}
<1> DEFINE Small(n) == {x \in SUBSET q : IsFiniteSet(x) /\ Cardinality(x) = n}
           S == {n \in Nat : \A x \in Small(n) : x # {} => First(x) # {}}
<1>1. 0 \in S
  BY FS_EmptySet
<1>2. ASSUME NEW n \in Nat, n \in S PROVE n + 1 \in S
  <2>1. SUFFICES ASSUME NEW x \in Small(n + 1), x # {} PROVE First(x) # {}
    OBVIOUS
  <2>2. PICK a : a \in x
    BY <2>1
  <2>3. x \subseteq q /\ IsFiniteSet(x) /\ Cardinality(x) = n + 1
    BY <2>1
  <2>4. IsFiniteSet(x \ {a}) /\ Cardinality(x \ {a}) = n
    BY <2>2, <2>3, FS_RemoveElement
  <2>5. CASE x \ {a} = {}
    <3>1. a \in First(x)
      BY <2>2, <2>5 DEF First
    <3> QED BY <3>1
  <2>6. CASE x \ {a} # {}
    <3>1. x \ {a} \in Small(n)
      BY <2>3, <2>4
    <3>2. PICK b : b \in First(x \ {a})
      BY <1>2, <2>6, <3>1
    <3>3. /\ b \in x \ {a}
          /\ \A o \in (x \ {a}) \ {b} : Precedes(SwapKey(b), SwapKey(o))
      BY <3>2 DEF First
    <3>4. CASE Precedes(SwapKey(b), SwapKey(a))
      <4>1. b \in First(x)
        BY <3>3, <3>4 DEF First
      <4> QED BY <4>1
    <3>5. CASE Precedes(SwapKey(a), SwapKey(b))
      <4>1. ASSUME NEW o \in x \ {a} PROVE Precedes(SwapKey(a), SwapKey(o))
        <5>1. CASE o = b
          BY <3>5, <5>1
        <5>2. CASE o # b
          <6>1. Precedes(SwapKey(b), SwapKey(o))
            BY <3>3, <4>1, <5>2
          <6>2. SwapKey(a) \in Keys /\ SwapKey(b) \in Keys /\ SwapKey(o) \in Keys
            BY <2>2, <2>3, <3>3, KeyOfRequest DEF Distinct
          <6> QED BY <3>5, <6>1, <6>2, PrecedesTransitive
        <5> QED BY <5>1, <5>2
      <4>2. a \in First(x)
        BY <2>2, <4>1 DEF First
      <4> QED BY <4>2
    <3>6. a \in q /\ b \in q /\ a # b
      BY <2>2, <2>3, <3>3
    <3> QED BY <3>4, <3>5, <3>6, RequestsOrdered
  <2> QED BY <2>5, <2>6
<1>3. Nat \subseteq S
  <2> HIDE DEF S
  <2> QED BY <1>1, <1>2, SetInduction
<1>4. Cardinality(q) \in Nat
  BY FS_CardinalityType
<1>5. q \in Small(Cardinality(q)) /\ Cardinality(q) \in S
  BY <1>3, <1>4
<1> QED BY <1>5

-----------------------------------------------------------------------------
(***************************************************************************)
(* Another order of arrival: f gives the requests of a store of n other    *)
(* indices, which keep the order of those of the same sender.              *)
(***************************************************************************)
Moved(f, r) == [r EXCEPT !.index = f[r.index]]
MovedAll(f, q) == {Moved(f, r) : r \in q}

Arrival(f, q, n) ==
  /\ f \in [1 .. n -> 1 .. n]
  /\ \A i, j \in 1 .. n : i # j => f[i] # f[j]
  /\ \A r, o \in q :
        r.msg.sender = o.msg.sender /\ r.index < o.index => f[r.index] < f[o.index]

LEMMA MovedRequest ==
  ASSUME NEW n \in Nat, NEW q, StoreOf(q, n), NEW f, Arrival(f, q, n), NEW r \in q
  PROVE  /\ r \in Requests /\ r.index \in 1 .. n /\ r.msg \in Messages
         /\ Moved(f, r) \in [index : 1 .. n, msg : Messages] /\ Moved(f, r) \in Requests
         /\ Moved(f, r).index = f[r.index] /\ Moved(f, r).msg = r.msg
<1>1. r \in [index : 1 .. n, msg : Messages]
  BY DEF StoreOf
<1>2. f[r.index] \in 1 .. n
  BY <1>1 DEF Arrival
<1> QED BY <1>1, <1>2 DEF Moved, Requests

LEMMA StoreMoved ==
  ASSUME NEW n \in Nat, NEW q, StoreOf(q, n), NEW f, Arrival(f, q, n)
  PROVE  /\ Distinct(q) /\ Distinct(MovedAll(f, q))
         /\ \A r, o \in q : Moved(f, r) = Moved(f, o) => r = o
<1>1. ASSUME NEW r \in q, NEW o \in q, Moved(f, r).index = Moved(f, o).index PROVE r = o
  <2>1. f[r.index] = f[o.index] /\ r.index \in 1 .. n /\ o.index \in 1 .. n
    BY <1>1, MovedRequest
  <2>2. r.index = o.index
    BY <2>1 DEF Arrival
  <2> QED BY <2>2 DEF StoreOf
<1>2. Distinct(q)
  <2>1. q \subseteq Requests
    BY MovedRequest
  <2> QED BY <2>1 DEF Distinct, StoreOf
<1>3. MovedAll(f, q) \subseteq Requests
  BY MovedRequest DEF MovedAll
<1> QED BY <1>1, <1>2, <1>3 DEF Distinct, MovedAll

\* The order of the requests does not change.
LEMMA OrderMoved ==
  ASSUME NEW n \in Nat, NEW q, StoreOf(q, n), NEW f, Arrival(f, q, n),
         NEW r \in q, NEW o \in q, r # o, Precedes(SwapKey(r), SwapKey(o))
  PROVE  Precedes(SwapKey(Moved(f, r)), SwapKey(Moved(f, o)))
<1>1. PICK k, l, x, y : /\ k = SwapKey(r) /\ l = SwapKey(o)
                        /\ x = SwapKey(Moved(f, r)) /\ y = SwapKey(Moved(f, o))
  OBVIOUS
<1>2. /\ r \in Requests /\ Moved(f, r) \in Requests /\ Moved(f, r).msg = r.msg
      /\ Moved(f, r).index = f[r.index] /\ r.index \in 1 .. n
  BY MovedRequest
<1>3. /\ o \in Requests /\ Moved(f, o) \in Requests /\ Moved(f, o).msg = o.msg
      /\ Moved(f, o).index = f[o.index] /\ o.index \in 1 .. n
  BY MovedRequest
<1>4. /\ k \in Keys /\ x \in Keys /\ k[1] = x[1] /\ k[2] = x[2] /\ k[3] = x[3] /\ k[4] = x[4]
      /\ k[4] = r.msg.sender /\ k[5] = r.index /\ x[5] = f[r.index]
  BY <1>1, <1>2, KeyOfRequest
<1>5. /\ l \in Keys /\ y \in Keys /\ l[1] = y[1] /\ l[2] = y[2] /\ l[3] = y[3] /\ l[4] = y[4]
      /\ l[4] = o.msg.sender /\ l[5] = o.index /\ y[5] = f[o.index]
  BY <1>1, <1>3, KeyOfRequest
<1>6. ASSUME NEW i \in 1 .. 4 PROVE k[i] = x[i] /\ l[i] = y[i]
  <2>1. i = 1 \/ i = 2 \/ i = 3 \/ i = 4
    OBVIOUS
  <2> QED BY <1>4, <1>5, <2>1, Zenon
<1>7. DOMAIN k = 1 .. 5 /\ DOMAIN x = 1 .. 5
  BY <1>4 DEF Keys
<1>8. PICK i \in 1 .. 5 : k[i] < l[i] /\ \A j \in 1 .. i - 1 : k[j] = l[j]
  BY <1>1, <1>7 DEF Precedes
<1>9. CASE i \in 1 .. 4
  <2>1. x[i] < y[i] /\ \A j \in 1 .. i - 1 : x[j] = y[j]
    BY <1>6, <1>8, <1>9
  <2> QED BY <1>1, <1>7, <2>1 DEF Precedes
<1>10. CASE i = 5
  <2>1. k[4] = l[4] /\ \A j \in 1 .. 4 : x[j] = y[j]
    BY <1>6, <1>8, <1>10
  <2>2. r.msg.sender = o.msg.sender /\ r.index < o.index
    BY <1>4, <1>5, <1>8, <1>10, <2>1
  <2>3. x[5] < y[5]
    BY <1>4, <1>5, <2>2 DEF Arrival
  <2>4. \E j \in DOMAIN x : x[j] < y[j] /\ \A h \in 1 .. j - 1 : x[h] = y[h]
    BY <1>7, <2>1, <2>3
  <2> QED BY <1>1, <2>4 DEF Precedes
<1> QED BY <1>9, <1>10

LEMMA OrderKept ==
  ASSUME NEW n \in Nat, NEW q, StoreOf(q, n), NEW f, Arrival(f, q, n),
         NEW r \in q, NEW o \in q, r # o
  PROVE  Precedes(SwapKey(Moved(f, r)), SwapKey(Moved(f, o)))
           <=> Precedes(SwapKey(r), SwapKey(o))
<1>1. Distinct(q) /\ Distinct(MovedAll(f, q)) /\ Moved(f, r) # Moved(f, o)
  BY StoreMoved
<1>2. Moved(f, r) \in MovedAll(f, q) /\ Moved(f, o) \in MovedAll(f, q)
  BY DEF MovedAll
<1>3. CASE Precedes(SwapKey(r), SwapKey(o))
  BY <1>3, OrderMoved
<1>4. CASE ~ Precedes(SwapKey(r), SwapKey(o))
  <2>1. Precedes(SwapKey(o), SwapKey(r))
    BY <1>1, <1>4, RequestsOrdered
  <2>2. Precedes(SwapKey(Moved(f, o)), SwapKey(Moved(f, r)))
    BY <2>1, OrderMoved
  <2> QED BY <1>1, <1>2, <1>4, <2>2, RequestsOrdered
<1> QED BY <1>3, <1>4

\* The parts of a store are stores of which the order of arrival is another one.
LEMMA PartOfStore ==
  ASSUME NEW n \in Nat, NEW q, StoreOf(q, n), NEW f, Arrival(f, q, n), NEW x \in SUBSET q
  PROVE  StoreOf(x, n) /\ Arrival(f, x, n)
<1>1. StoreOf(x, n)
  BY FS_Subset DEF StoreOf
<1>2. Arrival(f, x, n)
  BY DEF Arrival
<1> QED BY <1>1, <1>2

LEMMA FirstMoved ==
  ASSUME NEW n \in Nat, NEW q, StoreOf(q, n), NEW f, Arrival(f, q, n)
  PROVE  First(MovedAll(f, q)) = MovedAll(f, First(q))
<1>1. \A r, o \in q : Moved(f, r) = Moved(f, o) => r = o
  BY StoreMoved
<1>2. ASSUME NEW r \in q
      PROVE  Moved(f, r) \in First(MovedAll(f, q)) <=> r \in First(q)
  <2>1. Moved(f, r) \in First(MovedAll(f, q))
          <=> \A x \in MovedAll(f, q) \ {Moved(f, r)} :
                 Precedes(SwapKey(Moved(f, r)), SwapKey(x))
    BY DEF First, MovedAll
  <2>2. (\A x \in MovedAll(f, q) \ {Moved(f, r)} : Precedes(SwapKey(Moved(f, r)), SwapKey(x)))
          <=> \A o \in q \ {r} : Precedes(SwapKey(Moved(f, r)), SwapKey(Moved(f, o)))
    BY <1>1 DEF MovedAll
  <2>3. \A o \in q \ {r} : Precedes(SwapKey(Moved(f, r)), SwapKey(Moved(f, o)))
                             <=> Precedes(SwapKey(r), SwapKey(o))
    BY OrderKept
  <2>4. r \in First(q) <=> \A o \in q \ {r} : Precedes(SwapKey(r), SwapKey(o))
    BY DEF First
  <2> QED BY <2>1, <2>2, <2>3, <2>4
<1>3. First(MovedAll(f, q)) \subseteq MovedAll(f, q) /\ First(q) \subseteq q
  BY DEF First
<1> QED BY <1>2, <1>3 DEF MovedAll

LEMMA PartMoved ==
  ASSUME NEW q, NEW f, \A r, o \in q : Moved(f, r) = Moved(f, o) => r = o,
         NEW x \in SUBSET q
  PROVE  MovedAll(f, q) \ MovedAll(f, x) = MovedAll(f, q \ x)
BY DEF MovedAll

LEMMA SelectOneMoved ==
  ASSUME NEW n \in Nat, NEW q, StoreOf(q, n), NEW f, Arrival(f, q, n)
  PROVE  SelectOneSwapRequest(MovedAll(f, q)) = MovedAll(f, SelectOneSwapRequest(q))
<1>1. PICK ins : ins = {r \in q : r.msg.kind = "in"}
  OBVIOUS
<1>2. MovedAll(f, ins) = {r \in MovedAll(f, q) : r.msg.kind = "in"}
  <2>1. \A r \in q : Moved(f, r).msg = r.msg
    BY MovedRequest
  <2> QED BY <1>1, <2>1 DEF MovedAll
<1>3. StoreOf(ins, n) /\ Arrival(f, ins, n)
  BY <1>1, PartOfStore
<1>4. MovedAll(f, ins) = {} <=> ins = {}
  BY DEF MovedAll
<1>5. SelectOneSwapRequest(q) = First(IF ins # {} THEN ins ELSE q)
  BY <1>1 DEF SelectOneSwapRequest
<1>6. SelectOneSwapRequest(MovedAll(f, q))
        = First(IF MovedAll(f, ins) # {} THEN MovedAll(f, ins) ELSE MovedAll(f, q))
  BY <1>2, Zenon DEF SelectOneSwapRequest
<1>7. First(MovedAll(f, ins)) = MovedAll(f, First(ins))
  BY <1>3, FirstMoved
<1>8. First(MovedAll(f, q)) = MovedAll(f, First(q))
  BY FirstMoved
<1> QED BY <1>4, <1>5, <1>6, <1>7, <1>8

LEMMA SelectReverseMoved ==
  ASSUME NEW n \in Nat, NEW q, StoreOf(q, n), NEW f, Arrival(f, q, n), NEW r \in q
  PROVE  SelectReverseSwapRequest(MovedAll(f, q), Moved(f, r))
           = MovedAll(f, SelectReverseSwapRequest(q, r))
<1>1. PICK k : k = SwapPrefix(r.msg)
  OBVIOUS
<1>2. PICK x : x = {o \in q : SwapPrefix(o.msg) = <<k[3], k[2], k[1]>>}
  OBVIOUS
<1>3. Moved(f, r).msg = r.msg
  BY MovedRequest
<1>4. MovedAll(f, x) = {o \in MovedAll(f, q) : SwapPrefix(o.msg) = <<k[3], k[2], k[1]>>}
  <2>1. \A o \in q : Moved(f, o).msg = o.msg
    BY MovedRequest
  <2> QED BY <1>2, <2>1 DEF MovedAll
<1>5. StoreOf(x, n) /\ Arrival(f, x, n)
  BY <1>2, PartOfStore
<1>6. SelectReverseSwapRequest(q, r)
        = IF {k[1], k[3]} \cap Slashed # {} THEN {} ELSE SelectOneSwapRequest(x)
  BY <1>1, <1>2, Zenon DEF SelectReverseSwapRequest
<1>7. SelectReverseSwapRequest(MovedAll(f, q), Moved(f, r))
        = IF {k[1], k[3]} \cap Slashed # {} THEN {} ELSE SelectOneSwapRequest(MovedAll(f, x))
  BY <1>1, <1>3, <1>4, Zenon DEF SelectReverseSwapRequest
<1>8. SelectOneSwapRequest(MovedAll(f, x)) = MovedAll(f, SelectOneSwapRequest(x))
  BY <1>5, SelectOneMoved
<1>9. MovedAll(f, {}) = {}
  BY DEF MovedAll
<1> QED BY <1>6, <1>7, <1>8, <1>9

(***************************************************************************)
(* A round on the other order does the same to the chain, and takes the    *)
(* same messages from the store.                                           *)
(***************************************************************************)
Rearranged(f, x) == [queue |-> MovedAll(f, x.queue), chain |-> x.chain]

LEMMA RoundMoved ==
  ASSUME NEW n \in Nat, NEW q, StoreOf(q, n), NEW f, Arrival(f, q, n), NEW s, NEW r \in q
  PROVE  Round(MovedAll(f, q), s, Moved(f, r)) = Rearranged(f, Round(q, s, r))
<1>1. PICK opposite, mine, theirs :
        /\ opposite = SelectReverseSwapRequest(q, r)
        /\ mine = ApplySwapRequest(s, r.msg)
        /\ theirs = UNION {ApplySwapRequest(s, o.msg) : o \in opposite}
  OBVIOUS
<1>2. opposite \subseteq q
  BY <1>1, SelectedFromStore
<1>3. SelectReverseSwapRequest(MovedAll(f, q), Moved(f, r)) = MovedAll(f, opposite)
  BY <1>1, SelectReverseMoved
<1>4. ApplySwapRequest(s, Moved(f, r).msg) = mine
  BY <1>1, MovedRequest
<1>5. UNION {ApplySwapRequest(s, o.msg) : o \in MovedAll(f, opposite)} = theirs
  <2>1. \A o \in opposite : Moved(f, o).msg = o.msg
    BY <1>2, MovedRequest
  <2>2. {ApplySwapRequest(s, o.msg) : o \in MovedAll(f, opposite)}
          = {ApplySwapRequest(s, o.msg) : o \in opposite}
    BY <2>1 DEF MovedAll
  <2> QED BY <1>1, <2>2
<1>6. MovedAll(f, opposite) = {} <=> opposite = {}
  BY DEF MovedAll
<1>7. PICK executed : executed = IF opposite = {} THEN mine ELSE IF mine = {} THEN {} ELSE theirs
  OBVIOUS
<1>8. PICK removed : removed = RemovedRequests(r, opposite, mine, theirs)
  OBVIOUS
<1>9. RemovedRequests(Moved(f, r), MovedAll(f, opposite), mine, theirs) = MovedAll(f, removed)
  <2>1. MovedAll(f, {r}) = {Moved(f, r)}
    BY DEF MovedAll
  <2>2. MovedAll(f, {r} \cup opposite) = {Moved(f, r)} \cup MovedAll(f, opposite)
    BY DEF MovedAll
  <2> QED BY <1>6, <1>8, <2>1, <2>2 DEF RemovedRequests
<1>10. removed \subseteq q
  BY <1>2, <1>8 DEF RemovedRequests
<1>11. MovedAll(f, q) \ MovedAll(f, removed) = MovedAll(f, q \ removed)
  BY <1>10, StoreMoved, PartMoved
<1>12. Round(q, s, r) = [queue |-> q \ removed,
                         chain |-> IF executed = {} THEN s ELSE CHOOSE t \in executed : TRUE]
  BY <1>1, <1>7, <1>8, Zenon DEF Round
<1>13. executed = IF MovedAll(f, opposite) = {} THEN mine ELSE IF mine = {} THEN {} ELSE theirs
  BY <1>6, <1>7
<1>14. Round(MovedAll(f, q), s, Moved(f, r))
         = [queue |-> MovedAll(f, q) \ MovedAll(f, removed),
            chain |-> IF executed = {} THEN s ELSE CHOOSE t \in executed : TRUE]
  BY <1>3, <1>4, <1>5, <1>9, <1>13, Zenon DEF Round
<1>15. PICK c : c = IF executed = {} THEN s ELSE CHOOSE t \in executed : TRUE
  OBVIOUS
<1>16. Round(q, s, r) = [queue |-> q \ removed, chain |-> c]
  BY <1>12, <1>15, Zenon
<1>17. Round(MovedAll(f, q), s, Moved(f, r)) = [queue |-> MovedAll(f, q \ removed), chain |-> c]
  BY <1>11, <1>14, <1>15, Zenon
<1> QED BY <1>16, <1>17 DEF Rearranged

\* There is exactly one round that a store which is not empty can take.
LEMMA OneRound ==
  ASSUME NEW n \in Nat, NEW q, StoreOf(q, n), q # {}, NEW s
  PROVE  \E r \in q : SelectOneSwapRequest(q) = {r} /\ Rounds(q, s) = {Round(q, s, r)}
<1>1. PICK x \in SUBSET q : x # {} /\ SelectOneSwapRequest(q) = First(x)
  BY DEF SelectOneSwapRequest
<1>2. Distinct(x)
  BY DEF StoreOf, Distinct, Requests
<1>3. IsFiniteSet(x)
  BY FS_Subset DEF StoreOf
<1>4. PICK r : r \in First(x)
  BY <1>1, <1>2, <1>3, FirstExists
<1>5. First(x) = {r}
  BY <1>2, <1>4, FirstUnique
<1>6. r \in q
  BY <1>4 DEF First
<1> QED BY <1>1, <1>5, <1>6 DEF Rounds

-----------------------------------------------------------------------------
(***************************************************************************)
(* The rounds of a batch.                                                  *)
(***************************************************************************)
Batches(q) == [queue : SUBSET q, chain : Good]

LEMMA NextRoundIn ==
  ASSUME NEW n \in Nat, NEW q, StoreOf(q, n), NEW b \in Batches(q)
  PROVE  /\ NextRound(b) \in Batches(q)
         /\ b.queue # {} => \E r \in b.queue :
               /\ SelectOneSwapRequest(b.queue) = {r}
               /\ NextRound(b) = Round(b.queue, b.chain, r)
<1>1. b.queue \subseteq q /\ b.chain \in Good
  BY DEF Batches
<1>2. CASE b.queue = {}
  BY <1>2 DEF NextRound
<1>3. CASE b.queue # {}
  <2>1. StoreOf(b.queue, n)
    BY <1>1, FS_Subset DEF StoreOf
  <2>2. PICK r \in b.queue : /\ SelectOneSwapRequest(b.queue) = {r}
                             /\ Rounds(b.queue, b.chain) = {Round(b.queue, b.chain, r)}
    BY <1>3, <2>1, OneRound
  <2>3. NextRound(b) = Round(b.queue, b.chain, r)
    BY <1>3, <2>2 DEF NextRound
  <2>4. PICK x : x = Round(b.queue, b.chain, r)
    OBVIOUS
  <2>5. \A o \in b.queue : o.msg \in Messages
    BY <2>1 DEF StoreOf
  <2>6. x.queue \subseteq b.queue /\ x.chain \in Good
    BY <1>1, <2>2, <2>4, <2>5, RoundBacked
  <2>7. x = [queue |-> x.queue, chain |-> x.chain]
    BY <2>4, Zenon DEF Round
  <2>8. x \in Batches(q)
    BY <1>1, <2>6, <2>7 DEF Batches
  <2> QED BY <2>2, <2>3, <2>4, <2>8
<1> QED BY <1>2, <1>3

LEMMA RoundsOfBatch ==
  ASSUME NEW n \in Nat, NEW q, StoreOf(q, n), NEW s \in Good
  PROVE  /\ Cardinality(q) \in Nat
         /\ AfterRounds(q, s)[0] = [queue |-> q, chain |-> s]
         /\ \A i \in 1 .. Cardinality(q) :
               AfterRounds(q, s)[i] = NextRound(AfterRounds(q, s)[i - 1])
         /\ \A i \in 0 .. Cardinality(q) : AfterRounds(q, s)[i] \in Batches(q)
<1>1. PICK N \in Nat : N = Cardinality(q)
  BY FS_CardinalityType DEF StoreOf
<1> DEFINE T == Batches(q)
           base == [queue |-> q, chain |-> s]
           step == [i \in 1 .. N |-> [b \in T |-> NextRound(b)]]
<1>2. base \in T
  BY DEF Batches
<1>3. step \in [1 .. N -> [T -> T]]
  BY NextRoundIn
<1>4. PICK f : Iterates(f, T, base, step, N)
  <2> HIDE DEF T, base, step
  <2> QED BY <1>2, <1>3, Recursion
<1>5. f = [i \in 0 .. N |-> IF i = 0 THEN base ELSE NextRound(f[i-1])]
  <2>1. f \in [0 .. N -> T] /\ f[0] = base
    BY <1>4 DEF Iterates
  <2>2. ASSUME NEW i \in 1 .. N PROVE f[i] = NextRound(f[i-1])
    <3>1. f[i] = step[i][f[i-1]]
      BY <1>4 DEF Iterates
    <3>2. f[i-1] \in T
      BY <2>1
    <3> QED BY <3>1, <3>2
  <2> HIDE DEF T, base
  <2>3. \A i \in 0 .. N : i # 0 => i \in 1 .. N
    OBVIOUS
  <2> QED BY <2>1, <2>2, <2>3
<1> DEFINE A == AfterRounds(q, s)
<1>6. A = [i \in 0 .. N |-> IF i = 0 THEN base ELSE NextRound(A[i-1])]
  BY <1>1, <1>5, Zenon DEF AfterRounds
<1> HIDE DEF A
<1>7. A[0] = base /\ \A i \in 1 .. N : A[i] = NextRound(A[i-1])
  <2> HIDE DEF base
  <2> QED BY <1>6
<1>8. \A i \in 1 .. N : A[i-1] \in T => A[i] \in T
  BY <1>7, NextRoundIn
<1>9. \A i \in 0 .. N : A[i] \in T
  <2>1. A[0] \in T
    BY <1>2, <1>7
  <2> HIDE DEF T
  <2> QED BY <1>8, <2>1, StepInduction
<1> QED BY <1>1, <1>7, <1>9 DEF A

LEMMA NextRoundMoved ==
  ASSUME NEW n \in Nat, NEW q, StoreOf(q, n), NEW f, Arrival(f, q, n), NEW b \in Batches(q)
  PROVE  NextRound(Rearranged(f, b)) = Rearranged(f, NextRound(b))
<1>1. b.queue \subseteq q /\ b.chain \in Good
  BY DEF Batches
<1>2. PICK m : m = MovedAll(f, b.queue)
  OBVIOUS
<1>3. Rearranged(f, b).queue = m /\ Rearranged(f, b).chain = b.chain
  BY <1>2 DEF Rearranged
<1>4. m = {} <=> b.queue = {}
  BY <1>2 DEF MovedAll
<1>5. CASE b.queue = {}
  BY <1>3, <1>4, <1>5 DEF NextRound
<1>6. CASE b.queue # {}
  <2>1. StoreOf(b.queue, n) /\ Arrival(f, b.queue, n)
    BY <1>1, PartOfStore
  <2>2. PICK r \in b.queue : /\ SelectOneSwapRequest(b.queue) = {r}
                             /\ NextRound(b) = Round(b.queue, b.chain, r)
    BY <1>6, NextRoundIn
  <2>3. SelectOneSwapRequest(m) = {Moved(f, r)}
    <3>1. SelectOneSwapRequest(m) = MovedAll(f, {r})
      BY <1>2, <2>1, <2>2, SelectOneMoved
    <3> QED BY <3>1 DEF MovedAll
  <2>4. Rounds(m, b.chain) = {Round(m, b.chain, Moved(f, r))}
    BY <2>3 DEF Rounds
  <2>5. Round(m, b.chain, Moved(f, r)) = Rearranged(f, Round(b.queue, b.chain, r))
    BY <1>2, <2>1, RoundMoved
  <2>6. NextRound(Rearranged(f, b)) = Round(m, b.chain, Moved(f, r))
    BY <1>3, <1>4, <1>6, <2>4 DEF NextRound
  <2> QED BY <2>2, <2>5, <2>6
<1> QED BY <1>5, <1>6

LEMMA MovedStore ==
  ASSUME NEW n \in Nat, NEW q, StoreOf(q, n), NEW f, Arrival(f, q, n)
  PROVE  StoreOf(MovedAll(f, q), n) /\ Cardinality(MovedAll(f, q)) = Cardinality(q)
<1>1. IsFiniteSet(q)
  BY DEF StoreOf
<1>2. PICK g : g = [r \in q |-> Moved(f, r)]
  OBVIOUS
<1>3. \A r, o \in q : Moved(f, r) = Moved(f, o) => r = o
  BY StoreMoved
<1>4. g \in Bijection(q, MovedAll(f, q))
  <2>1. g \in [q -> MovedAll(f, q)]
    BY <1>2 DEF MovedAll
  <2>2. \A r, o \in q : g[r] = g[o] => r = o
    BY <1>2, <1>3
  <2>3. \A y \in MovedAll(f, q) : \E r \in q : g[r] = y
    BY <1>2 DEF MovedAll
  <2> QED BY <2>1, <2>2, <2>3 DEF Bijection, Injection, Surjection, IsInjective
<1>5. ExistsBijection(q, MovedAll(f, q))
  BY <1>4 DEF ExistsBijection
<1>6. IsFiniteSet(MovedAll(f, q)) /\ Cardinality(MovedAll(f, q)) = Cardinality(q)
  BY <1>1, <1>5, FS_Bijection
<1>7. MovedAll(f, q) \subseteq [index : 1 .. n, msg : Messages]
  BY MovedRequest DEF MovedAll
<1> QED BY <1>6, <1>7, StoreMoved DEF StoreOf, Distinct

(***************************************************************************)
(* The chain that a batch leaves does not depend on the order of arrival.  *)
(***************************************************************************)
LEMMA OutcomeMoved ==
  ASSUME NEW n \in Nat, NEW q, StoreOf(q, n), NEW f, Arrival(f, q, n), NEW s \in Good
  PROVE  BatchOutcome(MovedAll(f, q), s) = BatchOutcome(q, s)
<1>1. PICK N \in Nat : N = Cardinality(q) /\ N = Cardinality(MovedAll(f, q))
  BY MovedStore, RoundsOfBatch
<1>2. PICK A, B : A = AfterRounds(q, s) /\ B = AfterRounds(MovedAll(f, q), s)
  OBVIOUS
<1>3. /\ A[0] = [queue |-> q, chain |-> s] /\ \A i \in 1 .. N : A[i] = NextRound(A[i - 1])
      /\ \A i \in 0 .. N : A[i] \in Batches(q)
  <2>1. /\ AfterRounds(q, s)[0] = [queue |-> q, chain |-> s]
        /\ \A i \in 1 .. Cardinality(q) :
              AfterRounds(q, s)[i] = NextRound(AfterRounds(q, s)[i - 1])
        /\ \A i \in 0 .. Cardinality(q) : AfterRounds(q, s)[i] \in Batches(q)
    BY RoundsOfBatch
  <2> QED BY <1>1, <1>2, <2>1
<1>4. /\ B[0] = [queue |-> MovedAll(f, q), chain |-> s]
      /\ \A i \in 1 .. N : B[i] = NextRound(B[i - 1])
  <2>1. StoreOf(MovedAll(f, q), n)
    BY MovedStore
  <2> QED BY <1>1, <1>2, <2>1, RoundsOfBatch
<1> DEFINE S == {i \in Nat : i <= N => B[i] = Rearranged(f, A[i])}
<1>5. 0 \in S
  BY <1>3, <1>4 DEF Rearranged
<1>6. ASSUME NEW i \in Nat, i \in S PROVE i + 1 \in S
  <2>1. SUFFICES ASSUME i + 1 <= N PROVE B[i + 1] = Rearranged(f, A[i + 1])
    OBVIOUS
  <2>2. i + 1 \in 1 .. N /\ (i + 1) - 1 = i /\ i \in 0 .. N
    BY <2>1
  <2>3. B[i] = Rearranged(f, A[i])
    BY <1>6, <2>1
  <2>4. B[i + 1] = NextRound(B[i]) /\ A[i + 1] = NextRound(A[i]) /\ A[i] \in Batches(q)
    BY <1>3, <1>4, <2>2
  <2> QED BY <2>3, <2>4, NextRoundMoved
<1>7. Nat \subseteq S
  <2> HIDE DEF S
  <2> QED BY <1>5, <1>6, SetInduction
<1>8. B[N] = Rearranged(f, A[N])
  BY <1>7
<1>9. B[N].chain = A[N].chain
  BY <1>8 DEF Rearranged
<1> QED BY <1>1, <1>2, <1>9 DEF BatchOutcome

(***************************************************************************)
(* What EndBlocker does to the pools and to every wallet does not depend   *)
(* on the order in which the transactions of different senders arrived     *)
(* (the keys of types/keys.go), for any requests, pools and fees.          *)
(***************************************************************************)
THEOREM ArrivalOrderIrrelevantHolds == Spec => []ArrivalOrderIrrelevant
<1>1. ASSUME IInv, NEW f \in Arrivals
      PROVE  BatchOutcome({[r EXCEPT !.index = f[r.index]] : r \in queue}, Chain)
               = BatchOutcome(queue, Chain)
  <2>1. StoreOf(queue, lastIndex) /\ Chain \in Good /\ lastIndex \in Nat
    BY <1>1, AmmAssumption DEF IInv
  <2>2. Arrival(f, queue, lastIndex)
    BY <1>1 DEF Arrivals, Arrival
  <2>3. MovedAll(f, queue) = {[r EXCEPT !.index = f[r.index]] : r \in queue}
    BY Zenon DEF MovedAll, Moved
  <2>4. BatchOutcome(MovedAll(f, queue), Chain) = BatchOutcome(queue, Chain)
    BY <2>1, <2>2, OutcomeMoved
  <2> QED BY <2>3, <2>4
<1>2. IInv => ArrivalOrderIrrelevant
  BY <1>1 DEF ArrivalOrderIrrelevant
<1> QED BY <1>2, InvariantHolds, PTL
=============================================================================
