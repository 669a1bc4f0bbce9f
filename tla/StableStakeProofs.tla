------------------------- MODULE StableStakeProofs -------------------------
(***************************************************************************)
(* Proofs about x/stablestake for every number of vaults, depositors and   *)
(* positions, all amounts, rates and block times, and every retention of   *)
(* interest data.                                                          *)
(***************************************************************************)
EXTENDS StableStake, ElysMathTheorems

(***************************************************************************)
(* Before a vault exists nothing is recorded under its number, and nothing *)
(* under a denom that no vault has: AddPool starts from a clean ledger.    *)
(***************************************************************************)
CleanBeforePool ==
    /\ \A p \in PoolIds : ~ HasPool(p) =>
         /\ \A b \in Positions : debts[p][b] = NoDebt
         /\ writtenOff[p] = 0
         /\ DOMAIN interest[p] = {}
    /\ \A d \in Denoms : ~ HasPoolByDenom(d) =>
         cash[d] = 0 /\ \A a \in AmmPools : liabilities[a][d] = 0

(***************************************************************************)
(* The cumulative rate is recorded for every block since the vault's       *)
(* first, so the next block always finds its predecessor's entry.          *)
(***************************************************************************)
InterestUpToDate ==
    \A p \in PoolIds :
        /\ DOMAIN interest[p] # {} => height \in DOMAIN interest[p]
        /\ \A h \in DOMAIN interest[p] : h <= height

IInv ==
    /\ TypeOK
    /\ OneVaultPerDenom
    /\ CleanBeforePool
    /\ DebtConsistent
    /\ VaultAccounting
    /\ LiabilitiesMatchDebts
    /\ SharesMatchSupply
    /\ InterestUpToDate
    /\ CumulativeRateMonotone

(***************************************************************************)
(* What a position owes is never negative, so the sums over positions are  *)
(* sums of naturals.                                                       *)
(***************************************************************************)
LEMMA OwedTypes ==
  ASSUME TypeOK, DebtConsistent, NEW p \in PoolIds
  PROVE  /\ \A b \in Positions : TotalLiabilities(debts[p][b]) \in Nat
         /\ Owed(p) \in [1 .. NumPositions -> Nat]
         /\ \A a \in AmmPools : OwedThrough(p, a) \in [1 .. NumPositions -> Nat]
<1>1. ASSUME NEW b \in Positions
      PROVE  TotalLiabilities(debts[p][b]) \in Nat
  <2>1. debts[p][b] \in Debt /\ debts[p][b].paid <= debts[p][b].stacked
    BY DEF TypeOK, DebtConsistent
  <2> QED BY <2>1 DEF TotalLiabilities, Debt
<1> QED BY <1>1 DEF Owed, OwedThrough, Positions

(***************************************************************************)
(* The invariant holds before the first vault exists.                      *)
(***************************************************************************)
LEMMA InitIInv == Init => IInv
<1> SUFFICES ASSUME Init PROVE IInv
  OBVIOUS
<1> USE SizesAssumption, NamesAssumption
<1>1. NoPool \in Pool /\ NoDebt \in Debt
  BY DEF NoPool, NoDebt, Pool, Debt
<1>2. TypeOK
  BY <1>1 DEF Init, TypeOK
<1>3. \A p \in PoolIds : ~ HasPool(p)
  BY DEF Init, HasPool, NoPool
<1>4. OneVaultPerDenom /\ VaultAccounting /\ LiabilitiesMatchDebts
  BY <1>3 DEF OneVaultPerDenom, VaultAccounting, LiabilitiesMatchDebts
<1>5. CleanBeforePool
  BY DEF CleanBeforePool, Init
<1>6. DebtConsistent
  BY DEF DebtConsistent, Init, NoDebt
<1>7. SharesMatchSupply
  <2> SUFFICES ASSUME NEW p \in PoolIds PROVE supply[p] = Sum(shares[p], NumBonders)
    BY DEF SharesMatchSupply
  <2>1. shares[p] \in [1 .. NumBonders -> Int] /\ \A u \in 1 .. NumBonders : shares[p][u] = 0
    BY DEF Init, Bonders
  <2> QED BY <2>1, SumZero DEF Init
<1>8. InterestUpToDate /\ CumulativeRateMonotone
  BY DEF InterestUpToDate, CumulativeRateMonotone, Init
<1> QED BY <1>2, <1>4, <1>5, <1>6, <1>7, <1>8 DEF IInv

(***************************************************************************)
(* The part of the invariant that speaks of shares and rates only.         *)
(***************************************************************************)
LEMMA LedgersUntouched ==
  ASSUME IInv, UNCHANGED <<height, supply, shares, interest>>
  PROVE  SharesMatchSupply' /\ InterestUpToDate' /\ CumulativeRateMonotone'
BY DEF IInv, SharesMatchSupply, InterestUpToDate, CumulativeRateMonotone

(***************************************************************************)
(* A step that replaces one debt keeps the invariant when the vault's net  *)
(* amount grows by what its cash, the debt and the write-offs grow by, and *)
(* the AMM pool's liabilities by what the debt grows by.                   *)
(***************************************************************************)
LEMMA DebtStep ==
  ASSUME IInv,
         NEW p \in PoolIds, HasPool(p), NEW b \in Positions,
         NEW debt \in Debt, NEW i \in Nat, NEW delta \in Int, NEW c \in Int, NEW w \in Nat,
         debt.paid <= debt.stacked,
         debt.borrowed = 0 => debt.stacked = debt.paid,
         debt.lastBlock <= height, debt.lastTime <= time,
         delta = TotalLiabilities(debt) - TotalLiabilities(debts[p][b]),
         i = c + w + delta,
         SetDebt(b, p, debt, i, delta),
         cash[pools[p].denom] + c >= 0,
         cash' = [cash EXCEPT ![pools[p].denom] = @ + c],
         writtenOff' = [writtenOff EXCEPT ![p] = @ + w],
         UNCHANGED <<height, time, supply, shares, interest>>
  PROVE  IInv'
<1> DEFINE D == pools[p].denom
           A == AmmPoolOf[b]
<1>0. TypeOK /\ DebtConsistent /\ OneVaultPerDenom /\ CleanBeforePool
      /\ VaultAccounting /\ LiabilitiesMatchDebts
  BY DEF IInv
<1>1. /\ D \in Denoms /\ A \in AmmPools
      /\ debts' = [debts EXCEPT ![p][b] = debt]
      /\ pools' = [pools EXCEPT ![p].net = @ + i]
      /\ liabilities[A][D] + delta >= 0
      /\ liabilities' = [liabilities EXCEPT ![A][D] = @ + delta]
  BY <1>0, NamesAssumption DEF SetDebt, HasPool, TypeOK, Pool
<1>2. /\ pools' \in [PoolIds -> Pool]
      /\ \A q \in PoolIds : pools'[q].denom = pools[q].denom
      /\ pools'[p].net = pools[p].net + i
      /\ \A q \in PoolIds : q # p => pools'[q] = pools[q]
  <2>1. pools[p] \in Pool /\ pools \in [PoolIds -> Pool]
    BY <1>0 DEF TypeOK
  <2> DEFINE new == [pools[p] EXCEPT !.net = @ + i]
  <2>2. new \in Pool /\ new.denom = D /\ new.net = pools[p].net + i
    BY <2>1 DEF Pool
  <2>3. pools' = [pools EXCEPT ![p] = new]
    BY <1>1
  <2> HIDE DEF new
  <2>4. pools'[p] = new /\ \A q \in PoolIds : q # p => pools'[q] = pools[q]
    BY <2>1, <2>3
  <2>5. pools' \in [PoolIds -> Pool]
    BY <2>1, <2>2, <2>3
  <2> QED BY <2>2, <2>4, <2>5
<1>3. /\ debts' \in [PoolIds -> [Positions -> Debt]]
      /\ debts'[p][b] = debt
      /\ \A q \in PoolIds, x \in Positions : q # p \/ x # b => debts'[q][x] = debts[q][x]
  BY <1>0, <1>1 DEF TypeOK
<1>4. /\ cash' \in [Denoms -> Nat]
      /\ cash'[D] = cash[D] + c
      /\ \A d \in Denoms : d # D => cash'[d] = cash[d]
  BY <1>0, <1>1 DEF TypeOK
<1>5. /\ liabilities' \in [AmmPools -> [Denoms -> Nat]]
      /\ liabilities'[A][D] = liabilities[A][D] + delta
      /\ \A a \in AmmPools, d \in Denoms : a # A \/ d # D => liabilities'[a][d] = liabilities[a][d]
  <2> DEFINE row == [liabilities[A] EXCEPT ![D] = @ + delta]
  <2>1. liabilities \in [AmmPools -> [Denoms -> Nat]] /\ liabilities[A] \in [Denoms -> Nat]
    BY <1>0, <1>1 DEF TypeOK
  <2>2. /\ row \in [Denoms -> Nat]
        /\ row[D] = liabilities[A][D] + delta
        /\ \A d \in Denoms : d # D => row[d] = liabilities[A][d]
    <3> HIDE DEF D, A
    <3> QED BY <1>1, <2>1
  <2>3. liabilities' = [liabilities EXCEPT ![A] = row]
    BY <1>1
  <2> HIDE DEF row, D, A
  <2>4. liabilities'[A] = row /\ \A a \in AmmPools : a # A => liabilities'[a] = liabilities[a]
    BY <1>1, <2>1, <2>3
  <2>5. liabilities' \in [AmmPools -> [Denoms -> Nat]]
    BY <2>1, <2>2, <2>3
  <2> QED BY <2>2, <2>4, <2>5
<1>6. /\ writtenOff' \in [PoolIds -> Nat]
      /\ writtenOff'[p] = writtenOff[p] + w
      /\ \A q \in PoolIds : q # p => writtenOff'[q] = writtenOff[q]
  BY <1>0 DEF TypeOK
<1>7. TypeOK'
  BY <1>0, <1>2, <1>3, <1>4, <1>5, <1>6 DEF TypeOK
<1>8. OneVaultPerDenom'
  BY <1>0, <1>2 DEF OneVaultPerDenom, HasPool
<1>9. DebtConsistent'
  <2> SUFFICES ASSUME NEW q \in PoolIds, NEW x \in Positions
               PROVE  /\ debts'[q][x].paid <= debts'[q][x].stacked
                      /\ debts'[q][x].borrowed = 0 => debts'[q][x].stacked = debts'[q][x].paid
                      /\ debts'[q][x].lastBlock <= height' /\ debts'[q][x].lastTime <= time'
    BY DEF DebtConsistent
  <2>1. CASE q = p /\ x = b
    BY <1>3, <2>1
  <2>2. CASE q # p \/ x # b
    BY <1>0, <1>3, <2>2 DEF DebtConsistent
  <2> QED BY <2>1, <2>2
<1>10. CleanBeforePool'
  <2>1. \A q \in PoolIds : HasPool(q)' <=> HasPool(q)
    BY <1>2 DEF HasPool
  <2>2. \A d \in Denoms : HasPoolByDenom(d)' <=> HasPoolByDenom(d)
    BY <1>2 DEF HasPoolByDenom
  <2>3. HasPoolByDenom(D)
    BY DEF HasPoolByDenom
  <2>4. \A q \in PoolIds : ~ HasPool(q) => q # p
    OBVIOUS
  <2>5. \A d \in Denoms : ~ HasPoolByDenom(d) => d # D
    BY <2>3
  <2>6. \A q \in PoolIds : ~ HasPool(q)' =>
          (\A x \in Positions : debts'[q][x] = NoDebt) /\ writtenOff'[q] = 0 /\ DOMAIN interest'[q] = {}
    <3> SUFFICES ASSUME NEW q \in PoolIds, ~ HasPool(q)
                 PROVE  (\A x \in Positions : debts'[q][x] = NoDebt) /\ writtenOff'[q] = 0 /\ DOMAIN interest'[q] = {}
      BY <2>1
    <3>1. q # p /\ (\A x \in Positions : debts[q][x] = NoDebt) /\ writtenOff[q] = 0 /\ DOMAIN interest[q] = {}
      BY <1>0, <2>4 DEF CleanBeforePool
    <3> QED BY <1>3, <1>6, <3>1
  <2>7. \A d \in Denoms : ~ HasPoolByDenom(d)' =>
          cash'[d] = 0 /\ \A a \in AmmPools : liabilities'[a][d] = 0
    <3> SUFFICES ASSUME NEW d \in Denoms, ~ HasPoolByDenom(d)
                 PROVE  cash'[d] = 0 /\ \A a \in AmmPools : liabilities'[a][d] = 0
      BY <2>2
    <3>1. d # D /\ cash[d] = 0 /\ \A a \in AmmPools : liabilities[a][d] = 0
      BY <1>0, <2>5 DEF CleanBeforePool
    <3> QED BY <1>4, <1>5, <3>1
  <2> QED BY <2>6, <2>7, Zenon DEF CleanBeforePool
<1>o. \A q \in PoolIds, x \in Positions :
        TotalLiabilities(debts[q][x]) \in Int /\ TotalLiabilities(debts'[q][x]) \in Int
  <2>1. \A q \in PoolIds, x \in Positions :
          /\ debts[q][x] \in Debt /\ debts[q][x].paid <= debts[q][x].stacked
          /\ debts'[q][x] \in Debt /\ debts'[q][x].paid <= debts'[q][x].stacked
    BY <1>0, <1>7, <1>9 DEF TypeOK, DebtConsistent
  <2> QED BY <2>1 DEF TotalLiabilities, Debt
<1>11. VaultAccounting'
  <2> SUFFICES ASSUME NEW q \in PoolIds, HasPool(q)'
               PROVE  pools'[q].net = cash'[pools'[q].denom] + Sum(Owed(q)', NumPositions) + writtenOff'[q]
    BY DEF VaultAccounting
  <2>1. HasPool(q) /\ pools[q].denom \in Denoms /\ pools'[q].denom = pools[q].denom
    BY <1>0, <1>2 DEF HasPool, TypeOK, Pool
  <2>2. pools[q].net = cash[pools[q].denom] + Sum(Owed(q), NumPositions) + writtenOff[q]
    BY <1>0, <2>1 DEF VaultAccounting
  <2>3. CASE q # p
    <3>1. pools[q].denom # D
      BY <1>0, <2>1, <2>3 DEF OneVaultPerDenom
    <3>2. Owed(q)' = Owed(q)
      BY <1>3, <2>3 DEF Owed
    <3> QED BY <1>2, <1>4, <1>6, <2>1, <2>2, <2>3, <3>1, <3>2
  <2>4. CASE q = p
    <3> DEFINE G == Owed(p)
               H == Owed(p)'
    <3>1. G \in [1 .. NumPositions -> Int] /\ H \in [1 .. NumPositions -> Int]
      BY <1>o DEF Owed, Positions
    <3>2. G[b] = TotalLiabilities(debts[p][b]) /\ H[b] = TotalLiabilities(debt)
      BY <1>3 DEF Owed
    <3>3. \A x \in 1 .. NumPositions : x # b => H[x] = G[x]
      BY <1>3 DEF Owed, Positions
    <3>4. Sum(G, NumPositions) \in Int /\ G[b] \in Int /\ H[b] \in Int /\ b \in 1 .. NumPositions
      <4> HIDE DEF G, H
      <4> QED BY <3>1, SizesAssumption, SumInt DEF Positions
    <3>5. Sum(H, NumPositions) = Sum(G, NumPositions) + H[b] - G[b]
      <4> HIDE DEF G, H
      <4> QED BY <3>1, <3>3, <3>4, SizesAssumption, SumUpdate, Zenon
    <3>6. pools[p].net \in Nat /\ cash[D] \in Nat /\ writtenOff[p] \in Nat
      BY <1>0, <1>1 DEF TypeOK, Pool
    <3>7. Sum(H, NumPositions) = Sum(G, NumPositions) + delta
      <4> HIDE DEF G, H
      <4> QED BY <3>2, <3>4, <3>5
    <3>8. pools[p].net = cash[D] + Sum(G, NumPositions) + writtenOff[p]
      BY <2>2, <2>4
    <3>9. pools[p].net + i = (cash[D] + c) + Sum(H, NumPositions) + (writtenOff[p] + w)
      <4> HIDE DEF G, H, D
      <4> QED BY <3>4, <3>6, <3>7, <3>8
    <3> QED BY <1>2, <1>4, <1>6, <2>4, <3>9
  <2> QED BY <2>3, <2>4
<1>12. LiabilitiesMatchDebts'
  <2> SUFFICES ASSUME NEW q \in PoolIds, NEW a \in AmmPools, HasPool(q)'
               PROVE  liabilities'[a][pools'[q].denom] = Sum(OwedThrough(q, a)', NumPositions)
    BY DEF LiabilitiesMatchDebts
  <2>1. HasPool(q) /\ pools[q].denom \in Denoms /\ pools'[q].denom = pools[q].denom
    BY <1>0, <1>2 DEF HasPool, TypeOK, Pool
  <2>2. liabilities[a][pools[q].denom] = Sum(OwedThrough(q, a), NumPositions)
    BY <1>0, <2>1 DEF LiabilitiesMatchDebts
  <2>3. CASE q # p \/ a # A
    <3>1. a # A \/ pools[q].denom # D
      BY <1>0, <2>1, <2>3 DEF OneVaultPerDenom
    <3>2. OwedThrough(q, a)' = OwedThrough(q, a)
      BY <1>3, <2>3 DEF OwedThrough
    <3> QED BY <1>5, <2>1, <2>2, <3>1, <3>2
  <2>4. CASE q = p /\ a = A
    <3> DEFINE G == OwedThrough(p, A)
               H == OwedThrough(p, A)'
    <3>1. G \in [1 .. NumPositions -> Int] /\ H \in [1 .. NumPositions -> Int]
      BY <1>o DEF OwedThrough, Positions
    <3>2. G[b] = TotalLiabilities(debts[p][b]) /\ H[b] = TotalLiabilities(debt)
      BY <1>3 DEF OwedThrough
    <3>3. \A x \in 1 .. NumPositions : x # b => H[x] = G[x]
      BY <1>3 DEF OwedThrough, Positions
    <3>4. Sum(G, NumPositions) \in Int /\ G[b] \in Int /\ H[b] \in Int /\ b \in 1 .. NumPositions
      <4> HIDE DEF G, H
      <4> QED BY <3>1, SizesAssumption, SumInt DEF Positions
    <3>5. Sum(H, NumPositions) = Sum(G, NumPositions) + H[b] - G[b]
      <4> HIDE DEF G, H
      <4> QED BY <3>1, <3>3, <3>4, SizesAssumption, SumUpdate, Zenon
    <3>6. Sum(H, NumPositions) = Sum(G, NumPositions) + delta
      <4> HIDE DEF G, H
      <4> QED BY <3>2, <3>4, <3>5
    <3>7. liabilities[A][D] = Sum(G, NumPositions)
      BY <2>2, <2>4
    <3>8. liabilities'[A][D] = Sum(H, NumPositions)
      BY <1>5, <3>6, <3>7
    <3> QED BY <1>2, <2>4, <3>8
  <2> QED BY <2>3, <2>4
<1> QED BY <1>7, <1>8, <1>9, <1>10, <1>11, <1>12, LedgersUntouched DEF IInv

(***************************************************************************)
(* Accrued interest is natural, and there is none on a debt without        *)
(* principal.                                                              *)
(***************************************************************************)
LEMMA NewInterestNat ==
  ASSUME IInv, NEW p \in PoolIds, NEW b \in Positions, NEW i \in NewInterest(b, p)
  PROVE  i \in Nat /\ (debts[p][b].borrowed = 0 => i = 0)
<1> DEFINE debt == getDebt(b, p)
           start == debt.lastBlock
           elapsed == time - debt.lastTime
           blocks == interest[p]
<1>1. /\ debts[p][b] \in Debt /\ pools[p] \in Pool
      /\ height \in Nat /\ time \in Nat
      /\ \A h \in DOMAIN blocks : blocks[h] \in Nat
      /\ DOMAIN blocks \subseteq Nat
      /\ debts[p][b].lastBlock <= height /\ debts[p][b].lastTime <= time
  BY DEF IInv, TypeOK, DebtConsistent
<1>2. /\ debt.borrowed \in Nat /\ start \in Nat /\ start <= height /\ elapsed \in Nat
      /\ debt.borrowed = debts[p][b].borrowed
  BY <1>1 DEF getDebt, NoDebt, Debt, IInv, DebtConsistent
<1>3. i \in GetInterestForPool(p, start, debt.lastTime, debt.borrowed)
  BY DEF NewInterest
<1>4. RateOne * Year \in Nat \ {0}
  BY UnitsAssumption
<1> HIDE DEF debt
<1>5. CASE start = height
  BY <1>3, <1>5 DEF GetInterestForPool
<1>6. ASSUME NEW x \in Int, NEW d \in Nat \ {0}, i \in RoundInt(debt.borrowed * x, d)
      PROVE  i \in Nat /\ (debts[p][b].borrowed = 0 => i = 0)
  <2>1. debt.borrowed * x \in Int
    BY <1>2
  <2>2. i \in Nat
    BY <1>6, <2>1, RoundIntBound
  <2>3. ASSUME debts[p][b].borrowed = 0 PROVE i = 0
    <3>1. debt.borrowed * x = 0
      BY <1>2, <2>3
    <3> QED BY <1>6, <3>1, RoundIntZero
  <2> QED BY <2>2, <2>3
<1>7. CASE start # height /\ {start, height} \subseteq DOMAIN blocks
  <2>1. i \in RoundInt(debt.borrowed * ((blocks[height] - blocks[start]) * elapsed),
                       (height - start) * (RateOne * Year))
    BY <1>3, <1>7 DEF GetInterestForPool
  <2>2. (blocks[height] - blocks[start]) * elapsed \in Int
    BY <1>1, <1>2, <1>7
  <2>3. (height - start) * (RateOne * Year) \in Nat \ {0}
    <3>1. height - start \in Nat \ {0}
      BY <1>1, <1>2, <1>7
    <3> QED BY <1>4, <3>1
  <2> HIDE DEF start, elapsed, blocks
  <2> QED BY <1>6, <2>1, <2>2, <2>3
<1>8. CASE /\ start # height /\ ~ ({start, height} \subseteq DOMAIN blocks)
           /\ start \notin DOMAIN blocks /\ height \in DOMAIN blocks
           /\ \A h \in DOMAIN blocks : h > start
  <2>1. i \in RoundInt(debt.borrowed * (blocks[height] * elapsed),
                       (height - start + 1) * (RateOne * Year))
    BY <1>3, <1>8 DEF GetInterestForPool
  <2>2. blocks[height] * elapsed \in Int
    BY <1>1, <1>2, <1>8
  <2>3. (height - start + 1) * (RateOne * Year) \in Nat \ {0}
    <3>1. height - start + 1 \in Nat \ {0}
      BY <1>1, <1>2, <1>8
    <3> QED BY <1>4, <3>1
  <2> HIDE DEF start, elapsed, blocks
  <2> QED BY <1>6, <2>1, <2>2, <2>3
<1>9. CASE /\ start # height /\ ~ ({start, height} \subseteq DOMAIN blocks)
           /\ ~ (/\ start \notin DOMAIN blocks /\ height \in DOMAIN blocks
                 /\ \A h \in DOMAIN blocks : h > start)
  <2>1. i \in RoundInt(debt.borrowed * (pools[p].rate * elapsed), RateOne * Year)
    BY <1>3, <1>9 DEF GetInterestForPool
  <2>2. pools[p].rate * elapsed \in Int
    BY <1>1, <1>2 DEF Pool
  <2> HIDE DEF start, elapsed, blocks
  <2> QED BY <1>4, <1>6, <2>1, <2>2
<1> QED BY <1>5, <1>7, <1>8, <1>9

(***************************************************************************)
(* The debt that UpdateInterestStacked stores.                             *)
(***************************************************************************)
LEMMA AccruedDebt ==
  ASSUME IInv, NEW p \in PoolIds, NEW b \in Positions, NEW i \in NewInterest(b, p)
  PROVE  LET debt == UpdateInterestStacked(b, p, i)
         IN  /\ debt \in Debt
             /\ debt.lastBlock = height /\ debt.lastTime = time
             /\ debt.paid <= debt.stacked
             /\ debt.borrowed = 0 => debt.stacked = debt.paid
             /\ TotalLiabilities(debt) = TotalLiabilities(debts[p][b]) + i
             /\ TotalLiabilities(debts[p][b]) \in Nat
<1> DEFINE old == debts[p][b]
           debt == UpdateInterestStacked(b, p, i)
<1>1. /\ old \in Debt /\ height \in Nat /\ time \in Nat
      /\ old.paid <= old.stacked
      /\ old.borrowed = 0 => old.stacked = old.paid
  BY DEF IInv, TypeOK, DebtConsistent
<1>2. i \in Nat /\ (old.borrowed = 0 => i = 0)
  BY NewInterestNat
<1>3. /\ debt \in Debt /\ debt.lastBlock = height /\ debt.lastTime = time
      /\ debt.borrowed = old.borrowed /\ debt.stacked = old.stacked + i /\ debt.paid = old.paid
  <2> DEFINE base == getDebt(b, p)
  <2>1. base \in Debt /\ base.borrowed = old.borrowed /\ base.stacked = old.stacked /\ base.paid = old.paid
    <3>1. CASE old # NoDebt
      <4>1. base = old
        BY <3>1 DEF getDebt
      <4> QED BY <1>1, <4>1
    <3>2. CASE old = NoDebt
      <4>1. base = [NoDebt EXCEPT !.lastBlock = height, !.lastTime = time] /\ old = NoDebt
        BY <1>1, <3>2 DEF getDebt
      <4> QED BY <1>1, <4>1 DEF NoDebt, Debt
    <3> QED BY <3>1, <3>2
  <2>2. debt = [base EXCEPT !.stacked = base.stacked + i, !.lastBlock = height, !.lastTime = time]
    BY DEF UpdateInterestStacked
  <2> HIDE DEF base, debt
  <2>3. base.stacked + i \in Nat
    BY <1>2, <2>1 DEF Debt
  <2>4. debt \in Debt
    BY <1>1, <2>1, <2>2, <2>3 DEF Debt
  <2>5. /\ debt.lastBlock = height /\ debt.lastTime = time /\ debt.stacked = base.stacked + i
        /\ debt.borrowed = base.borrowed /\ debt.paid = base.paid
    BY <2>1, <2>2 DEF Debt
  <2> QED BY <2>1, <2>4, <2>5
<1> HIDE DEF debt
<1>4. old.borrowed \in Nat /\ old.stacked \in Nat /\ old.paid \in Nat
  BY <1>1 DEF Debt
<1>5. /\ debt.paid <= debt.stacked
      /\ debt.borrowed = 0 => debt.stacked = debt.paid
      /\ TotalLiabilities(debt) = TotalLiabilities(old) + i
      /\ TotalLiabilities(old) \in Nat
  BY <1>1, <1>2, <1>3, <1>4 DEF TotalLiabilities
<1> QED BY <1>3, <1>5, Zenon DEF debt

(***************************************************************************)
(* An operation that moves no coins adds nothing to the cash and the       *)
(* write-offs: the form in which DebtStep takes it.                        *)
(***************************************************************************)
LEMMA SameCash ==
  ASSUME IInv, NEW p \in PoolIds, HasPool(p)
  PROVE  /\ pools[p].denom \in Denoms /\ cash[pools[p].denom] \in Nat
         /\ cash = [cash EXCEPT ![pools[p].denom] = @ + 0]
         /\ writtenOff = [writtenOff EXCEPT ![p] = @ + 0]
<1>1. pools[p].denom \in Denoms
  BY DEF IInv, TypeOK, Pool, HasPool
<1>2. cash \in [Denoms -> Nat] /\ writtenOff \in [PoolIds -> Nat]
  BY DEF IInv, TypeOK
<1> QED BY <1>1, <1>2

(***************************************************************************)
(* Bringing a debt up to date keeps the invariant.                         *)
(***************************************************************************)
LEMMA UpdateInterestIInv ==
  ASSUME IInv, NEW p \in PoolIds, NEW b \in Positions, UpdateInterest(b, p)
  PROVE  IInv'
<1>1. PICK i \in NewInterest(b, p) : SetDebt(b, p, UpdateInterestStacked(b, p, i), i, i)
  BY DEF UpdateInterest
<1> DEFINE debt == UpdateInterestStacked(b, p, i)
<1>2. HasPool(p) /\ UNCHANGED <<height, time, cash, supply, shares, interest, writtenOff>>
  BY DEF UpdateInterest
<1>3. i \in Nat /\ height \in Nat /\ time \in Nat
  BY NewInterestNat DEF IInv, TypeOK
<1>4. /\ debt \in Debt
      /\ debt.lastBlock <= height /\ debt.lastTime <= time
      /\ debt.paid <= debt.stacked
      /\ debt.borrowed = 0 => debt.stacked = debt.paid
      /\ i = TotalLiabilities(debt) - TotalLiabilities(debts[p][b])
  BY <1>3, AccruedDebt
<1> DEFINE c == 0
<1>5. /\ cash[pools[p].denom] + c >= 0
      /\ cash' = [cash EXCEPT ![pools[p].denom] = @ + c]
      /\ writtenOff' = [writtenOff EXCEPT ![p] = @ + 0]
  BY <1>2, SameCash
<1>6. c \in Int /\ i \in Int /\ i = c + 0 + i
  BY <1>3
<1> HIDE DEF debt, c
<1>7. SetDebt(b, p, debt, i, i)
  BY <1>1 DEF debt
<1> QED BY <1>2, <1>3, <1>4, <1>5, <1>6, <1>7, DebtStep

(***************************************************************************)
(* Borrow keeps the invariant.                                             *)
(***************************************************************************)
LEMMA BorrowIInv ==
  ASSUME IInv, NEW p \in PoolIds, NEW b \in Positions, NEW amount \in LoanAmounts,
         Borrow(b, p, amount)
  PROVE  IInv'
<1>1. PICK i \in NewInterest(b, p) :
        SetDebt(b, p, [UpdateInterestStacked(b, p, i) EXCEPT !.borrowed = @ + amount],
                i, i + amount)
  BY DEF Borrow
<1> DEFINE accrued == UpdateInterestStacked(b, p, i)
           debt == [accrued EXCEPT !.borrowed = @ + amount]
           c == 0 - amount
           delta == i + amount
<1>2. /\ HasPool(p) /\ amount <= cash[pools[p].denom]
      /\ cash' = [cash EXCEPT ![pools[p].denom] = @ - amount]
      /\ UNCHANGED <<height, time, supply, shares, interest, writtenOff>>
  BY DEF Borrow
<1>3. i \in Nat /\ height \in Nat /\ time \in Nat /\ amount \in Nat \ {0}
  BY NewInterestNat, AmountsAssumption DEF IInv, TypeOK
<1>4. /\ accrued \in Debt
      /\ accrued.lastBlock = height /\ accrued.lastTime = time
      /\ accrued.paid <= accrued.stacked
      /\ TotalLiabilities(accrued) = TotalLiabilities(debts[p][b]) + i
      /\ TotalLiabilities(debts[p][b]) \in Nat
  BY AccruedDebt
<1>5. SetDebt(b, p, debt, i, delta)
  BY <1>1
<1> HIDE DEF accrued
<1>6. /\ debt \in Debt
      /\ debt.borrowed = accrued.borrowed + amount /\ debt.stacked = accrued.stacked
      /\ debt.paid = accrued.paid /\ debt.lastBlock = height /\ debt.lastTime = time
  BY <1>3, <1>4 DEF Debt
<1> HIDE DEF debt
<1>7. /\ debt.paid <= debt.stacked /\ debt.lastBlock <= height /\ debt.lastTime <= time
      /\ debt.borrowed = 0 => debt.stacked = debt.paid
      /\ delta = TotalLiabilities(debt) - TotalLiabilities(debts[p][b])
  BY <1>3, <1>4, <1>6 DEF TotalLiabilities, Debt
<1>8. /\ cash[pools[p].denom] \in Nat
      /\ writtenOff' = [writtenOff EXCEPT ![p] = @ + 0]
  BY <1>2, SameCash
<1>9. cash[pools[p].denom] + c >= 0 /\ cash[pools[p].denom] - amount = cash[pools[p].denom] + c
  BY <1>2, <1>3, <1>8
<1>10. cash' = [cash EXCEPT ![pools[p].denom] = @ + c]
  BY <1>2, <1>9
<1>11. c \in Int /\ delta \in Int /\ i = c + 0 + delta
  BY <1>3
<1> HIDE DEF c, delta
<1> QED BY <1>2, <1>3, <1>5, <1>6, <1>7, <1>8, <1>9, <1>10, <1>11, DebtStep

(***************************************************************************)
(* The debt that Repay stores, or none when the principal is repaid: what  *)
(* is owed falls by the amount.                                            *)
(***************************************************************************)
LEMMA RepaidDebt ==
  ASSUME IInv, NEW p \in PoolIds, NEW b \in Positions, NEW amount \in LoanAmounts,
         NEW i \in NewInterest(b, p),
         Repaid(UpdateInterestStacked(b, p, i), amount).borrowed >= 0
  PROVE  LET new  == Repaid(UpdateInterestStacked(b, p, i), amount)
             debt == IF new.borrowed = 0 THEN NoDebt ELSE new
         IN  /\ debt \in Debt /\ debt.paid <= debt.stacked
             /\ debt.lastBlock <= height /\ debt.lastTime <= time
             /\ debt.borrowed = 0 => debt.stacked = debt.paid
             /\ TotalLiabilities(debt) = TotalLiabilities(debts[p][b]) + i - amount
<1> DEFINE old == UpdateInterestStacked(b, p, i)
           new == Repaid(old, amount)
           debt == IF new.borrowed = 0 THEN NoDebt ELSE new
<1>3. i \in Nat /\ height \in Nat /\ time \in Nat /\ amount \in Nat \ {0}
  BY NewInterestNat, AmountsAssumption DEF IInv, TypeOK
<1>4. /\ old \in Debt
      /\ old.lastBlock = height /\ old.lastTime = time
      /\ old.paid <= old.stacked
      /\ old.borrowed = 0 => old.stacked = old.paid
      /\ TotalLiabilities(old) = TotalLiabilities(debts[p][b]) + i
      /\ TotalLiabilities(debts[p][b]) \in Nat
  BY AccruedDebt
<1>5. new.borrowed >= 0
  OBVIOUS
<1> DEFINE ip == MinOf(old.stacked - old.paid, amount)
<1>6. new = [old EXCEPT !.borrowed = old.borrowed - (amount - ip), !.paid = old.paid + ip]
  BY DEF Repaid
<1> HIDE DEF old, new
<1>7. old.borrowed \in Nat /\ old.stacked \in Nat /\ old.paid \in Nat
  BY <1>4 DEF Debt
<1>8. ip \in Nat /\ ip <= amount /\ ip <= old.stacked - old.paid
      /\ (ip = amount \/ ip = old.stacked - old.paid)
  BY <1>3, <1>4, <1>7 DEF MinOf
<1> HIDE DEF ip
<1>9. /\ new.borrowed = old.borrowed - (amount - ip) /\ new.stacked = old.stacked
      /\ new.paid = old.paid + ip /\ new.lastBlock = height /\ new.lastTime = time
  BY <1>4, <1>6 DEF Debt
<1>10. new.borrowed \in Nat /\ old.paid + ip \in Nat
  BY <1>3, <1>5, <1>7, <1>8, <1>9
<1>11. new \in Debt
  BY <1>4, <1>6, <1>9, <1>10 DEF Debt
<1>12. TotalLiabilities(new) = TotalLiabilities(old) - amount
  BY <1>3, <1>7, <1>8, <1>9 DEF TotalLiabilities
<1>13. /\ debt \in Debt /\ debt.paid <= debt.stacked
       /\ debt.lastBlock <= height /\ debt.lastTime <= time
       /\ debt.borrowed = 0 => debt.stacked = debt.paid
       /\ TotalLiabilities(debt) = TotalLiabilities(new)
  <2>1. CASE new.borrowed = 0
    <3>1. debt = NoDebt
      BY <2>1
    <3>2. TotalLiabilities(new) = 0
      BY <1>3, <1>4, <1>7, <1>8, <1>9, <2>1 DEF TotalLiabilities
    <3>3. /\ NoDebt \in Debt /\ NoDebt.paid <= NoDebt.stacked
          /\ NoDebt.lastBlock <= height /\ NoDebt.lastTime <= time
          /\ NoDebt.stacked = NoDebt.paid /\ TotalLiabilities(NoDebt) = 0
      BY <1>3 DEF NoDebt, Debt, TotalLiabilities
    <3> QED BY <3>1, <3>2, <3>3
  <2>2. CASE new.borrowed # 0
    <3>1. debt = new
      BY <2>2
    <3>2. new.paid <= new.stacked /\ new.lastBlock <= height /\ new.lastTime <= time
      BY <1>3, <1>7, <1>8, <1>9
    <3> QED BY <1>11, <2>2, <3>1, <3>2
  <2> QED BY <2>1, <2>2
<1> HIDE DEF debt
<1>14. TotalLiabilities(debt) = TotalLiabilities(debts[p][b]) + i - amount
  BY <1>3, <1>4, <1>12, <1>13
<1> QED BY <1>13, <1>14 DEF debt, new, old

(***************************************************************************)
(* Repay keeps the invariant, also when it deletes the debt: without       *)
(* principal nothing is owed.                                              *)
(***************************************************************************)
LEMMA RepayIInv ==
  ASSUME IInv, NEW p \in PoolIds, NEW b \in Positions, NEW amount \in LoanAmounts,
         Repay(b, p, amount)
  PROVE  IInv'
<1> DEFINE repaid(i) == Repaid(UpdateInterestStacked(b, p, i), amount)
<1>1. PICK i \in NewInterest(b, p) :
        /\ repaid(i).borrowed >= 0
        /\ SetDebt(b, p, IF repaid(i).borrowed = 0 THEN NoDebt ELSE repaid(i), i, i - amount)
  BY DEF Repay
<1> DEFINE debt == IF repaid(i).borrowed = 0 THEN NoDebt ELSE repaid(i)
           delta == i - amount
<1>2. /\ HasPool(p)
      /\ cash' = [cash EXCEPT ![pools[p].denom] = @ + amount]
      /\ UNCHANGED <<height, time, supply, shares, interest, writtenOff>>
  BY DEF Repay
<1>3. i \in Nat /\ amount \in Nat \ {0} /\ TotalLiabilities(debts[p][b]) \in Nat
  BY NewInterestNat, AccruedDebt, AmountsAssumption
<1>4. SetDebt(b, p, debt, i, delta)
  BY <1>1
<1>5. /\ debt \in Debt /\ debt.paid <= debt.stacked
      /\ debt.lastBlock <= height /\ debt.lastTime <= time
      /\ debt.borrowed = 0 => debt.stacked = debt.paid
      /\ TotalLiabilities(debt) = TotalLiabilities(debts[p][b]) + i - amount
  BY <1>1, RepaidDebt
<1> HIDE DEF debt
<1>6. delta = TotalLiabilities(debt) - TotalLiabilities(debts[p][b])
  BY <1>3, <1>5
<1>7. /\ cash[pools[p].denom] \in Nat
      /\ writtenOff' = [writtenOff EXCEPT ![p] = @ + 0]
  BY <1>2, SameCash
<1>8. cash[pools[p].denom] + amount >= 0 /\ amount \in Int
  BY <1>3, <1>7
<1>9. delta \in Int /\ i = amount + 0 + delta
  BY <1>3
<1> HIDE DEF delta
<1> QED BY <1>2, <1>3, <1>4, <1>5, <1>6, <1>7, <1>8, <1>9, DebtStep

(***************************************************************************)
(* CloseOnUnableToRepay keeps the invariant: what it deletes is written    *)
(* off.                                                                    *)
(***************************************************************************)
LEMMA CloseIInv ==
  ASSUME IInv, NEW p \in PoolIds, NEW b \in Positions, CloseOnUnableToRepay(b, p)
  PROVE  IInv'
<1>1. PICK i \in NewInterest(b, p) :
        /\ SetDebt(b, p, NoDebt, i, i - TotalLiabilities(UpdateInterestStacked(b, p, i)))
        /\ writtenOff' = [writtenOff EXCEPT ![p] = @ + TotalLiabilities(UpdateInterestStacked(b, p, i))]
  BY DEF CloseOnUnableToRepay
<1> DEFINE unpaid == TotalLiabilities(UpdateInterestStacked(b, p, i))
           delta == i - unpaid
<1>2. HasPool(p) /\ UNCHANGED <<height, time, cash, supply, shares, interest>>
  BY DEF CloseOnUnableToRepay
<1>3. i \in Nat /\ height \in Nat /\ time \in Nat
  BY NewInterestNat DEF IInv, TypeOK
<1>4. unpaid = TotalLiabilities(debts[p][b]) + i /\ TotalLiabilities(debts[p][b]) \in Nat
  BY AccruedDebt
<1>5. /\ NoDebt \in Debt /\ NoDebt.paid <= NoDebt.stacked
      /\ NoDebt.lastBlock <= height /\ NoDebt.lastTime <= time
      /\ (NoDebt.borrowed = 0 => NoDebt.stacked = NoDebt.paid)
      /\ TotalLiabilities(NoDebt) = 0
  BY <1>3 DEF NoDebt, Debt, TotalLiabilities
<1>6. SetDebt(b, p, NoDebt, i, delta) /\ writtenOff' = [writtenOff EXCEPT ![p] = @ + unpaid]
  BY <1>1
<1> HIDE DEF unpaid
<1> DEFINE c == 0
<1>7. /\ unpaid \in Nat /\ delta \in Int /\ c \in Int /\ i = c + unpaid + delta
      /\ delta = TotalLiabilities(NoDebt) - TotalLiabilities(debts[p][b])
  BY <1>3, <1>4, <1>5
<1>8. /\ cash[pools[p].denom] + c >= 0
      /\ cash' = [cash EXCEPT ![pools[p].denom] = @ + c]
  BY <1>2, SameCash
<1> HIDE DEF delta, c
<1> QED BY <1>2, <1>3, <1>5, <1>6, <1>7, <1>8, DebtStep

(***************************************************************************)
(* A step that leaves every vault's denom and net amount and all the       *)
(* ledgers alone, as changes of parameters and rates do.                   *)
(***************************************************************************)
LEMMA RatesStep ==
  ASSUME IInv,
         pools' \in [PoolIds -> Pool],
         \A q \in PoolIds : pools'[q].denom = pools[q].denom /\ pools'[q].net = pools[q].net,
         height' \in Nat, height <= height', time' \in Nat, time <= time',
         UNCHANGED <<cash, supply, shares, debts, liabilities, writtenOff>>,
         DOMAIN interest' = PoolIds,
         \A q \in PoolIds : /\ interest'[q] \in [DOMAIN interest'[q] -> Nat]
                            /\ DOMAIN interest'[q] \subseteq Nat,
         \A q \in PoolIds : ~ HasPool(q) => interest'[q] = interest[q],
         InterestUpToDate', CumulativeRateMonotone'
  PROVE  IInv'
<1>0. TypeOK /\ DebtConsistent /\ OneVaultPerDenom /\ CleanBeforePool
      /\ VaultAccounting /\ LiabilitiesMatchDebts /\ SharesMatchSupply
  BY DEF IInv
<1>1. TypeOK'
  BY <1>0 DEF TypeOK
<1>2. \A q \in PoolIds : HasPool(q)' <=> HasPool(q)
  BY DEF HasPool
<1>3. \A d \in Denoms : HasPoolByDenom(d)' <=> HasPoolByDenom(d)
  BY DEF HasPoolByDenom
<1>4. OneVaultPerDenom'
  BY <1>0 DEF OneVaultPerDenom, HasPool
<1>5. CleanBeforePool'
  BY <1>0, <1>2, <1>3 DEF CleanBeforePool
<1>6. DebtConsistent'
  <2> SUFFICES ASSUME NEW q \in PoolIds, NEW x \in Positions
               PROVE  debts[q][x].lastBlock <= height' /\ debts[q][x].lastTime <= time'
    BY <1>0 DEF DebtConsistent
  <2>1. debts[q][x] \in Debt /\ height \in Nat /\ time \in Nat
        /\ debts[q][x].lastBlock <= height /\ debts[q][x].lastTime <= time
    BY <1>0 DEF TypeOK, DebtConsistent
  <2> QED BY <2>1 DEF Debt
<1>7. VaultAccounting'
  BY <1>0, <1>2 DEF VaultAccounting, Owed
<1>8. LiabilitiesMatchDebts'
  BY <1>0, <1>2 DEF LiabilitiesMatchDebts, OwedThrough
<1>9. SharesMatchSupply'
  BY <1>0 DEF SharesMatchSupply
<1> QED BY <1>1, <1>4, <1>5, <1>6, <1>7, <1>8, <1>9 DEF IInv

(***************************************************************************)
(* UpdatePool keeps the invariant.                                         *)
(***************************************************************************)
LEMMA UpdatePoolIInv ==
  ASSUME IInv, NEW p \in PoolIds, NEW prm \in PoolParams, UpdatePool(p, prm)
  PROVE  IInv'
<1>1. pools \in [PoolIds -> Pool] /\ pools[p] \in Pool /\ prm \in ParamRecord
  BY ParamsAssumption DEF IInv, TypeOK
<1> DEFINE new == [pools[p] EXCEPT !.rmin = prm.rmin, !.rmax = prm.rmax, !.rinc = prm.rinc,
                                   !.rdec = prm.rdec, !.hgf = prm.hgf, !.mlr = prm.mlr]
<1>2. pools' = [pools EXCEPT ![p] = new]
  BY <1>1 DEF UpdatePool
<1>3. new \in Pool /\ new.denom = pools[p].denom /\ new.net = pools[p].net
  BY <1>1 DEF Pool, ParamRecord
<1> HIDE DEF new
<1>4. pools' \in [PoolIds -> Pool]
  BY <1>1, <1>2, <1>3
<1>5. \A q \in PoolIds : pools'[q].denom = pools[q].denom /\ pools'[q].net = pools[q].net
  BY <1>1, <1>2, <1>3
<1>6. UNCHANGED <<height, time, cash, supply, shares, debts, interest, liabilities, writtenOff>>
  BY DEF UpdatePool
<1>7. /\ height' \in Nat /\ height <= height' /\ time' \in Nat /\ time <= time'
      /\ DOMAIN interest' = PoolIds
      /\ \A q \in PoolIds : /\ interest'[q] \in [DOMAIN interest'[q] -> Nat]
                             /\ DOMAIN interest'[q] \subseteq Nat
  BY <1>6 DEF IInv, TypeOK
<1> QED BY <1>4, <1>5, <1>6, <1>7, LedgersUntouched, RatesStep

(***************************************************************************)
(* A pool's new rate is natural: TargetRate lies between its bounds.       *)
(***************************************************************************)
LEMMA NewRateNat ==
  ASSUME IInv, NEW p \in PoolIds, HasPool(p)
  PROVE  NewRate(p) \in Nat
<1> DEFINE pool == pools[p]
           balance == cash[pool.denom]
           target == TargetRate(pool, balance)
<1>1. pool \in Pool /\ balance \in Nat
  BY DEF IInv, TypeOK, HasPool, Pool
<1>2. target \in Int
  <2> DEFINE most == pool.net * (pool.mlr * pool.hgf)
             lent == MinOf((pool.net - balance) * (RatioOne * RatioOne), most)
  <2>1. most \in Nat /\ (pool.net - balance) * (RatioOne * RatioOne) \in Int
    BY <1>1, UnitsAssumption DEF Pool
  <2>2. lent \in Int
    BY <2>1 DEF MinOf
  <2>3. target = IF most = 0 THEN pool.rmin
                 ELSE pool.rmin + (lent * (pool.rmax - pool.rmin)) \div most
    BY DEF TargetRate
  <2> HIDE DEF most, lent
  <2>4. lent * (pool.rmax - pool.rmin) \in Int /\ pool.rmin \in Nat
    BY <1>1, <2>2 DEF Pool
  <2>5. most # 0 => (lent * (pool.rmax - pool.rmin)) \div most \in Int
    <3> DEFINE x == lent * (pool.rmax - pool.rmin)
    <3> HIDE DEF x
    <3>1. x \in Int
      BY <2>4 DEF x
    <3>2. most # 0 => x \div most \in Int
      BY <2>1, <3>1
    <3> QED BY <3>2 DEF x
  <2> DEFINE q == (lent * (pool.rmax - pool.rmin)) \div most
  <2> HIDE DEF q
  <2> QED BY <2>3, <2>4, <2>5 DEF q
<1>3. NewRate(p) = LET moved == MaxOf(MinOf(target, pool.rate + pool.rinc), pool.rate - pool.rdec)
                   IN  IF pool.net = 0 THEN pool.rate
                       ELSE MaxOf(MinOf(moved, pool.rmax), pool.rmin)
  BY DEF NewRate, InterestRateComputationForPool
<1> HIDE DEF target
<1> QED BY <1>1, <1>2, <1>3 DEF MaxOf, MinOf, Pool

(***************************************************************************)
(* The interest entries after a block: the new block's entry is there and  *)
(* is at least every older one.                                            *)
(***************************************************************************)
LEMMA InterestStep ==
  ASSUME NEW h \in Nat, NEW rate \in Nat, NEW I,
         I \in [DOMAIN I -> Nat], DOMAIN I \subseteq Nat,
         DOMAIN I # {} => h \in DOMAIN I,
         \A k \in DOMAIN I : k <= h,
         \A j, k \in DOMAIN I : j <= k => I[j] <= I[k]
  PROVE  LET J == DeleteInterestForPool(SetInterestForPool(I, h + 1, rate), h + 1)
         IN  /\ J \in [DOMAIN J -> Nat] /\ DOMAIN J \subseteq Nat
             /\ h + 1 \in DOMAIN J
             /\ \A k \in DOMAIN J : k <= h + 1
             /\ \A j, k \in DOMAIN J : j <= k => J[j] <= J[k]
<1> DEFINE K == SetInterestForPool(I, h + 1, rate)
           J == DeleteInterestForPool(K, h + 1)
<1>1. (h + 1) - 1 = h
  OBVIOUS
<1>2. /\ DOMAIN K = DOMAIN I \cup {h + 1}
      /\ \A k \in DOMAIN I : k # h + 1 => K[k] = I[k]
      /\ K[h + 1] = IF h \in DOMAIN I THEN rate + I[h] ELSE rate
  BY <1>1 DEF SetInterestForPool
<1> HIDE DEF K
<1>3. \A k \in DOMAIN I : k # h + 1 /\ K[k] = I[k] /\ k \in Nat /\ I[k] \in Nat
  BY <1>2
<1>4. K[h + 1] \in Nat /\ \A k \in DOMAIN I : K[k] <= K[h + 1]
  <2>1. CASE h \in DOMAIN I
    <3>1. K[h + 1] = rate + I[h] /\ I[h] \in Nat
      BY <1>2, <1>3, <2>1
    <3>2. \A k \in DOMAIN I : I[k] <= I[h]
      BY <2>1
    <3> QED BY <1>3, <3>1, <3>2
  <2>2. CASE h \notin DOMAIN I
    BY <1>2, <2>2
  <2> QED BY <2>1, <2>2
<1>5. /\ DOMAIN J = DOMAIN K \ {(h + 1) - NumBlocks}
      /\ \A k \in DOMAIN J : J[k] = K[k]
      /\ J = [k \in DOMAIN J |-> K[k]]
  BY DEF DeleteInterestForPool
<1> HIDE DEF J
<1>6. h + 1 # (h + 1) - NumBlocks
  BY SizesAssumption
<1>7. h + 1 \in DOMAIN J
  BY <1>2, <1>5, <1>6
<1>8. \A k \in DOMAIN J : k = h + 1 \/ k \in DOMAIN I
  BY <1>2, <1>5
<1>9. \A k \in DOMAIN J : J[k] \in Nat /\ k \in Nat /\ k <= h + 1
  BY <1>3, <1>4, <1>5, <1>8
<1>10. J \in [DOMAIN J -> Nat]
  BY <1>5, <1>9
<1>11. ASSUME NEW j \in DOMAIN J, NEW k \in DOMAIN J, j <= k PROVE J[j] <= J[k]
  <2>1. CASE k = h + 1
    BY <1>4, <1>5, <1>8, <2>1
  <2>2. CASE k # h + 1
    <3>1. k \in DOMAIN I /\ k <= h
      BY <1>8, <2>2
    <3>2. j \in DOMAIN I
      BY <1>3, <1>8, <1>11, <3>1
    <3> QED BY <1>3, <1>5, <1>11, <3>1, <3>2
  <2> QED BY <2>1, <2>2
<1> QED BY <1>7, <1>9, <1>10, <1>11 DEF J, K

(***************************************************************************)
(* BeginBlocker keeps the invariant.                                       *)
(***************************************************************************)
LEMMA BeginBlockIInv ==
  ASSUME IInv, NEW gap \in BlockGaps, BeginBlock(gap)
  PROVE  IInv'
<1>1. /\ height \in Nat /\ time \in Nat /\ gap \in Nat
      /\ pools \in [PoolIds -> Pool] /\ DOMAIN interest = PoolIds
  BY UnitsAssumption DEF IInv, TypeOK
<1>2. /\ height' = height + 1 /\ time' = time + gap
      /\ UNCHANGED <<cash, supply, shares, debts, liabilities, writtenOff>>
  BY DEF BeginBlock
<1>3. \A q \in PoolIds : /\ pools'[q] \in Pool
                         /\ pools'[q].denom = pools[q].denom /\ pools'[q].net = pools[q].net
  <2> SUFFICES ASSUME NEW q \in PoolIds
               PROVE  /\ pools'[q] \in Pool
                      /\ pools'[q].denom = pools[q].denom /\ pools'[q].net = pools[q].net
    OBVIOUS
  <2>1. pools'[q] = IF HasPool(q) THEN [pools[q] EXCEPT !.rate = NewRate(q)] ELSE pools[q]
    BY DEF BeginBlock
  <2>2. CASE HasPool(q)
    <3>1. NewRate(q) \in Nat
      BY <2>2, NewRateNat
    <3>2. pools'[q] = [pools[q] EXCEPT !.rate = NewRate(q)] /\ pools[q] \in Pool
      BY <1>1, <2>1, <2>2
    <3> QED BY <3>1, <3>2 DEF Pool
  <2>3. CASE ~ HasPool(q)
    BY <1>1, <2>1, <2>3
  <2> QED BY <2>2, <2>3
<1>4. pools' \in [PoolIds -> Pool]
  <2>1. pools' = [q \in PoolIds |-> pools'[q]]
    BY DEF BeginBlock
  <2> QED BY <1>3, <2>1
<1>5. DOMAIN interest' = PoolIds
  BY DEF BeginBlock
<1>6. \A q \in PoolIds :
        /\ interest'[q] \in [DOMAIN interest'[q] -> Nat]
        /\ DOMAIN interest'[q] \subseteq Nat
        /\ DOMAIN interest'[q] # {} => height + 1 \in DOMAIN interest'[q]
        /\ \A k \in DOMAIN interest'[q] : k <= height + 1
        /\ \A j, k \in DOMAIN interest'[q] : j <= k => interest'[q][j] <= interest'[q][k]
  <2> SUFFICES ASSUME NEW q \in PoolIds
               PROVE  /\ interest'[q] \in [DOMAIN interest'[q] -> Nat]
                      /\ DOMAIN interest'[q] \subseteq Nat
                      /\ DOMAIN interest'[q] # {} => height + 1 \in DOMAIN interest'[q]
                      /\ \A k \in DOMAIN interest'[q] : k <= height + 1
                      /\ \A j, k \in DOMAIN interest'[q] : j <= k => interest'[q][j] <= interest'[q][k]
    BY Zenon
  <2>1. /\ interest[q] \in [DOMAIN interest[q] -> Nat] /\ DOMAIN interest[q] \subseteq Nat
        /\ DOMAIN interest[q] # {} => height \in DOMAIN interest[q]
        /\ \A k \in DOMAIN interest[q] : k <= height
        /\ \A j, k \in DOMAIN interest[q] : j <= k => interest[q][j] <= interest[q][k]
    BY DEF IInv, TypeOK, InterestUpToDate, CumulativeRateMonotone
  <2>2. CASE HasPool(q)
    <3>1. NewRate(q) \in Nat
      BY <2>2, NewRateNat
    <3>2. interest'[q] = DeleteInterestForPool(
                           SetInterestForPool(interest[q], height + 1, NewRate(q)), height + 1)
      BY <2>2 DEF BeginBlock
    <3> QED BY <1>1, <2>1, <3>1, <3>2, InterestStep
  <2>3. CASE ~ HasPool(q)
    <3>1. interest'[q] = interest[q] /\ DOMAIN interest[q] = {}
      BY <2>3 DEF BeginBlock, IInv, CleanBeforePool
    <3> QED BY <2>1, <3>1
  <2> QED BY <2>2, <2>3
<1>7. InterestUpToDate' /\ CumulativeRateMonotone'
  BY <1>2, <1>6 DEF InterestUpToDate, CumulativeRateMonotone
<1>8. height' \in Nat /\ height <= height' /\ time' \in Nat /\ time <= time'
  BY <1>1, <1>2
<1>9. \A q \in PoolIds : ~ HasPool(q) => interest'[q] = interest[q]
  BY DEF BeginBlock
<1> QED BY <1>2, <1>3, <1>4, <1>5, <1>6, <1>7, <1>8, <1>9, RatesStep

(***************************************************************************)
(* AddPool keeps the invariant: a new vault's denom has neither cash nor   *)
(* liabilities yet.                                                        *)
(***************************************************************************)
LEMMA AddPoolIInv ==
  ASSUME IInv, NEW d \in Denoms, NEW prm \in PoolParams, AddPool(d, prm)
  PROVE  IInv'
<1> DEFINE new == [denom |-> d, net |-> 0, rate |-> prm.rate, rmin |-> prm.rmin,
                   rmax |-> prm.rmax, rinc |-> prm.rinc, rdec |-> prm.rdec,
                   hgf |-> prm.hgf, mlr |-> prm.mlr, mwr |-> prm.mwr]
<1>1. PICK p \in PoolIds : IsNextPoolId(p) /\ pools' = [pools EXCEPT ![p] = new]
  BY DEF AddPool
<1>2. /\ ~ HasPool(p) /\ ~ HasPoolByDenom(d)
      /\ UNCHANGED <<height, time, cash, supply, shares, debts, interest, liabilities, writtenOff>>
  BY <1>1 DEF AddPool, IsNextPoolId
<1>3. new \in Pool /\ new.denom = d /\ new.net = 0
  BY ParamsAssumption DEF Pool, ParamRecord
<1> HIDE DEF new
<1>4. TypeOK /\ DebtConsistent /\ OneVaultPerDenom /\ CleanBeforePool
      /\ VaultAccounting /\ LiabilitiesMatchDebts
  BY DEF IInv
<1>5. /\ pools' \in [PoolIds -> Pool] /\ pools'[p] = new
      /\ \A q \in PoolIds : q # p => pools'[q] = pools[q]
  BY <1>1, <1>3, <1>4 DEF TypeOK
<1>6. TypeOK'
  BY <1>2, <1>4, <1>5 DEF TypeOK
<1>7. DebtConsistent'
  BY <1>2, <1>4 DEF DebtConsistent
<1>8. \A q \in PoolIds : pools[q].denom # d
  BY <1>2 DEF HasPoolByDenom
<1>9. HasPool(p)' /\ \A q \in PoolIds : q # p => (HasPool(q)' <=> HasPool(q))
  BY <1>3, <1>5, NamesAssumption DEF HasPool
<1>10. OneVaultPerDenom'
  <2> SUFFICES ASSUME NEW q \in PoolIds, NEW r \in PoolIds,
                      HasPool(q)', pools'[q].denom = pools'[r].denom
               PROVE  q = r
    BY DEF OneVaultPerDenom
  <2>1. CASE q = p \/ r = p
    BY <1>3, <1>5, <1>8, <2>1
  <2>2. CASE q # p /\ r # p
    BY <1>4, <1>5, <1>9, <2>2 DEF OneVaultPerDenom
  <2> QED BY <2>1, <2>2
<1>11. CleanBeforePool'
  <2>1. \A e \in Denoms : HasPoolByDenom(e) => HasPoolByDenom(e)'
    <3> SUFFICES ASSUME NEW e \in Denoms, NEW q \in PoolIds, pools[q].denom = e
                 PROVE  HasPoolByDenom(e)'
      BY DEF HasPoolByDenom
    <3>1. q # p
      BY <1>2, NamesAssumption DEF HasPool
    <3> QED BY <1>5, <3>1 DEF HasPoolByDenom
  <2>2. \A q \in PoolIds : ~ HasPool(q)' => ~ HasPool(q)
    BY <1>9
  <2> QED BY <1>2, <1>4, <2>1, <2>2 DEF CleanBeforePool
<1>12. cash[d] = 0 /\ writtenOff[p] = 0 /\ (\A b \in Positions : debts[p][b] = NoDebt)
       /\ \A a \in AmmPools : liabilities[a][d] = 0
  BY <1>2, <1>4 DEF CleanBeforePool
<1>13. \A b \in Positions : TotalLiabilities(debts[p][b]) = 0
  BY <1>12 DEF NoDebt, TotalLiabilities
<1>14. VaultAccounting'
  <2> SUFFICES ASSUME NEW q \in PoolIds, HasPool(q)'
               PROVE  pools'[q].net = cash[pools'[q].denom] + Sum(Owed(q), NumPositions) + writtenOff[q]
    BY <1>2 DEF VaultAccounting, Owed
  <2>1. CASE q = p
    <3>1. Owed(p) \in [1 .. NumPositions -> Int] /\ \A x \in 1 .. NumPositions : Owed(p)[x] = 0
      BY <1>13 DEF Owed, Positions
    <3>2. Sum(Owed(p), NumPositions) = 0
      BY <3>1, SizesAssumption, SumZero
    <3> QED BY <1>3, <1>5, <1>12, <2>1, <3>2
  <2>2. CASE q # p
    BY <1>4, <1>5, <1>9, <2>2 DEF VaultAccounting
  <2> QED BY <2>1, <2>2
<1>15. LiabilitiesMatchDebts'
  <2> SUFFICES ASSUME NEW q \in PoolIds, NEW a \in AmmPools, HasPool(q)'
               PROVE  liabilities[a][pools'[q].denom] = Sum(OwedThrough(q, a), NumPositions)
    BY <1>2 DEF LiabilitiesMatchDebts, OwedThrough
  <2>1. CASE q = p
    <3>1. /\ OwedThrough(p, a) \in [1 .. NumPositions -> Int]
          /\ \A x \in 1 .. NumPositions : OwedThrough(p, a)[x] = 0
      BY <1>13 DEF OwedThrough, Positions
    <3>2. Sum(OwedThrough(p, a), NumPositions) = 0
      BY <3>1, SizesAssumption, SumZero
    <3> QED BY <1>3, <1>5, <1>12, <2>1, <3>2
  <2>2. CASE q # p
    BY <1>4, <1>5, <1>9, <2>2 DEF LiabilitiesMatchDebts
  <2> QED BY <2>1, <2>2
<1> QED BY <1>2, <1>6, <1>7, <1>10, <1>11, <1>14, <1>15, LedgersUntouched DEF IInv

(***************************************************************************)
(* A deposit or a withdrawal of c coins: net amount and cash move          *)
(* together.                                                               *)
(***************************************************************************)
LEMMA CashStep ==
  ASSUME IInv, NEW p \in PoolIds, HasPool(p), NEW c \in Int,
         cash[pools[p].denom] + c >= 0, pools[p].net + c >= 0,
         cash' = [cash EXCEPT ![pools[p].denom] = @ + c],
         pools' = [pools EXCEPT ![p].net = @ + c],
         supply' \in [PoolIds -> Nat], shares' \in [PoolIds -> [Bonders -> Nat]],
         SharesMatchSupply',
         UNCHANGED <<height, time, debts, interest, liabilities, writtenOff>>
  PROVE  IInv'
<1> DEFINE D == pools[p].denom
<1>0. TypeOK /\ DebtConsistent /\ OneVaultPerDenom /\ CleanBeforePool
      /\ VaultAccounting /\ LiabilitiesMatchDebts
  BY DEF IInv
<1>1. D \in Denoms /\ cash \in [Denoms -> Nat] /\ pools[p] \in Pool /\ pools \in [PoolIds -> Pool]
  BY <1>0 DEF HasPool, TypeOK, Pool
<1>2. /\ cash' \in [Denoms -> Nat] /\ cash'[D] = cash[D] + c
      /\ \A d \in Denoms : d # D => cash'[d] = cash[d]
  BY <1>1
<1>3. /\ pools' \in [PoolIds -> Pool]
      /\ \A q \in PoolIds : pools'[q].denom = pools[q].denom
      /\ pools'[p].net = pools[p].net + c
      /\ \A q \in PoolIds : q # p => pools'[q] = pools[q]
  <2> DEFINE new == [pools[p] EXCEPT !.net = @ + c]
  <2>1. pools[p].net + c \in Nat
    BY <1>1 DEF Pool
  <2>2. new \in Pool /\ new.denom = D /\ new.net = pools[p].net + c
    BY <1>1, <2>1 DEF Pool
  <2>3. pools' = [pools EXCEPT ![p] = new]
    OBVIOUS
  <2> HIDE DEF new
  <2>4. pools'[p] = new /\ \A q \in PoolIds : q # p => pools'[q] = pools[q]
    BY <1>1, <2>3
  <2>5. pools' \in [PoolIds -> Pool]
    BY <1>1, <2>2, <2>3
  <2> QED BY <2>2, <2>4, <2>5
<1>4. TypeOK'
  BY <1>0, <1>2, <1>3 DEF TypeOK
<1>5. DebtConsistent'
  BY <1>0 DEF DebtConsistent
<1>6. OneVaultPerDenom'
  BY <1>0, <1>3 DEF OneVaultPerDenom, HasPool
<1>7. \A q \in PoolIds : HasPool(q)' <=> HasPool(q)
  BY <1>3 DEF HasPool
<1>8. \A d \in Denoms : HasPoolByDenom(d)' <=> HasPoolByDenom(d)
  BY <1>3 DEF HasPoolByDenom
<1>9. CleanBeforePool'
  <2>1. HasPoolByDenom(D)
    BY DEF HasPoolByDenom
  <2>2. \A d \in Denoms : ~ HasPoolByDenom(d)' =>
          cash'[d] = 0 /\ \A a \in AmmPools : liabilities'[a][d] = 0
    BY <1>0, <1>2, <1>8, <2>1 DEF CleanBeforePool
  <2> QED BY <1>0, <1>7, <2>2 DEF CleanBeforePool
<1>10. VaultAccounting'
  <2> SUFFICES ASSUME NEW q \in PoolIds, HasPool(q)
               PROVE  pools'[q].net = cash'[pools[q].denom] + Sum(Owed(q), NumPositions) + writtenOff[q]
    BY <1>3, <1>7 DEF VaultAccounting, Owed
  <2>1. pools[q].net = cash[pools[q].denom] + Sum(Owed(q), NumPositions) + writtenOff[q]
    BY <1>0 DEF VaultAccounting
  <2>2. CASE q = p
    <3>1. Owed(p) \in [1 .. NumPositions -> Int]
      <4>1. \A b \in Positions : TotalLiabilities(debts[p][b]) \in Int
        BY <1>0, OwedTypes
      <4> QED BY <4>1 DEF Owed, Positions
    <3>2. Sum(Owed(p), NumPositions) \in Int
      BY <3>1, SizesAssumption, SumInt
    <3>3. cash[D] \in Nat /\ writtenOff[p] \in Nat
      BY <1>0, <1>1 DEF TypeOK
    <3> QED BY <1>2, <1>3, <2>1, <2>2, <3>2, <3>3
  <2>3. CASE q # p
    <3>1. pools[q].denom # D /\ pools[q].denom \in Denoms
      BY <1>0, <2>3 DEF OneVaultPerDenom, HasPool, TypeOK, Pool
    <3> QED BY <1>2, <1>3, <2>1, <2>3, <3>1
  <2> QED BY <2>2, <2>3
<1>11. LiabilitiesMatchDebts'
  BY <1>0, <1>3, <1>7 DEF LiabilitiesMatchDebts, OwedThrough
<1>12. InterestUpToDate' /\ CumulativeRateMonotone'
  BY DEF IInv, InterestUpToDate, CumulativeRateMonotone
<1> QED BY <1>4, <1>5, <1>6, <1>9, <1>10, <1>11, <1>12 DEF IInv

(***************************************************************************)
(* One depositor's shares and the supply move together.                    *)
(***************************************************************************)
LEMMA SharesStep ==
  ASSUME IInv, NEW p \in PoolIds, NEW u \in Bonders, NEW c \in Int,
         shares[p][u] + c >= 0,
         supply' = [supply EXCEPT ![p] = @ + c],
         shares' = [shares EXCEPT ![p][u] = @ + c]
  PROVE  /\ supply' \in [PoolIds -> Nat] /\ shares' \in [PoolIds -> [Bonders -> Nat]]
         /\ SharesMatchSupply'
<1>1. supply \in [PoolIds -> Nat] /\ shares \in [PoolIds -> [Bonders -> Nat]]
      /\ \A q \in PoolIds : supply[q] = Sum(shares[q], NumBonders)
  BY DEF IInv, TypeOK, SharesMatchSupply
<1> DEFINE row == [shares[p] EXCEPT ![u] = @ + c]
<1>2. shares[p] \in [Bonders -> Nat]
  BY <1>1
<1>3. row \in [Bonders -> Nat] /\ row[u] = shares[p][u] + c
      /\ \A x \in Bonders : x # u => row[x] = shares[p][x]
  BY <1>2
<1>4. shares' = [shares EXCEPT ![p] = row]
  OBVIOUS
<1> HIDE DEF row
<1>5. shares' \in [PoolIds -> [Bonders -> Nat]] /\ shares'[p] = row
      /\ \A q \in PoolIds : q # p => shares'[q] = shares[q]
  BY <1>1, <1>3, <1>4
<1>6. Sum(row, NumBonders) = Sum(shares[p], NumBonders) + row[u] - shares[p][u]
  <2> DEFINE g == shares[p]
  <2>1. g \in [1 .. NumBonders -> Int] /\ row \in [1 .. NumBonders -> Int] /\ u \in 1 .. NumBonders
        /\ \A x \in 1 .. NumBonders : x # u => row[x] = g[x]
    BY <1>2, <1>3 DEF Bonders
  <2> HIDE DEF g
  <2>2. Sum(row, NumBonders) = Sum(g, NumBonders) + row[u] - g[u]
    BY <2>1, SizesAssumption, SumUpdate, Zenon
  <2> QED BY <2>2 DEF g
<1>7. Sum(row, NumBonders) \in Nat
  BY <1>3, SizesAssumption, SumBound DEF Bonders
<1>8. Sum(row, NumBonders) = supply[p] + c /\ supply[p] \in Nat
  <2>1. shares[p][u] \in Nat /\ supply[p] \in Nat /\ supply[p] = Sum(shares[p], NumBonders)
    BY <1>1, <1>2
  <2> QED BY <1>3, <1>6, <2>1
<1>9. supply' \in [PoolIds -> Nat] /\ supply'[p] = supply[p] + c
      /\ \A q \in PoolIds : q # p => supply'[q] = supply[q]
  BY <1>1, <1>7, <1>8
<1>10. SharesMatchSupply'
  BY <1>1, <1>5, <1>8, <1>9 DEF SharesMatchSupply
<1> QED BY <1>5, <1>9, <1>10

(***************************************************************************)
(* The invariant implies that a vault's cash is covered by its net amount. *)
(***************************************************************************)
LEMMA CashCovered == IInv => NetCoversCash
<1> SUFFICES ASSUME IInv, NEW p \in PoolIds, HasPool(p)
             PROVE  cash[pools[p].denom] <= pools[p].net
  BY DEF NetCoversCash
<1>1. pools[p].net = cash[pools[p].denom] + Sum(Owed(p), NumPositions) + writtenOff[p]
  BY DEF IInv, VaultAccounting
<1>2. Owed(p) \in [1 .. NumPositions -> Nat]
  BY OwedTypes DEF IInv
<1>3. Sum(Owed(p), NumPositions) \in Nat
  BY <1>2, SizesAssumption, SumBound
<1>4. writtenOff[p] \in Nat /\ cash[pools[p].denom] \in Nat
  BY SameCash DEF IInv, TypeOK
<1> QED BY <1>1, <1>3, <1>4

(***************************************************************************)
(* The shares of a deposit exceed its worth by at most half a share.       *)
(***************************************************************************)
LEMMA SharesForNat ==
  ASSUME IInv, NEW p \in PoolIds, NEW amount \in BondAmounts, NEW share \in SharesFor(p, amount)
  PROVE  /\ share \in Nat /\ amount \in Nat \ {0}
         /\ supply[p] > 0 =>
              \/ pools[p].net = 0
              \/ 2 * (share * pools[p].net) <= 2 * (amount * supply[p]) + pools[p].net
<1>1. amount \in Nat \ {0} /\ supply[p] \in Nat /\ pools[p].net \in Nat
  BY AmountsAssumption DEF IInv, TypeOK, Pool
<1>2. CASE supply[p] = 0 \/ pools[p].net = 0
  BY <1>1, <1>2 DEF SharesFor
<1>3. CASE ~ (supply[p] = 0 \/ pools[p].net = 0)
  <2>1. share \in RoundInt(amount * supply[p], pools[p].net)
    BY <1>3 DEF SharesFor
  <2>2. amount * supply[p] \in Int
    BY <1>1
  <2> QED BY <1>1, <2>1, <2>2, RoundIntBound
<1> QED BY <1>2, <1>3

(***************************************************************************)
(* Bond keeps the invariant.                                               *)
(***************************************************************************)
LEMMA BondIInv ==
  ASSUME IInv, NEW u \in Bonders, NEW p \in PoolIds, NEW amount \in BondAmounts,
         Bond(u, p, amount)
  PROVE  IInv'
<1>1. PICK share \in SharesFor(p, amount) :
        /\ supply' = [supply EXCEPT ![p] = @ + share]
        /\ shares' = [shares EXCEPT ![p][u] = @ + share]
  BY DEF Bond
<1>2. /\ HasPool(p)
      /\ cash' = [cash EXCEPT ![pools[p].denom] = @ + amount]
      /\ pools' = [pools EXCEPT ![p].net = @ + amount]
      /\ UNCHANGED <<height, time, debts, interest, liabilities, writtenOff>>
  BY DEF Bond
<1>3. share \in Nat /\ amount \in Nat
  BY SharesForNat
<1>4. shares[p][u] \in Nat /\ cash[pools[p].denom] \in Nat /\ pools[p].net \in Nat
  BY <1>2, SameCash DEF IInv, TypeOK, Pool
<1>5. shares[p][u] + share >= 0 /\ share \in Int
  BY <1>3, <1>4
<1>6. /\ supply' \in [PoolIds -> Nat] /\ shares' \in [PoolIds -> [Bonders -> Nat]]
      /\ SharesMatchSupply'
  BY <1>1, <1>5, SharesStep
<1>7. cash[pools[p].denom] + amount >= 0 /\ pools[p].net + amount >= 0 /\ amount \in Int
  BY <1>3, <1>4
<1> QED BY <1>2, <1>6, <1>7, CashStep

(***************************************************************************)
(* A redemption exceeds the worth of its shares by at most half a coin.    *)
(***************************************************************************)
LEMMA RedemptionNat ==
  ASSUME IInv, NEW p \in PoolIds, NEW share \in BondAmounts,
         NEW redemption \in RedemptionFor(p, share)
  PROVE  /\ redemption \in Nat /\ share \in Nat \ {0}
         /\ 2 * (redemption * supply[p]) <= 2 * (share * pools[p].net) + supply[p]
<1>1. share \in Nat \ {0} /\ supply[p] \in Nat /\ pools[p].net \in Nat
  BY AmountsAssumption DEF IInv, TypeOK, Pool
<1>2. share * pools[p].net \in Int
  BY <1>1
<1> QED BY <1>1, <1>2, RoundIntBound DEF RedemptionFor

(***************************************************************************)
(* Unbond keeps the invariant.                                             *)
(***************************************************************************)
LEMMA UnbondIInv ==
  ASSUME IInv, NEW u \in Bonders, NEW p \in PoolIds, NEW share \in BondAmounts,
         Unbond(u, p, share)
  PROVE  IInv'
<1>1. PICK redemption \in RedemptionFor(p, share) :
        /\ redemption <= cash[pools[p].denom]
        /\ cash' = [cash EXCEPT ![pools[p].denom] = @ - redemption]
        /\ pools' = [pools EXCEPT ![p].net = @ - redemption]
  BY DEF Unbond, MayWithdraw
<1>2. /\ HasPool(p) /\ share <= shares[p][u]
      /\ supply' = [supply EXCEPT ![p] = @ - share]
      /\ shares' = [shares EXCEPT ![p][u] = @ - share]
      /\ UNCHANGED <<height, time, debts, interest, liabilities, writtenOff>>
  BY DEF Unbond
<1>3. redemption \in Nat /\ share \in Nat
  BY RedemptionNat
<1>4. /\ shares[p][u] \in Nat /\ cash[pools[p].denom] \in Nat /\ pools[p].net \in Nat
      /\ supply[p] \in Nat
  BY <1>2, SameCash DEF IInv, TypeOK, Pool
<1>5. cash[pools[p].denom] <= pools[p].net
  BY <1>2, CashCovered DEF NetCoversCash
<1> DEFINE c == 0 - redemption
           e == 0 - share
<1>6. /\ shares[p][u] + e >= 0 /\ e \in Int
      /\ shares[p][u] - share = shares[p][u] + e /\ supply[p] - share = supply[p] + e
  BY <1>2, <1>3, <1>4
<1>7. /\ cash[pools[p].denom] + c >= 0 /\ pools[p].net + c >= 0 /\ c \in Int
      /\ cash[pools[p].denom] - redemption = cash[pools[p].denom] + c
      /\ pools[p].net - redemption = pools[p].net + c
  BY <1>1, <1>3, <1>4, <1>5
<1> HIDE DEF c, e
<1>8. supply' = [supply EXCEPT ![p] = @ + e] /\ shares' = [shares EXCEPT ![p][u] = @ + e]
  BY <1>2, <1>6
<1>9. /\ cash' = [cash EXCEPT ![pools[p].denom] = @ + c]
      /\ pools' = [pools EXCEPT ![p].net = @ + c]
  BY <1>1, <1>7
<1>10. /\ supply' \in [PoolIds -> Nat] /\ shares' \in [PoolIds -> [Bonders -> Nat]]
       /\ SharesMatchSupply'
  BY <1>6, <1>8, SharesStep
<1> QED BY <1>2, <1>7, <1>9, <1>10, CashStep
-----------------------------------------------------------------------------
(***************************************************************************)
(* Every step keeps the invariant.                                         *)
(***************************************************************************)
LEMMA NextIInv == IInv /\ [Next]_vars => IInv'
<1> SUFFICES ASSUME IInv, [Next]_vars PROVE IInv'
  OBVIOUS
<1>1. ASSUME NEW d \in Denoms, NEW prm \in PoolParams, AddPool(d, prm) PROVE IInv'
  BY <1>1, AddPoolIInv
<1>2. ASSUME NEW p \in PoolIds, NEW prm \in PoolParams, UpdatePool(p, prm) PROVE IInv'
  BY <1>2, UpdatePoolIInv
<1>3. ASSUME NEW gap \in BlockGaps, BeginBlock(gap) PROVE IInv'
  BY <1>3, BeginBlockIInv
<1>4. ASSUME NEW u \in Bonders, NEW p \in PoolIds, NEW amount \in BondAmounts,
             Bond(u, p, amount) \/ Unbond(u, p, amount)
      PROVE  IInv'
  BY <1>4, BondIInv, UnbondIInv
<1>5. ASSUME NEW b \in Positions, NEW p \in PoolIds,
             UpdateInterest(b, p) \/ CloseOnUnableToRepay(b, p)
      PROVE  IInv'
  BY <1>5, UpdateInterestIInv, CloseIInv
<1>6. ASSUME NEW b \in Positions, NEW p \in PoolIds, NEW amount \in LoanAmounts,
             Borrow(b, p, amount) \/ Repay(b, p, amount)
      PROVE  IInv'
  BY <1>6, BorrowIInv, RepayIInv
<1>7. CASE UNCHANGED vars
  BY <1>7 DEF vars, IInv, TypeOK, OneVaultPerDenom, CleanBeforePool, DebtConsistent,
              VaultAccounting, LiabilitiesMatchDebts, SharesMatchSupply, InterestUpToDate,
              CumulativeRateMonotone, HasPool, HasPoolByDenom, Owed, OwedThrough
<1> QED BY <1>1, <1>2, <1>3, <1>4, <1>5, <1>6, <1>7 DEF Next

(***************************************************************************)
(* The inductive invariant holds in every reachable state.                 *)
(***************************************************************************)
LEMMA Invariance == Spec => []IInv
<1>1. Init => IInv
  BY InitIInv
<1>2. IInv /\ [Next]_vars => IInv'
  BY NextIInv
<1> QED BY <1>1, <1>2, PTL DEF Spec

(***************************************************************************)
(* The vaults' state is well typed in every reachable state; in particular *)
(* no balance, debt, share count or liability goes negative.               *)
(***************************************************************************)
THEOREM TypeCorrect == Spec => []TypeOK
<1>1. IInv => TypeOK
  BY DEF IInv
<1> QED BY <1>1, Invariance, PTL

(***************************************************************************)
(* NetAmount is the cash plus all debts plus all write-offs, for any       *)
(* number of positions, loans and accruals.                                *)
(***************************************************************************)
THEOREM VaultAccountingHolds == Spec => []VaultAccounting
<1>1. IInv => VaultAccounting
  BY DEF IInv
<1> QED BY <1>1, Invariance, PTL

(***************************************************************************)
(* The liabilities kept per AMM pool are those of its positions.           *)
(***************************************************************************)
THEOREM LiabilitiesHold == Spec => []LiabilitiesMatchDebts
<1>1. IInv => LiabilitiesMatchDebts
  BY DEF IInv
<1> QED BY <1>1, Invariance, PTL

(***************************************************************************)
(* Unbond never meets its "negative borrowed amount" error.                *)
(***************************************************************************)
THEOREM NetCoversCashHolds == Spec => []NetCoversCash
<1>1. IInv => NetCoversCash
  BY CashCovered
<1> QED BY <1>1, Invariance, PTL

(***************************************************************************)
(* A debt deleted by Repay owes nothing, and no debt is paid more interest *)
(* than it accrued.                                                        *)
(***************************************************************************)
THEOREM DebtConsistentHolds == Spec => []DebtConsistent
<1>1. IInv => DebtConsistent
  BY DEF IInv
<1> QED BY <1>1, Invariance, PTL

(***************************************************************************)
(* The cumulative rate never decreases with the height, whatever the       *)
(* retention: accrued interest is never negative.                          *)
(***************************************************************************)
THEOREM CumulativeRateMonotoneHolds == Spec => []CumulativeRateMonotone
<1>1. IInv => CumulativeRateMonotone
  BY DEF IInv
<1> QED BY <1>1, Invariance, PTL

(***************************************************************************)
(* Each vault has a deposit denom of its own, and its shares are those the *)
(* depositors hold.                                                        *)
(***************************************************************************)
THEOREM OneVaultPerDenomHolds == Spec => [](OneVaultPerDenom /\ SharesMatchSupply)
<1>1. IInv => OneVaultPerDenom /\ SharesMatchSupply
  BY DEF IInv
<1> QED BY <1>1, Invariance, PTL
-----------------------------------------------------------------------------
(***************************************************************************)
(* A share keeps its value when the supply does not change and the net     *)
(* amount does not fall.                                                   *)
(***************************************************************************)
LEMMA KeptWhenSupplySame ==
  ASSUME IInv, NEW p \in PoolIds, NEW i \in Nat,
         supply'[p] = supply[p], pools'[p].net = pools[p].net + i
  PROVE  ShareValueKept(p)
<1> DEFINE n == pools[p].net
           s == supply[p]
<1>1. n \in Nat /\ s \in Nat
  BY DEF IInv, TypeOK, Pool
<1> HIDE DEF n, s
<1>2. n <= n + i
  BY <1>1
<1>3. n * s <= (n + i) * s
  <2>1. (n + i) * s = n * s + i * s /\ i * s \in Nat /\ n * s \in Nat
    BY <1>1
  <2> QED BY <2>1
<1>4. 2 * (n * s - (n + i) * s) <= 0
  <2>1. n * s \in Nat /\ (n + i) * s \in Nat
    BY <1>1
  <2> QED BY <1>3, <2>1
<1> QED BY <1>1, <1>2, <1>4 DEF ShareValueKept, n, s

(***************************************************************************)
(* A deposit keeps the value of the other depositors' shares.              *)
(***************************************************************************)
LEMMA BondKept ==
  ASSUME IInv, NEW u \in Bonders, NEW p \in PoolIds, NEW amount \in BondAmounts,
         Bond(u, p, amount), supply[p] > 0
  PROVE  ShareValueKept(p)
<1>1. PICK share \in SharesFor(p, amount) : supply' = [supply EXCEPT ![p] = @ + share]
  BY DEF Bond
<1> DEFINE n == pools[p].net
           s == supply[p]
<1>2. n \in Nat /\ s \in Nat /\ s > 0
  BY DEF IInv, TypeOK, Pool
<1>3. share \in Nat /\ amount \in Nat \ {0}
      /\ (n = 0 \/ 2 * (share * n) <= 2 * (amount * s) + n)
  BY SharesForNat
<1>4. supply'[p] = s + share /\ pools'[p].net = n + amount
  BY <1>1 DEF Bond, IInv, TypeOK, Pool
<1> HIDE DEF n, s
<1>5. /\ n * (s + share) = n * s + share * n
      /\ (n + amount) * s = n * s + amount * s
      /\ n * s \in Nat /\ share * n \in Nat /\ amount * s \in Nat
  BY <1>2, <1>3
<1>6. n * (s + share) - (n + amount) * s = share * n - amount * s
  BY <1>5
<1>7. 2 * (share * n - amount * s) <= n
  <2>1. CASE n = 0
    <3>1. share * n = 0
      BY <1>3, <2>1
    <3> QED BY <1>5, <2>1, <3>1
  <2>2. CASE 2 * (share * n) <= 2 * (amount * s) + n
    BY <1>2, <1>5, <2>2
  <2> QED BY <1>3, <2>1, <2>2
<1>8. share = 0 => share * n - amount * s <= 0
  <2>1. share = 0 => share * n = 0
    BY <1>2
  <2> QED BY <1>5, <2>1
<1>9. n <= n + amount
  BY <1>2, <1>3
<1>10. CASE share = 0
  <2>1. ~ (s + share > s) /\ ~ (s + share < s)
    BY <1>2, <1>10
  <2>2. 2 * (n * (s + share) - (n + amount) * s) <= 0
    BY <1>5, <1>6, <1>8, <1>10
  <2> QED BY <1>4, <1>9, <2>1, <2>2 DEF ShareValueKept, n, s
<1>11. CASE share # 0
  <2>1. s + share > s
    BY <1>2, <1>3, <1>11
  <2>2. 2 * (n * (s + share) - (n + amount) * s) <= n
    BY <1>6, <1>7
  <2> QED BY <1>4, <1>9, <2>1, <2>2 DEF ShareValueKept, n, s
<1> QED BY <1>10, <1>11

(***************************************************************************)
(* A withdrawal keeps the value of the remaining shares.                   *)
(***************************************************************************)
LEMMA UnbondKept ==
  ASSUME IInv, NEW u \in Bonders, NEW p \in PoolIds, NEW share \in BondAmounts,
         Unbond(u, p, share)
  PROVE  ShareValueKept(p)
<1>1. PICK r \in RedemptionFor(p, share) : pools' = [pools EXCEPT ![p].net = @ - r]
  BY DEF Unbond
<1> DEFINE n == pools[p].net
           s == supply[p]
<1>2. n \in Nat /\ s \in Nat
  BY DEF IInv, TypeOK, Pool
<1>3. r \in Nat /\ share \in Nat \ {0} /\ 2 * (r * s) <= 2 * (share * n) + s
  BY RedemptionNat
<1>4. supply'[p] = s - share /\ pools'[p].net = n - r
  BY <1>1 DEF Unbond, IInv, TypeOK, Pool
<1> HIDE DEF n, s
<1>5. /\ n * (s - share) = n * s - share * n
      /\ (n - r) * s = n * s - r * s
      /\ n * s \in Nat /\ share * n \in Nat /\ r * s \in Nat
  BY <1>2, <1>3
<1>6. n * (s - share) - (n - r) * s = r * s - share * n
  BY <1>5
<1>7. 2 * (n * (s - share) - (n - r) * s) <= s
  BY <1>2, <1>3, <1>5, <1>6
<1>8. s - share < s /\ ~ (s - share > s)
  BY <1>2, <1>3
<1> QED BY <1>4, <1>7, <1>8 DEF ShareValueKept, n, s

(***************************************************************************)
(* Every step keeps the value of the shares.                               *)
(***************************************************************************)
LEMMA StepKept ==
  ASSUME IInv, [Next]_vars, NEW p \in PoolIds, HasPool(p), supply[p] > 0
  PROVE  ShareValueKept(p)
<1> USE DEF vars
<1>0. TypeOK
  BY DEF IInv
<1>1. ASSUME NEW d \in Denoms, NEW prm \in PoolParams, AddPool(d, prm) PROVE ShareValueKept(p)
  <2>1. supply'[p] = supply[p] /\ pools'[p].net = pools[p].net + 0
    BY <1>0, <1>1 DEF AddPool, IsNextPoolId, TypeOK, Pool
  <2> QED BY <2>1, KeptWhenSupplySame
<1>2. ASSUME NEW q \in PoolIds, NEW prm \in PoolParams, UpdatePool(q, prm) PROVE ShareValueKept(p)
  <2>1. supply'[p] = supply[p] /\ pools'[p].net = pools[p].net + 0
    BY <1>0, <1>2 DEF UpdatePool, TypeOK, Pool
  <2> QED BY <2>1, KeptWhenSupplySame
<1>3. ASSUME NEW gap \in BlockGaps, BeginBlock(gap) PROVE ShareValueKept(p)
  <2>1. supply'[p] = supply[p] /\ pools'[p] = [pools[p] EXCEPT !.rate = NewRate(p)]
    BY <1>3 DEF BeginBlock
  <2>2. pools'[p].net = pools[p].net + 0
    BY <1>0, <2>1 DEF TypeOK, Pool
  <2> QED BY <2>1, <2>2, KeptWhenSupplySame
<1>4. ASSUME NEW u \in Bonders, NEW q \in PoolIds, NEW amount \in BondAmounts,
             Bond(u, q, amount) \/ Unbond(u, q, amount)
      PROVE  ShareValueKept(p)
  <2>1. CASE q = p
    BY <1>4, <2>1, BondKept, UnbondKept
  <2>2. CASE q # p
    <3>1. supply'[p] = supply[p] /\ pools'[p].net = pools[p].net + 0
      BY <1>0, <1>4, <2>2 DEF Bond, Unbond, TypeOK, Pool
    <3> QED BY <3>1, KeptWhenSupplySame
  <2> QED BY <2>1, <2>2
<1>5. ASSUME NEW b \in Positions, NEW q \in PoolIds, NEW i \in NewInterest(b, q),
             pools' = [pools EXCEPT ![q].net = @ + i], supply' = supply
      PROVE  ShareValueKept(p)
  <2>1. i \in Nat
    BY NewInterestNat
  <2>2. CASE q = p
    <3>1. pools'[p].net = pools[p].net + i
      BY <1>0, <1>5, <2>2 DEF TypeOK, Pool
    <3> QED BY <1>5, <2>1, <3>1, KeptWhenSupplySame
  <2>3. CASE q # p
    <3>1. pools'[p].net = pools[p].net + 0
      BY <1>0, <1>5, <2>3 DEF TypeOK, Pool
    <3> QED BY <1>5, <3>1, KeptWhenSupplySame
  <2> QED BY <2>2, <2>3
<1>6. ASSUME NEW b \in Positions, NEW q \in PoolIds,
             UpdateInterest(b, q) \/ CloseOnUnableToRepay(b, q)
      PROVE  ShareValueKept(p)
  <2>1. supply' = supply /\ \E i \in NewInterest(b, q) : pools' = [pools EXCEPT ![q].net = @ + i]
    BY <1>6 DEF UpdateInterest, CloseOnUnableToRepay, SetDebt
  <2> QED BY <1>5, <2>1
<1>7. ASSUME NEW b \in Positions, NEW q \in PoolIds, NEW amount \in LoanAmounts,
             Borrow(b, q, amount) \/ Repay(b, q, amount)
      PROVE  ShareValueKept(p)
  <2>1. supply' = supply /\ \E i \in NewInterest(b, q) : pools' = [pools EXCEPT ![q].net = @ + i]
    BY <1>7 DEF Borrow, Repay, SetDebt
  <2> QED BY <1>5, <2>1
<1>8. CASE UNCHANGED vars
  <2>1. supply'[p] = supply[p] /\ pools'[p].net = pools[p].net + 0
    BY <1>0, <1>8 DEF TypeOK, Pool
  <2> QED BY <2>1, KeptWhenSupplySame
<1> QED BY <1>1, <1>2, <1>3, <1>4, <1>6, <1>7, <1>8 DEF Next

(***************************************************************************)
(* No step lowers the value of a share by more than half a coin or half a  *)
(* share of rounding: depositors cannot dilute each other and borrowers    *)
(* cannot touch the share price.                                           *)
(***************************************************************************)
THEOREM SharePriceFairHolds == Spec => SharePriceFair
<1>1. IInv /\ [Next]_vars =>
        [\A p \in PoolIds : HasPool(p) /\ supply[p] > 0 => ShareValueKept(p)]_vars
  BY StepKept
<1> QED BY <1>1, Invariance, PTL DEF Spec, SharePriceFair

-----------------------------------------------------------------------------
(***************************************************************************)
(* x/stablestake's vaults are lending funds: the proof that StableStake    *)
(* implements LendingFund, for every number of vaults, depositors and      *)
(* positions, all amounts, rates and block times, and every retention of   *)
(* interest data.                                                          *)
(***************************************************************************)

(***************************************************************************)
(* Nothing an outsider sees of vault q changes.                            *)
(***************************************************************************)
SeenSame(q) ==
    /\ CashOf(q)' = CashOf(q) /\ BookOf(q)' = BookOf(q)
    /\ Owed(q)' = Owed(q) /\ writtenOff'[q] = writtenOff[q]
    /\ supply'[q] = supply[q] /\ shares'[q] = shares[q]

LEMMA SameSeen ==
  ASSUME NEW q \in PoolIds, SeenSame(q)
  PROVE  Fund!Same(q)
BY DEF SeenSame, Fund!Same, Fund!SameLoans, Fund!SameShares

(***************************************************************************)
(* The initial vaults are empty funds.                                     *)
(***************************************************************************)
LEMMA InitFund == Init => Fund!Init
<1> SUFFICES ASSUME Init PROVE Fund!Init
  OBVIOUS
<1>1. \A p \in PoolIds : ~ HasPool(p)
  BY DEF Init, HasPool, NoPool
<1>2. \A p \in PoolIds : CashOf(p) = 0 /\ BookOf(p) = 0
  BY <1>1 DEF CashOf, BookOf
<1>3. \A p \in PoolIds : Owed(p) = [b \in Positions |-> 0]
  BY DEF Init, Owed, TotalLiabilities, NoDebt
<1> QED BY <1>2, <1>3 DEF Init, Fund!Init

(***************************************************************************)
(* A step that nobody sees is a stutter of the funds.                      *)
(***************************************************************************)
LEMMA UnseenStutters ==
  ASSUME IInv, IInv', \A q \in PoolIds : SeenSame(q)
  PROVE  UNCHANGED Fund!fund
<1>1. /\ [p \in PoolIds |-> CashOf(p)]' = [p \in PoolIds |-> CashOf(p)]
      /\ [p \in PoolIds |-> BookOf(p)]' = [p \in PoolIds |-> BookOf(p)]
      /\ [p \in PoolIds |-> Owed(p)]' = [p \in PoolIds |-> Owed(p)]
  BY DEF SeenSame
<1>2. writtenOff' = writtenOff /\ supply' = supply /\ shares' = shares
  <2>1. /\ writtenOff \in [PoolIds -> Nat] /\ writtenOff' \in [PoolIds -> Nat]
        /\ supply \in [PoolIds -> Nat] /\ supply' \in [PoolIds -> Nat]
        /\ shares \in [PoolIds -> [Bonders -> Nat]] /\ shares' \in [PoolIds -> [Bonders -> Nat]]
    BY DEF IInv, TypeOK
  <2> QED BY <2>1 DEF SeenSame
<1> QED BY <1>1, <1>2 DEF Fund!fund

(***************************************************************************)
(* A step of the funds concerns one vault.                                 *)
(***************************************************************************)
LEMMA FundStep ==
  ASSUME NEW p \in PoolIds, \A q \in PoolIds \ {p} : SeenSame(q),
         \/ \E u \in Bonders : Fund!Deposit(p, u) \/ Fund!Withdraw(p, u)
         \/ \E b \in Positions : Fund!Lend(p, b) \/ Fund!Collect(p, b) \/ Fund!WriteOff(p, b)
  PROVE  Fund!Next
<1>1. \A q \in PoolIds \ {p} : Fund!Same(q)
  BY SameSeen
<1> QED BY <1>1 DEF Fund!Next
-----------------------------------------------------------------------------
(***************************************************************************)
(* What is seen of a step that replaces one debt.                          *)
(***************************************************************************)
DebtSeen(p, b, debt, i, c, w) ==
    /\ CashOf(p)' = CashOf(p) + c
    /\ BookOf(p)' = BookOf(p) + i
    /\ Owed(p)' = [Owed(p) EXCEPT ![b] = TotalLiabilities(debt)]
    /\ writtenOff'[p] = writtenOff[p] + w
    /\ supply'[p] = supply[p] /\ shares'[p] = shares[p]
    /\ \A q \in PoolIds \ {p} : SeenSame(q)

LEMMA DebtStepSeen ==
  ASSUME IInv, NEW p \in PoolIds, HasPool(p), NEW b \in Positions,
         NEW debt, NEW i, NEW delta, NEW c, NEW w,
         SetDebt(b, p, debt, i, delta),
         cash' = [cash EXCEPT ![pools[p].denom] = @ + c],
         writtenOff' = [writtenOff EXCEPT ![p] = @ + w],
         UNCHANGED <<supply, shares>>
  PROVE  DebtSeen(p, b, debt, i, c, w)
<1> DEFINE D == pools[p].denom
<1>0. TypeOK /\ OneVaultPerDenom
  BY DEF IInv
<1>1. /\ D \in Denoms
      /\ debts' = [debts EXCEPT ![p][b] = debt]
      /\ pools' = [pools EXCEPT ![p].net = @ + i]
  BY <1>0 DEF SetDebt, HasPool, TypeOK, Pool
<1>2. /\ \A q \in PoolIds : pools'[q].denom = pools[q].denom
      /\ pools'[p].net = pools[p].net + i
      /\ \A q \in PoolIds : q # p => pools'[q] = pools[q]
  BY <1>0, <1>1 DEF TypeOK, Pool
<1>3. \A q \in PoolIds : HasPool(q)' <=> HasPool(q)
  BY <1>2 DEF HasPool
<1>4. cash'[D] = cash[D] + c /\ \A d \in Denoms : d # D => cash'[d] = cash[d]
  BY <1>0, <1>1 DEF TypeOK
<1>5. /\ debts'[p] = [debts[p] EXCEPT ![b] = debt]
      /\ \A q \in PoolIds : q # p => debts'[q] = debts[q]
  BY <1>0, <1>1 DEF TypeOK
<1>6. Owed(p)' = [Owed(p) EXCEPT ![b] = TotalLiabilities(debt)]
  <2>1. debts[p] \in [Positions -> Debt]
    BY <1>0 DEF TypeOK
  <2>2. \A x \in Positions : debts'[p][x] = IF x = b THEN debt ELSE debts[p][x]
    BY <1>5, <2>1
  <2> QED BY <2>2 DEF Owed
<1>7. /\ writtenOff'[p] = writtenOff[p] + w
      /\ \A q \in PoolIds : q # p => writtenOff'[q] = writtenOff[q]
  BY <1>0 DEF TypeOK
<1>8. CashOf(p)' = CashOf(p) + c /\ BookOf(p)' = BookOf(p) + i
  BY <1>2, <1>3, <1>4 DEF CashOf, BookOf
<1>9. ASSUME NEW q \in PoolIds, q # p PROVE SeenSame(q)
  <2>1. HasPool(q) => pools[q].denom # D /\ pools[q].denom \in Denoms
    BY <1>0, <1>9 DEF OneVaultPerDenom, HasPool, TypeOK, Pool
  <2>2. CashOf(q)' = CashOf(q) /\ BookOf(q)' = BookOf(q)
    BY <1>2, <1>3, <1>4, <1>9, <2>1 DEF CashOf, BookOf
  <2>3. Owed(q)' = Owed(q)
    BY <1>5, <1>9 DEF Owed
  <2> QED BY <1>7, <1>9, <2>2, <2>3 DEF SeenSame
<1> QED BY <1>6, <1>7, <1>8, <1>9 DEF DebtSeen

(***************************************************************************)
(* What is seen are naturals, and interest accrues on a debt only.         *)
(***************************************************************************)
LEMMA SeenTypes ==
  ASSUME IInv, NEW p \in PoolIds
  PROVE  /\ CashOf(p) \in Nat /\ BookOf(p) \in Nat
         /\ supply[p] \in Nat /\ writtenOff[p] \in Nat
         /\ shares[p] \in [Bonders -> Nat]
         /\ Owed(p) \in [Positions -> Nat]
         /\ \A b \in Positions : Owed(p)[b] = TotalLiabilities(debts[p][b])
<1>1. TypeOK /\ DebtConsistent
  BY DEF IInv
<1>2. CashOf(p) \in Nat /\ BookOf(p) \in Nat
  BY <1>1 DEF TypeOK, Pool, CashOf, BookOf, HasPool
<1>3. Owed(p) \in [Positions -> Nat]
  BY <1>1, OwedTypes DEF Positions
<1> QED BY <1>1, <1>2, <1>3 DEF TypeOK, Owed

LEMMA InterestOnDebtOnly ==
  ASSUME IInv, NEW p \in PoolIds, NEW b \in Positions, NEW i \in NewInterest(b, p)
  PROVE  i \in Nat /\ (i > 0 => Owed(p)[b] > 0)
<1>1. i \in Nat /\ (debts[p][b].borrowed = 0 => i = 0)
  BY NewInterestNat
<1>2. debts[p][b] \in Debt /\ debts[p][b].paid <= debts[p][b].stacked
  BY DEF IInv, TypeOK, DebtConsistent
<1>3. debts[p][b].borrowed > 0 => TotalLiabilities(debts[p][b]) > 0
  BY <1>2 DEF TotalLiabilities, Debt
<1>4. Owed(p)[b] = TotalLiabilities(debts[p][b])
  BY SeenTypes
<1> QED BY <1>1, <1>2, <1>3, <1>4 DEF Debt

(***************************************************************************)
(* A debt that grows by its interest and falls by the coins that come in   *)
(* is collected.                                                           *)
(***************************************************************************)
LEMMA CollectSeen ==
  ASSUME IInv, NEW p \in PoolIds, NEW b \in Positions,
         NEW debt, NEW i \in Nat, NEW c \in Nat,
         DebtSeen(p, b, debt, i, c, 0),
         i > 0 => Owed(p)[b] > 0,
         TotalLiabilities(debt) = Owed(p)[b] + i - c,
         c <= Owed(p)[b] + i
  PROVE  Fund!Next
<1>1. /\ CashOf(p) \in Nat /\ BookOf(p) \in Nat /\ writtenOff[p] \in Nat
      /\ Owed(p)[b] \in Nat
  BY SeenTypes
<1>2. /\ CashOf(p)' - CashOf(p) = c /\ BookOf(p)' - BookOf(p) = i
      /\ writtenOff'[p] = writtenOff[p]
      /\ Owed(p)' = [Owed(p) EXCEPT ![b] = Owed(p)[b] + i - c]
      /\ supply'[p] = supply[p] /\ shares'[p] = shares[p]
  BY <1>1 DEF DebtSeen
<1>3. Fund!Collect(p, b)
  BY <1>2 DEF Fund!Collect, Fund!Accrues, Fund!Interest, Fund!Gain, Fund!SameShares
<1> QED BY <1>3, FundStep DEF DebtSeen

LEMMA UpdateInterestCollects ==
  ASSUME IInv, NEW p \in PoolIds, NEW b \in Positions, UpdateInterest(b, p)
  PROVE  Fund!Next
<1>1. PICK i \in NewInterest(b, p) : SetDebt(b, p, UpdateInterestStacked(b, p, i), i, i)
  BY DEF UpdateInterest
<1> DEFINE debt == UpdateInterestStacked(b, p, i)
<1>2. i \in Nat /\ (i > 0 => Owed(p)[b] > 0)
  BY InterestOnDebtOnly
<1>3. /\ HasPool(p) /\ UNCHANGED <<supply, shares>>
      /\ cash' = [cash EXCEPT ![pools[p].denom] = @ + 0]
      /\ writtenOff' = [writtenOff EXCEPT ![p] = @ + 0]
  BY SameCash DEF UpdateInterest
<1>4. Owed(p)[b] \in Nat /\ TotalLiabilities(debt) = Owed(p)[b] + i
  BY AccruedDebt, SeenTypes
<1>5. SetDebt(b, p, debt, i, i)
  BY <1>1
<1> HIDE DEF debt
<1>6. DebtSeen(p, b, debt, i, 0, 0)
  BY <1>3, <1>5, DebtStepSeen
<1> QED BY <1>2, <1>4, <1>6, CollectSeen

LEMMA BorrowLends ==
  ASSUME IInv, NEW p \in PoolIds, NEW b \in Positions, NEW amount \in LoanAmounts,
         Borrow(b, p, amount)
  PROVE  Fund!Next
<1>1. PICK i \in NewInterest(b, p) :
        SetDebt(b, p, [UpdateInterestStacked(b, p, i) EXCEPT !.borrowed = @ + amount],
                i, i + amount)
  BY DEF Borrow
<1> DEFINE accrued == UpdateInterestStacked(b, p, i)
           debt == [accrued EXCEPT !.borrowed = @ + amount]
           c == 0 - amount
<1>2. i \in Nat /\ (i > 0 => Owed(p)[b] > 0) /\ amount \in Nat \ {0}
  BY InterestOnDebtOnly, AmountsAssumption
<1>3. /\ HasPool(p) /\ UNCHANGED <<supply, shares>>
      /\ cash' = [cash EXCEPT ![pools[p].denom] = @ - amount]
      /\ amount <= cash[pools[p].denom]
      /\ writtenOff' = [writtenOff EXCEPT ![p] = @ + 0]
      /\ cash[pools[p].denom] \in Nat
  BY SameCash DEF Borrow
<1>4. Owed(p)[b] \in Nat /\ TotalLiabilities(accrued) = Owed(p)[b] + i /\ accrued \in Debt
  BY AccruedDebt, SeenTypes
<1>5. SetDebt(b, p, debt, i, i + amount)
  BY <1>1
<1> HIDE DEF accrued
<1>6. TotalLiabilities(debt) = Owed(p)[b] + i + amount
  BY <1>2, <1>4 DEF TotalLiabilities, Debt
<1>7. cash' = [cash EXCEPT ![pools[p].denom] = @ + c]
  <2>1. cash[pools[p].denom] - amount = cash[pools[p].denom] + c
    BY <1>2, <1>3
  <2> QED BY <1>3, <2>1
<1> HIDE DEF debt
<1>8. DebtSeen(p, b, debt, i, c, 0)
  <2> HIDE DEF c
  <2> QED BY <1>3, <1>5, <1>7, DebtStepSeen
<1>9. /\ CashOf(p) \in Nat /\ BookOf(p) \in Nat /\ writtenOff[p] \in Nat
      /\ CashOf(p) = cash[pools[p].denom]
  BY <1>3, SeenTypes DEF CashOf
<1>10. /\ CashOf(p) - CashOf(p)' = amount /\ BookOf(p)' - BookOf(p) = i
       /\ writtenOff'[p] = writtenOff[p]
       /\ Owed(p)' = [Owed(p) EXCEPT ![b] = Owed(p)[b] + i + amount]
       /\ supply'[p] = supply[p] /\ shares'[p] = shares[p]
  BY <1>2, <1>6, <1>8, <1>9 DEF DebtSeen
<1>11. Fund!Lend(p, b)
  BY <1>2, <1>3, <1>9, <1>10 DEF Fund!Lend, Fund!Accrues, Fund!Interest, Fund!Gain, Fund!SameShares
<1> QED BY <1>8, <1>11, FundStep DEF DebtSeen

LEMMA RepayCollects ==
  ASSUME IInv, NEW p \in PoolIds, NEW b \in Positions, NEW amount \in LoanAmounts,
         Repay(b, p, amount)
  PROVE  Fund!Next
<1> DEFINE repaid(i) == Repaid(UpdateInterestStacked(b, p, i), amount)
<1>1. PICK i \in NewInterest(b, p) :
        /\ repaid(i).borrowed >= 0
        /\ SetDebt(b, p, IF repaid(i).borrowed = 0 THEN NoDebt ELSE repaid(i), i, i - amount)
  BY DEF Repay
<1> DEFINE debt == IF repaid(i).borrowed = 0 THEN NoDebt ELSE repaid(i)
<1>2. i \in Nat /\ (i > 0 => Owed(p)[b] > 0) /\ amount \in Nat \ {0}
  BY InterestOnDebtOnly, AmountsAssumption
<1>3. /\ HasPool(p) /\ UNCHANGED <<supply, shares>>
      /\ cash' = [cash EXCEPT ![pools[p].denom] = @ + amount]
      /\ writtenOff' = [writtenOff EXCEPT ![p] = @ + 0]
  BY SameCash DEF Repay
<1>4. /\ debt \in Debt /\ debt.paid <= debt.stacked
      /\ TotalLiabilities(debt) = Owed(p)[b] + i - amount
  BY <1>1, RepaidDebt, SeenTypes
<1>5. SetDebt(b, p, debt, i, i - amount)
  BY <1>1
<1> HIDE DEF debt
<1>6. Owed(p)[b] \in Nat /\ TotalLiabilities(debt) \in Nat
  BY <1>4, SeenTypes DEF TotalLiabilities, Debt
<1>7. amount <= Owed(p)[b] + i
  BY <1>2, <1>4, <1>6
<1>8. DebtSeen(p, b, debt, i, amount, 0)
  BY <1>3, <1>5, DebtStepSeen
<1> QED BY <1>2, <1>4, <1>7, <1>8, CollectSeen

LEMMA CloseWritesOff ==
  ASSUME IInv, NEW p \in PoolIds, NEW b \in Positions, CloseOnUnableToRepay(b, p)
  PROVE  Fund!Next
<1>1. PICK i \in NewInterest(b, p) :
        /\ SetDebt(b, p, NoDebt, i, i - TotalLiabilities(UpdateInterestStacked(b, p, i)))
        /\ writtenOff' = [writtenOff EXCEPT ![p] = @ + TotalLiabilities(UpdateInterestStacked(b, p, i))]
  BY DEF CloseOnUnableToRepay
<1> DEFINE unpaid == TotalLiabilities(UpdateInterestStacked(b, p, i))
<1>2. i \in Nat /\ (i > 0 => Owed(p)[b] > 0)
  BY InterestOnDebtOnly
<1>3. /\ HasPool(p) /\ UNCHANGED <<supply, shares>>
      /\ cash' = [cash EXCEPT ![pools[p].denom] = @ + 0]
  BY SameCash DEF CloseOnUnableToRepay
<1>4. unpaid = Owed(p)[b] + i /\ Owed(p)[b] \in Nat
  BY AccruedDebt, SeenTypes
<1>5. TotalLiabilities(NoDebt) = 0
  BY DEF NoDebt, TotalLiabilities
<1>6. SetDebt(b, p, NoDebt, i, i - unpaid) /\ writtenOff' = [writtenOff EXCEPT ![p] = @ + unpaid]
  BY <1>1
<1> HIDE DEF unpaid
<1>7. DebtSeen(p, b, NoDebt, i, 0, unpaid)
  BY <1>3, <1>6, DebtStepSeen
<1>8. CashOf(p) \in Nat /\ BookOf(p) \in Nat /\ writtenOff[p] \in Nat
  BY SeenTypes
<1>9. /\ CashOf(p)' = CashOf(p) /\ BookOf(p)' - BookOf(p) = i
      /\ writtenOff'[p] = writtenOff[p] + Owed(p)[b] + i
      /\ Owed(p)' = [Owed(p) EXCEPT ![b] = 0]
      /\ supply'[p] = supply[p] /\ shares'[p] = shares[p]
  BY <1>2, <1>4, <1>5, <1>7, <1>8 DEF DebtSeen
<1>10. Fund!WriteOff(p, b)
  BY <1>2, <1>9 DEF Fund!WriteOff, Fund!Accrues, Fund!Interest, Fund!Gain, Fund!SameShares
<1> QED BY <1>7, <1>10, FundStep DEF DebtSeen
-----------------------------------------------------------------------------
(***************************************************************************)
(* What is seen of a deposit or a withdrawal of c coins for e shares.      *)
(***************************************************************************)
SharesSeen(p, u, c, e) ==
    /\ CashOf(p)' = CashOf(p) + c
    /\ BookOf(p)' = BookOf(p) + c
    /\ Owed(p)' = Owed(p) /\ writtenOff'[p] = writtenOff[p]
    /\ supply'[p] = supply[p] + e
    /\ shares'[p] = [shares[p] EXCEPT ![u] = shares[p][u] + e]
    /\ \A q \in PoolIds \ {p} : SeenSame(q)

LEMMA SharesStepSeen ==
  ASSUME IInv, NEW p \in PoolIds, HasPool(p), NEW u \in Bonders,
         NEW c \in Int, NEW e \in Int,
         cash' = [cash EXCEPT ![pools[p].denom] = @ + c],
         pools' = [pools EXCEPT ![p].net = @ + c],
         supply' = [supply EXCEPT ![p] = @ + e],
         shares' = [shares EXCEPT ![p][u] = @ + e],
         UNCHANGED <<debts, writtenOff>>
  PROVE  SharesSeen(p, u, c, e)
<1> DEFINE D == pools[p].denom
<1>0. TypeOK /\ OneVaultPerDenom
  BY DEF IInv
<1>1. D \in Denoms
  BY <1>0 DEF HasPool, TypeOK, Pool
<1>2. /\ \A q \in PoolIds : pools'[q].denom = pools[q].denom
      /\ pools'[p].net = pools[p].net + c
      /\ \A q \in PoolIds : q # p => pools'[q] = pools[q]
  BY <1>0 DEF TypeOK, Pool
<1>3. \A q \in PoolIds : HasPool(q)' <=> HasPool(q)
  BY <1>2 DEF HasPool
<1>4. cash'[D] = cash[D] + c /\ \A d \in Denoms : d # D => cash'[d] = cash[d]
  BY <1>0, <1>1 DEF TypeOK
<1>5. /\ supply'[p] = supply[p] + e
      /\ shares'[p] = [shares[p] EXCEPT ![u] = shares[p][u] + e]
      /\ \A q \in PoolIds : q # p => supply'[q] = supply[q] /\ shares'[q] = shares[q]
  BY <1>0 DEF TypeOK
<1>6. CashOf(p)' = CashOf(p) + c /\ BookOf(p)' = BookOf(p) + c
  BY <1>2, <1>3, <1>4 DEF CashOf, BookOf
<1>7. \A q \in PoolIds : Owed(q)' = Owed(q)
  BY DEF Owed
<1>8. ASSUME NEW q \in PoolIds, q # p PROVE SeenSame(q)
  <2>1. HasPool(q) => pools[q].denom # D /\ pools[q].denom \in Denoms
    BY <1>0, <1>8 DEF OneVaultPerDenom, HasPool, TypeOK, Pool
  <2>2. CashOf(q)' = CashOf(q) /\ BookOf(q)' = BookOf(q)
    BY <1>2, <1>3, <1>4, <1>8, <2>1 DEF CashOf, BookOf
  <2> QED BY <1>5, <1>7, <1>8, <2>2 DEF SeenSame
<1> QED BY <1>5, <1>6, <1>7, <1>8 DEF SharesSeen

LEMMA BondDeposits ==
  ASSUME IInv, NEW u \in Bonders, NEW p \in PoolIds, NEW amount \in BondAmounts,
         Bond(u, p, amount)
  PROVE  Fund!Next
<1>1. PICK share \in SharesFor(p, amount) :
        supply' = [supply EXCEPT ![p] = @ + share] /\ shares' = [shares EXCEPT ![p][u] = @ + share]
  BY DEF Bond
<1>2. share \in Nat /\ amount \in Nat \ {0}
  BY SharesForNat
<1>3. HasPool(p)
  BY DEF Bond
<1>4. SharesSeen(p, u, amount, share)
  <2>1. share \in Int /\ amount \in Int
    BY <1>2
  <2>2. /\ cash' = [cash EXCEPT ![pools[p].denom] = @ + amount]
        /\ pools' = [pools EXCEPT ![p].net = @ + amount]
        /\ UNCHANGED <<debts, writtenOff>>
    BY DEF Bond
  <2> QED BY <1>1, <1>3, <2>1, <2>2, SharesStepSeen
<1>5. CashOf(p) \in Nat /\ BookOf(p) \in Nat /\ supply[p] \in Nat /\ BookOf(p) = pools[p].net
  BY <1>3, SeenTypes DEF BookOf
<1>6. IF supply[p] = 0 \/ BookOf(p) = 0 THEN share = amount
      ELSE Fund!Nearest(share, amount * supply[p], BookOf(p))
  <2>1. CASE supply[p] = 0 \/ BookOf(p) = 0
    BY <1>5, <2>1 DEF SharesFor
  <2>2. CASE ~ (supply[p] = 0 \/ BookOf(p) = 0)
    <3>1. share \in RoundInt(amount * supply[p], BookOf(p))
      BY <1>5, <2>2 DEF SharesFor
    <3>2. amount * supply[p] \in Int
      BY <1>2, <1>5
    <3> QED BY <1>5, <2>2, <3>1, <3>2, RoundIntBound DEF Fund!Nearest
  <2> QED BY <2>1, <2>2
<1>7. /\ CashOf(p)' - CashOf(p) = amount /\ supply'[p] - supply[p] = share
      /\ BookOf(p)' = BookOf(p) + amount
      /\ shares'[p] = [shares[p] EXCEPT ![u] = shares[p][u] + share]
      /\ Owed(p)' = Owed(p) /\ writtenOff'[p] = writtenOff[p]
  BY <1>2, <1>4, <1>5 DEF SharesSeen
<1>8. Fund!Deposit(p, u)
  BY <1>2, <1>6, <1>7 DEF Fund!Deposit, Fund!Gain, Fund!SameLoans
<1> QED BY <1>4, <1>8, FundStep DEF SharesSeen

LEMMA UnbondWithdraws ==
  ASSUME IInv, NEW u \in Bonders, NEW p \in PoolIds, NEW share \in BondAmounts,
         Unbond(u, p, share)
  PROVE  Fund!Next
<1>1. PICK redemption \in RedemptionFor(p, share) :
        /\ redemption > 0 /\ redemption <= cash[pools[p].denom]
        /\ cash' = [cash EXCEPT ![pools[p].denom] = @ - redemption]
        /\ pools' = [pools EXCEPT ![p].net = @ - redemption]
  BY DEF Unbond, MayWithdraw
<1>2. /\ HasPool(p) /\ share <= shares[p][u]
      /\ supply' = [supply EXCEPT ![p] = @ - share]
      /\ shares' = [shares EXCEPT ![p][u] = @ - share]
      /\ UNCHANGED <<debts, writtenOff>>
  BY DEF Unbond
<1>3. redemption \in Nat /\ share \in Nat \ {0}
  BY RedemptionNat
<1>4. /\ CashOf(p) \in Nat /\ BookOf(p) \in Nat /\ supply[p] \in Nat
      /\ shares[p] \in [Bonders -> Nat]
      /\ CashOf(p) = cash[pools[p].denom] /\ BookOf(p) = pools[p].net
  BY <1>2, SeenTypes DEF CashOf, BookOf
<1> DEFINE c == 0 - redemption
           e == 0 - share
<1>5. /\ c \in Int /\ e \in Int
      /\ cash[pools[p].denom] - redemption = cash[pools[p].denom] + c
      /\ pools[p].net - redemption = pools[p].net + c
      /\ shares[p][u] - share = shares[p][u] + e /\ supply[p] - share = supply[p] + e
  BY <1>3, <1>4
<1>6. SharesSeen(p, u, c, e)
  <2> HIDE DEF c, e
  <2>1. /\ cash' = [cash EXCEPT ![pools[p].denom] = @ + c]
        /\ pools' = [pools EXCEPT ![p].net = @ + c]
    BY <1>1, <1>5
  <2>2. /\ supply' = [supply EXCEPT ![p] = @ + e]
        /\ shares' = [shares EXCEPT ![p][u] = @ + e]
    BY <1>2, <1>5
  <2> QED BY <1>2, <1>5, <2>1, <2>2, SharesStepSeen
<1>7. Fund!Nearest(redemption, share * BookOf(p), supply[p])
  <2>1. share * BookOf(p) \in Int
    BY <1>3, <1>4
  <2> QED BY <1>4, <2>1, RoundIntBound DEF RedemptionFor, Fund!Nearest
<1>8. /\ CashOf(p) - CashOf(p)' = redemption /\ supply[p] - supply'[p] = share
      /\ BookOf(p)' = BookOf(p) - redemption
      /\ shares'[p] = [shares[p] EXCEPT ![u] = shares[p][u] - share]
      /\ Owed(p)' = Owed(p) /\ writtenOff'[p] = writtenOff[p]
  BY <1>3, <1>4, <1>6 DEF SharesSeen
<1>9. Fund!Withdraw(p, u)
  BY <1>1, <1>2, <1>3, <1>4, <1>7, <1>8 DEF Fund!Withdraw, Fund!SameLoans
<1> QED BY <1>6, <1>9, FundStep DEF SharesSeen
-----------------------------------------------------------------------------
(***************************************************************************)
(* Governance and the block moves nobody's money: a step that keeps the    *)
(* ledgers and what is seen of every vault's record goes unseen.           *)
(***************************************************************************)
LEMMA RatesUnseen ==
  ASSUME IInv, IInv',
         \A q \in PoolIds : CashOf(q)' = CashOf(q) /\ BookOf(q)' = BookOf(q),
         UNCHANGED <<supply, shares, debts, writtenOff>>
  PROVE  UNCHANGED Fund!fund
<1>1. \A q \in PoolIds : Owed(q)' = Owed(q)
  BY DEF Owed
<1>2. \A q \in PoolIds : SeenSame(q)
  BY <1>1 DEF SeenSame
<1> QED BY <1>2, UnseenStutters

LEMMA AddPoolUnseen ==
  ASSUME IInv, IInv', NEW d \in Denoms, NEW prm \in PoolParams, AddPool(d, prm)
  PROVE  UNCHANGED Fund!fund
<1>1. PICK p \in PoolIds :
        /\ ~ HasPool(p)
        /\ pools' = [pools EXCEPT ![p] =
              [denom |-> d, net |-> 0, rate |-> prm.rate, rmin |-> prm.rmin,
               rmax |-> prm.rmax, rinc |-> prm.rinc, rdec |-> prm.rdec,
               hgf |-> prm.hgf, mlr |-> prm.mlr, mwr |-> prm.mwr]]
  BY DEF AddPool, IsNextPoolId
<1>2. pools \in [PoolIds -> Pool]
  BY DEF IInv, TypeOK
<1>3. /\ pools'[p].denom = d /\ pools'[p].net = 0
      /\ \A q \in PoolIds : q # p => pools'[q] = pools[q]
  BY <1>1, <1>2
<1>4. cash[d] = 0 /\ UNCHANGED <<cash, supply, shares, debts, writtenOff>>
  BY DEF AddPool, IInv, CleanBeforePool
<1>5. CashOf(p)' = 0 /\ BookOf(p)' = 0
  BY <1>3, <1>4 DEF CashOf, BookOf, HasPool
<1>6. CashOf(p) = 0 /\ BookOf(p) = 0
  BY <1>1 DEF CashOf, BookOf
<1>7. \A q \in PoolIds : q # p => CashOf(q)' = CashOf(q) /\ BookOf(q)' = BookOf(q)
  BY <1>3, <1>4 DEF CashOf, BookOf, HasPool
<1> QED BY <1>4, <1>5, <1>6, <1>7, RatesUnseen

LEMMA UpdatePoolUnseen ==
  ASSUME IInv, IInv', NEW p \in PoolIds, NEW prm \in PoolParams, UpdatePool(p, prm)
  PROVE  UNCHANGED Fund!fund
<1>1. \A q \in PoolIds : pools'[q].denom = pools[q].denom /\ pools'[q].net = pools[q].net
  BY DEF UpdatePool, IInv, TypeOK, Pool
<1>2. UNCHANGED <<cash, supply, shares, debts, writtenOff>>
  BY DEF UpdatePool
<1>3. \A q \in PoolIds : CashOf(q)' = CashOf(q) /\ BookOf(q)' = BookOf(q)
  BY <1>1, <1>2 DEF CashOf, BookOf, HasPool
<1> QED BY <1>2, <1>3, RatesUnseen

LEMMA BeginBlockUnseen ==
  ASSUME IInv, IInv', NEW gap \in BlockGaps, BeginBlock(gap)
  PROVE  UNCHANGED Fund!fund
<1>1. ASSUME NEW q \in PoolIds
      PROVE  pools'[q].denom = pools[q].denom /\ pools'[q].net = pools[q].net
  <2>1. pools'[q] = IF HasPool(q) THEN [pools[q] EXCEPT !.rate = NewRate(q)] ELSE pools[q]
    BY DEF BeginBlock
  <2>2. pools[q] \in Pool
    BY DEF IInv, TypeOK
  <2> QED BY <2>1, <2>2 DEF Pool
<1>2. UNCHANGED <<cash, supply, shares, debts, writtenOff>>
  BY DEF BeginBlock
<1>3. \A q \in PoolIds : CashOf(q)' = CashOf(q) /\ BookOf(q)' = BookOf(q)
  BY <1>1, <1>2 DEF CashOf, BookOf, HasPool
<1> QED BY <1>2, <1>3, RatesUnseen

(***************************************************************************)
(* Every step of the vaults is a step of the funds, or a stutter.          *)
(***************************************************************************)
LEMMA NextFund == IInv /\ IInv' /\ [Next]_vars => [Fund!Next]_(Fund!fund)
<1> SUFFICES ASSUME IInv, IInv', [Next]_vars PROVE Fund!Next \/ UNCHANGED Fund!fund
  OBVIOUS
<1>1. ASSUME NEW d \in Denoms, NEW prm \in PoolParams, AddPool(d, prm)
      PROVE  UNCHANGED Fund!fund
  BY <1>1, AddPoolUnseen
<1>2. ASSUME NEW p \in PoolIds, NEW prm \in PoolParams, UpdatePool(p, prm)
      PROVE  UNCHANGED Fund!fund
  BY <1>2, UpdatePoolUnseen
<1>3. ASSUME NEW gap \in BlockGaps, BeginBlock(gap) PROVE UNCHANGED Fund!fund
  BY <1>3, BeginBlockUnseen
<1>4. ASSUME NEW u \in Bonders, NEW p \in PoolIds, NEW amount \in BondAmounts,
             Bond(u, p, amount) \/ Unbond(u, p, amount)
      PROVE  Fund!Next
  BY <1>4, BondDeposits, UnbondWithdraws
<1>5. ASSUME NEW b \in Positions, NEW p \in PoolIds,
             UpdateInterest(b, p) \/ CloseOnUnableToRepay(b, p)
      PROVE  Fund!Next
  BY <1>5, UpdateInterestCollects, CloseWritesOff
<1>6. ASSUME NEW b \in Positions, NEW p \in PoolIds, NEW amount \in LoanAmounts,
             Borrow(b, p, amount) \/ Repay(b, p, amount)
      PROVE  Fund!Next
  BY <1>6, BorrowLends, RepayCollects
<1>7. CASE UNCHANGED vars
  <2>1. \A q \in PoolIds : CashOf(q)' = CashOf(q) /\ BookOf(q)' = BookOf(q)
    BY <1>7 DEF vars, CashOf, BookOf, HasPool
  <2> QED BY <1>7, <2>1, RatesUnseen DEF vars
<1> QED BY <1>1, <1>2, <1>3, <1>4, <1>5, <1>6, <1>7 DEF Next

(***************************************************************************)
(* Whatever the vaults do, a depositor or borrower sees a lending fund.    *)
(***************************************************************************)
THEOREM ImplementsFundHolds == Spec => ImplementsFund
<1>1. Init => Fund!Init
  BY InitFund
<1>2. IInv /\ IInv' /\ [Next]_vars => [Fund!Next]_(Fund!fund)
  BY NextFund
<1> QED BY <1>1, <1>2, Invariance, PTL DEF Spec, ImplementsFund, Fund!Spec
=============================================================================
