-------------------------- MODULE LeverageLPProofs --------------------------
(***************************************************************************)
(* Proofs about x/leveragelp for every number of positions, owners and     *)
(* pools, all amounts, prices and parameters.                              *)
(***************************************************************************)
EXTENDS LeverageLP, ElysMathTheorems, FiniteSetTheorems

(***************************************************************************)
(* The limits of a stored pool are some that governance has set.           *)
(***************************************************************************)
PoolsLimited ==
    \A a \in AmmPools : HasPool(a) =>
        \E prm \in PoolParams :
            pools[a].leverageMax = prm.leverageMax /\ pools[a].maxRatio = prm.maxRatio

(***************************************************************************)
(* An id is given out once: what is stored under an id that is not open is *)
(* empty, and no loss is recorded on a position before it is closed.       *)
(***************************************************************************)
IdsGivenOnce ==
    \A id \in Ids :
        /\ IsOpen(id) => id <= positionCount /\ positions[id].pool \in AmmPools
        /\ IsOpen(id) \/ positions[id] = NoPosition
        /\ IsOpen(id) \/ id > positionCount => writtenOff[id] = 0

\* The types of what the positions' store holds, and of the rest.
LedgerTypes ==
    /\ positions \in [Ids -> Position]
    /\ positionCount \in 0 .. NumIds
    /\ openCount \in Nat
    /\ debt \in [Ids -> Nat]
    /\ writtenOff \in [Ids -> Nat]
    /\ pools \in [AmmPools -> [leveraged : Nat, leverageMax : Nat, maxRatio : Nat]]

OtherTypes ==
    /\ enabledPools \subseteq AmmPools
    /\ whitelist \subseteq Owners
    /\ params \in ParamSets
    /\ epochPosition \in 0 .. params.epochLength - 1
    /\ offset \in Nat
    /\ price \in [AmmPools -> Prices]
    /\ others \in [AmmPools -> OtherShares]

LedgerInv ==
    /\ LedgerTypes
    /\ TotalsFollowPositions
    /\ PositionsBacked
    /\ PoolsLimited
    /\ IdsGivenOnce

IInv == LedgerInv /\ OtherTypes

LEMMA TypesSplit == TypeOK <=> LedgerTypes /\ OtherTypes
BY DEF TypeOK, LedgerTypes, OtherTypes

LEMMA OpenIdsFinite == ASSUME NEW S \in SUBSET Ids
                       PROVE  IsFiniteSet(S) /\ Cardinality(S) \in Nat
<1>1. IsFiniteSet(Ids)
  BY FS_Interval, SizesAssumption DEF Ids
<1> QED BY <1>1, FS_Subset, FS_CardinalityType

LEMMA LpOfNat ==
  ASSUME LedgerTypes, NEW S, NEW a
  PROVE  LpOf(S, a) \in [1 .. NumIds -> Nat]
BY DEF LedgerTypes, LpOf, Ids, Position

LEMMA InitIInv == Init => IInv
<1> SUFFICES ASSUME Init PROVE IInv
  OBVIOUS
<1>1. LedgerTypes
  BY SizesAssumption DEF Init, LedgerTypes, NoPosition, Position, NoPool
<1>2. OtherTypes
  BY ParamsAssumption DEF Init, OtherTypes
<1>3. \A id \in Ids : ~ IsOpen(id)
  BY DEF Init, IsOpen, NoPosition
<1>4. OpenIds = {}
  BY <1>3 DEF OpenIds
<1>5. TotalsFollowPositions
  <2>1. openCount = Cardinality(OpenIds)
    BY <1>4, FS_EmptySet DEF Init
  <2>2. ASSUME NEW a \in AmmPools PROVE pools[a].leveraged = Sum(LpOf(OpenIds, a), NumIds)
    <3>1. \A i \in 1 .. NumIds : LpOf(OpenIds, a)[i] = 0
      BY <1>4 DEF LpOf, Ids
    <3>2. LpOf(OpenIds, a) \in [1 .. NumIds -> Int]
      BY <1>1, LpOfNat
    <3>3. Sum(LpOf(OpenIds, a), NumIds) = 0
      BY <3>1, <3>2, SumZero, SizesAssumption
    <3> QED BY <3>3 DEF Init, NoPool
  <2> QED BY <2>1, <2>2 DEF TotalsFollowPositions
<1>6. PositionsBacked /\ IdsGivenOnce
  BY <1>3 DEF Init, PositionsBacked, IdsGivenOnce
<1>7. PoolsLimited
  BY DEF Init, PoolsLimited, HasPool, NoPool
<1> QED BY <1>1, <1>2, <1>5, <1>6, <1>7 DEF IInv, LedgerInv

-----------------------------------------------------------------------------
\* The AMM pays a natural amount for the shares of a position.
LEMMA PayoutNat ==
  ASSUME LedgerTypes, OtherTypes, NEW a \in AmmPools, NEW n \in Nat, NEW got \in Payout(a, n)
  PROVE  got \in Nat /\ ValueOf(a, n) \in Nat
         /\ 2 * ValueOf(a, n) <= 2 * (got * PriceOne) + PriceOne
<1>0. price[a] \in Nat /\ PriceOne \in Nat
  BY AmountsAssumption DEF OtherTypes
<1>1. n * price[a] \in Nat
  BY <1>0, ProductNat
<1>2. got \in RoundInt(ValueOf(a, n), PriceOne) /\ ValueOf(a, n) \in Nat
  BY <1>1 DEF Payout, ValueOf
<1> QED BY <1>0, <1>2, RoundIntBound

LEMMA SharesForDebt ==
  ASSUME LedgerTypes, OtherTypes, NEW a \in AmmPools, NEW n \in Nat
  PROVE  /\ LpSharesForRepay(a, n) \in Nat
         /\ n * PriceOne <= LpSharesForRepay(a, n) * price[a]
         /\ LpSharesForRepay(a, n) * price[a] < n * PriceOne + price[a]
<1>0. price[a] \in Nat \ {0} /\ PriceOne \in Nat
  BY AmountsAssumption DEF OtherTypes
<1>1. n * PriceOne \in Nat /\ price[a] \in Nat \ {0}
  BY <1>0, ProductNat
<1> DEFINE c == CeilInt(n * PriceOne, price[a])
<1>2. c \in Nat /\ n * PriceOne <= price[a] * c /\ price[a] * c < n * PriceOne + price[a]
  BY <1>1, CeilBound
<1> HIDE DEF c
<1>3. c * price[a] = price[a] * c
  BY <1>1, <1>2
<1> QED BY <1>2, <1>3 DEF LpSharesForRepay, c

LEMMA SoldNat ==
  ASSUME LedgerInv, OtherTypes, NEW id \in OpenIds
  PROVE  SoldForDebt(id) \in Nat /\ SoldForDebt(id) <= positions[id].lp
<1>1. positions[id].pool \in AmmPools /\ positions[id].lp \in Nat /\ debt[id] \in Nat
  BY DEF LedgerInv, LedgerTypes, IdsGivenOnce, OpenIds, Position
<1>2. LpSharesForRepay(positions[id].pool, debt[id]) \in Nat
  BY <1>1, SharesForDebt DEF LedgerInv
<1> QED BY <1>1, <1>2 DEF SoldForDebt, MinOf

(***************************************************************************)
(* A close: what is written of the stored debt and the shares.             *)
(***************************************************************************)
LEMMA SettledTypes ==
  ASSUME LedgerInv, OtherTypes, NEW S \in SUBSET OpenIds, NEW got,
         \A id \in S : got[id] \in FullPayout(id), SettleDebts(S, got)
  PROVE  /\ debt' \in [Ids -> Nat] /\ writtenOff' \in [Ids -> Nat]
         /\ \A id \in Ids : id \in S => debt'[id] = 0
         /\ \A id \in Ids : id \notin S => debt'[id] = debt[id] /\ writtenOff'[id] = writtenOff[id]
<1>1. ASSUME NEW id \in S PROVE debt[id] - MinOf(debt[id], got[id]) \in Nat
  <2>1. positions[id].pool \in AmmPools /\ debt[id] \in Nat /\ SoldForDebt(id) \in Nat
    BY SoldNat DEF LedgerInv, LedgerTypes, IdsGivenOnce, OpenIds
  <2>2. got[id] \in Payout(positions[id].pool, SoldForDebt(id))
    BY DEF FullPayout
  <2>3. got[id] \in Nat
    BY <2>1, <2>2, PayoutNat DEF LedgerInv
  <2> QED BY <2>1, <2>3 DEF MinOf
<1>2. debt \in [Ids -> Nat] /\ writtenOff \in [Ids -> Nat]
  BY DEF LedgerInv, LedgerTypes
<1>3. /\ debt' = [id \in Ids |-> IF id \in S THEN 0 ELSE debt[id]]
      /\ writtenOff' = [id \in Ids |->
           IF id \in S THEN debt[id] - MinOf(debt[id], got[id]) ELSE writtenOff[id]]
  BY DEF SettleDebts
<1> QED BY <1>1, <1>2, <1>3

(***************************************************************************)
(* Closing open positions keeps the ledger.                                *)
(***************************************************************************)
LEMMA CloseFullyStep ==
  ASSUME LedgerInv, OtherTypes, NEW S \in SUBSET OpenIds, CloseFully(S),
         positionCount' = positionCount, others' = others
  PROVE  LedgerInv'
<1>1. PICK got \in [S -> UNION {FullPayout(id) : id \in S}] :
         (\A id \in S : got[id] \in FullPayout(id)) /\ SettleDebts(S, got)
  BY DEF CloseFully
<1>2. /\ debt' \in [Ids -> Nat] /\ writtenOff' \in [Ids -> Nat]
      /\ \A id \in Ids : id \in S => debt'[id] = 0
      /\ \A id \in Ids : id \notin S => debt'[id] = debt[id] /\ writtenOff'[id] = writtenOff[id]
  BY <1>1, SettledTypes
<1>3. /\ positions' = [id \in Ids |-> IF id \in S THEN NoPosition ELSE positions[id]]
      /\ openCount' = openCount - Cardinality(S)
  BY DEF CloseFully, DestroyPositions
<1>4. positions' \in [Ids -> Position] /\ positions \in [Ids -> Position]
  BY <1>3 DEF LedgerInv, LedgerTypes, NoPosition, Position
<1>5. OpenIds' = OpenIds \ S /\ S \subseteq Ids /\ OpenIds \in SUBSET Ids
  BY <1>3 DEF OpenIds, IsOpen, NoPosition
<1>6. openCount' = Cardinality(OpenIds')
  <2>1. openCount = Cardinality(OpenIds)
    BY DEF LedgerInv, TotalsFollowPositions
  <2>2. IsFiniteSet(OpenIds) /\ OpenIds \cap S = S
    BY <1>5, OpenIdsFinite
  <2>3. Cardinality(OpenIds \ S) = Cardinality(OpenIds) - Cardinality(S)
    BY <2>2, FS_Difference
  <2> QED BY <1>3, <1>5, <2>1, <2>3
<1>7. openCount' \in Nat
  BY <1>5, <1>6, OpenIdsFinite
<1>8. ASSUME NEW a \in AmmPools
      PROVE  /\ pools'[a] = [pools[a] EXCEPT !.leveraged = pools'[a].leveraged]
             /\ pools'[a].leveraged = Sum(LpOf(OpenIds, a)', NumIds)
             /\ pools'[a].leveraged \in Nat
             /\ pools'[a].leveraged <= pools[a].leveraged
  <2> DEFINE f == LpOf(OpenIds, a)
             g == LpOf(OpenIds, a)'
             h == LpOf(S, a)
  <2>1. f \in [1 .. NumIds -> Nat] /\ h \in [1 .. NumIds -> Nat]
    BY LpOfNat DEF LedgerInv
  <2>2. g = [id \in Ids |-> IF id \in OpenIds' /\ positions'[id].pool = a
                            THEN positions'[id].lp ELSE 0]
    BY DEF LpOf
  <2>3. g \in [1 .. NumIds -> Nat]
    BY <1>4, <2>2 DEF Ids, Position
  <2>4. ASSUME NEW i \in 1 .. NumIds PROVE f[i] = g[i] + h[i]
    <3>1. i \in Ids /\ positions[i].lp \in Nat
      BY <1>4 DEF Ids, Position
    <3>2. CASE i \in S
      <4>1. i \in OpenIds /\ i \notin OpenIds'
        BY <1>5, <3>2
      <4>2. g[i] = 0 /\ f[i] = h[i]
        BY <2>2, <3>1, <3>2, <4>1 DEF LpOf
      <4> QED BY <2>1, <4>2
    <3>3. CASE i \notin S
      <4>1. positions'[i] = positions[i] /\ (i \in OpenIds' <=> i \in OpenIds)
        BY <1>3, <1>5, <3>1, <3>3
      <4>2. h[i] = 0 /\ g[i] = f[i]
        BY <2>2, <3>1, <3>3, <4>1 DEF LpOf
      <4> QED BY <2>1, <4>2
    <3> QED BY <3>2, <3>3
  <2>5. pools[a].leveraged = Sum(f, NumIds)
    BY DEF LedgerInv, TotalsFollowPositions
  <2>6. pools' = [b \in AmmPools |->
           IF HasPool(b) THEN [pools[b] EXCEPT !.leveraged = @ - Sum(LpOf(S, b), NumIds)]
                         ELSE pools[b]]
    BY DEF CloseFully, ReleaseShares
  <2>7. pools[a] \in [leveraged : Nat, leverageMax : Nat, maxRatio : Nat]
    BY DEF LedgerInv, LedgerTypes
  <2> HIDE DEF f, g, h
  <2>8. f \in [1 .. NumIds -> Int] /\ g \in [1 .. NumIds -> Int] /\ h \in [1 .. NumIds -> Int]
    BY <2>1, <2>3
  <2>9. /\ Sum(f, NumIds) \in Nat /\ Sum(g, NumIds) \in Nat /\ Sum(h, NumIds) \in Nat
        /\ Sum(f, NumIds) = Sum(g, NumIds) + Sum(h, NumIds)
    BY <2>1, <2>3, <2>4, <2>8, SumBound, SumAdd, SizesAssumption
  <2>10. CASE HasPool(a)
    <3>1. pools'[a] = [pools[a] EXCEPT !.leveraged = @ - Sum(h, NumIds)]
      BY <2>6, <2>10 DEF h
    <3>2. pools'[a].leveraged = pools[a].leveraged - Sum(h, NumIds)
      BY <2>7, <3>1
    <3> QED BY <2>5, <2>7, <2>9, <3>1, <3>2 DEF g
  <2>11. CASE ~ HasPool(a)
    <3>1. pools'[a] = pools[a]
      BY <2>6, <2>11
    <3>2. ASSUME NEW i \in 1 .. NumIds PROVE h[i] = 0
      <4>1. i \in S => positions[i].pool # a
        BY <1>5, <2>11 DEF LedgerInv, PositionsBacked, OpenIds
      <4> QED BY <4>1 DEF h, LpOf, Ids
    <3>3. Sum(h, NumIds) = 0
      BY <2>8, <3>2, SumZero, SizesAssumption
    <3> QED BY <2>5, <2>7, <2>9, <3>1, <3>3 DEF g
  <2> QED BY <2>10, <2>11
<1>9. pools' \in [AmmPools -> [leveraged : Nat, leverageMax : Nat, maxRatio : Nat]]
  <2>1. pools' = [b \in AmmPools |-> pools'[b]]
    BY DEF CloseFully, ReleaseShares
  <2>2. ASSUME NEW a \in AmmPools
        PROVE  pools'[a] \in [leveraged : Nat, leverageMax : Nat, maxRatio : Nat]
    BY <1>8 DEF LedgerInv, LedgerTypes
  <2> QED BY <2>1, <2>2
<1>10. LedgerTypes'
  BY <1>2, <1>4, <1>7, <1>9 DEF LedgerInv, LedgerTypes
<1>11. TotalsFollowPositions'
  BY <1>6, <1>8 DEF TotalsFollowPositions
<1>12. \A a \in AmmPools : (HasPool(a)' <=> HasPool(a))
  <2> SUFFICES ASSUME NEW a \in AmmPools PROVE HasPool(a)' <=> HasPool(a)
    OBVIOUS
  <2>1. CASE HasPool(a)
    <3>1. PICK prm \in PoolParams : pools[a].leverageMax = prm.leverageMax
      BY <2>1 DEF LedgerInv, PoolsLimited
    <3>2. pools[a].leverageMax > 0
      BY <3>1, ParamsAssumption, AmountsAssumption
    <3>3. pools'[a].leverageMax = pools[a].leverageMax
      BY <1>8 DEF LedgerInv, LedgerTypes
    <3> QED BY <2>1, <3>2, <3>3 DEF HasPool, NoPool
  <2>2. CASE ~ HasPool(a)
    <3>1. pools'[a] = pools[a]
      BY <2>2 DEF CloseFully, ReleaseShares
    <3> QED BY <2>2, <3>1 DEF HasPool
  <2> QED BY <2>1, <2>2
<1>13. ASSUME NEW id \in Ids
       PROVE  /\ IsOpen(id)' => IsOpen(id) /\ id \notin S /\ positions'[id] = positions[id]
              /\ ~ IsOpen(id)' => id \in S \/ ~ IsOpen(id)
              /\ id \in S => positions'[id] = NoPosition
              /\ id \notin S => positions'[id] = positions[id]
  BY <1>3, <1>5 DEF OpenIds, IsOpen, NoPosition
<1>14. IdsGivenOnce'
  <2>1. \A id \in S : id <= positionCount /\ id \in Ids
    BY <1>5 DEF LedgerInv, IdsGivenOnce, OpenIds
  <2>2. positionCount \in Nat /\ \A id \in Ids : id \in Nat
    BY SizesAssumption DEF LedgerInv, LedgerTypes, Ids
  <2> QED BY <1>2, <1>13, <2>1, <2>2 DEF LedgerInv, IdsGivenOnce
<1>15. PositionsBacked'
  <2> SUFFICES ASSUME NEW id \in Ids
               PROVE  /\ IsOpen(id)' => HasPool(positions[id].pool)' /\ positions'[id].lp > 0
                      /\ debt'[id] > 0 => IsOpen(id)'
    BY DEF PositionsBacked
  <2>1. ASSUME IsOpen(id)' PROVE HasPool(positions[id].pool)' /\ positions'[id].lp > 0
    <3>1. IsOpen(id) /\ positions'[id] = positions[id]
      BY <1>13, <2>1
    <3>2. HasPool(positions[id].pool) /\ positions[id].lp > 0 /\ positions[id].pool \in AmmPools
      BY <3>1 DEF LedgerInv, PositionsBacked, IdsGivenOnce
    <3>3. pools'[positions[id].pool] # NoPool
      BY <1>12, <3>2 DEF HasPool
    <3> QED BY <3>1, <3>2, <3>3 DEF HasPool
  <2>2. ASSUME debt'[id] > 0 PROVE IsOpen(id)'
    <3>1. id \notin S
      BY <1>2, <2>2
    <3>2. debt[id] > 0
      BY <1>2, <2>2, <3>1
    <3>3. IsOpen(id)
      BY <3>2 DEF LedgerInv, PositionsBacked
    <3> QED BY <1>13, <3>1, <3>3
  <2> QED BY <2>1, <2>2
<1>16. PoolsLimited'
  <2> SUFFICES ASSUME NEW a \in AmmPools, HasPool(a)'
               PROVE  \E prm \in PoolParams : pools'[a].leverageMax = prm.leverageMax
                                           /\ pools'[a].maxRatio = prm.maxRatio
    BY DEF PoolsLimited
  <2>1. HasPool(a)
    BY <1>12
  <2>2. pools'[a].leverageMax = pools[a].leverageMax /\ pools'[a].maxRatio = pools[a].maxRatio
    BY <1>8, ZenonT(40) DEF LedgerInv, LedgerTypes
  <2> QED BY <2>1, <2>2 DEF LedgerInv, PoolsLimited
<1> QED BY <1>10, <1>11, <1>14, <1>15, <1>16 DEF LedgerInv

-----------------------------------------------------------------------------
(***************************************************************************)
(* Shares of a position join a pool.                                       *)
(***************************************************************************)
\* What a leverage of at least 1 borrows is not negative.
LEMMA LoanNat ==
  ASSUME LedgerInv, NEW a \in AmmPools, HasPool(a), NEW c \in Collaterals, NEW lev \in Leverages
  PROVE  TruncateInt(c * MinOf(lev, pools[a].leverageMax), RatioOne) - c \in Nat
<1>1. PICK prm \in PoolParams : pools[a].leverageMax = prm.leverageMax
  BY DEF LedgerInv, PoolsLimited
<1>2. pools[a].leverageMax \in Nat /\ pools[a].leverageMax > RatioOne
  BY <1>1, ParamsAssumption
<1>3. lev \in Nat /\ lev >= RatioOne /\ c \in Nat /\ RatioOne \in Nat \ {0}
  BY AmountsAssumption
<1> DEFINE l == MinOf(lev, pools[a].leverageMax)
<1>4. l \in Nat /\ l >= RatioOne
  BY <1>2, <1>3 DEF MinOf
<1> HIDE DEF l
<1>5. c * RatioOne <= c * l /\ c * l \in Nat
  BY <1>3, <1>4, ProductMonotone, ProductNat
<1>6. RatioOne * c <= c * l
  BY <1>3, <1>5
<1>7. c <= TruncateInt(c * l, RatioOne) /\ TruncateInt(c * l, RatioOne) \in Nat
  BY <1>3, <1>5, <1>6, TruncateLargest, TruncateNat
<1> QED BY <1>3, <1>7 DEF l

LEMMA ProcessOpenLongStep ==
  ASSUME LedgerInv, OtherTypes, NEW id \in Ids, NEW u \in Owners, NEW a \in AmmPools,
         NEW c \in Collaterals, NEW lev \in Leverages, NEW s \in StopLossPrices,
         HasPool(a), ProcessOpenLong(id, u, a, c, lev, s),
         id \in OpenIds => positions[id].pool = a,
         writtenOff[id] = 0,
         positionCount' \in 0 .. NumIds, positionCount <= positionCount', id <= positionCount',
         openCount' = IF id \in OpenIds THEN openCount ELSE openCount + 1,
         writtenOff' = writtenOff, others' = others
  PROVE  LedgerInv' /\ positions'[id].lp > positions[id].lp
         /\ \A i \in Ids : i # id => positions'[i] = positions[i]
<1> DEFINE amount == TruncateInt(c * MinOf(lev, pools[a].leverageMax), RatioOne)
           owed == debt[id] + (amount - c)
<1>0. /\ positions \in [Ids -> Position] /\ debt \in [Ids -> Nat] /\ writtenOff \in [Ids -> Nat]
      /\ positionCount \in 0 .. NumIds /\ openCount \in Nat
      /\ pools \in [AmmPools -> [leveraged : Nat, leverageMax : Nat, maxRatio : Nat]]
  BY DEF LedgerInv, LedgerTypes
<1>1. owed \in Nat
  BY <1>0, LoanNat
<1>2. PICK shares \in JoinShares(a, amount) :
         /\ CheckMaxLeverageRatio(a, pools[a].leveraged + shares)
         /\ positions' = [positions EXCEPT ![id] =
              [owner |-> u, pool |-> a, lp |-> positions[id].lp + shares,
               stopLoss |-> IF "stopLoss" \in params.flags THEN s ELSE 0]]
         /\ debt' = [debt EXCEPT ![id] = owed]
         /\ pools' = [pools EXCEPT ![a].leveraged = @ + shares]
  BY DEF ProcessOpenLong
<1>3. shares \in Nat /\ shares > 0
  <2>1. amount * PriceOne \in Int /\ price[a] \in Nat \ {0}
    <3>1. amount \in Int /\ PriceOne \in Nat /\ price[a] \in Nat \ {0}
      <4>1. amount - c \in Nat /\ c \in Nat
        BY LoanNat, AmountsAssumption
      <4>2. amount \in Int
        <5>1. RatioOne \in Nat \ {0} /\ c * MinOf(lev, pools[a].leverageMax) \in Int
          <6>1. lev \in Int /\ pools[a].leverageMax \in Int /\ c \in Int
            BY <1>0, AmountsAssumption
          <6> QED BY <6>1, AmountsAssumption DEF MinOf
        <5> QED BY <5>1, TruncateBound
      <4> QED BY <4>2, AmountsAssumption DEF OtherTypes
    <3> QED BY <3>1
  <2>2. TruncateInt(amount * PriceOne, price[a]) \in Int
    BY <2>1, TruncateBound
  <2> QED BY <2>2 DEF JoinShares
<1> HIDE DEF owed
<1>4. positions'[id] = [owner |-> u, pool |-> a, lp |-> positions[id].lp + shares,
                        stopLoss |-> IF "stopLoss" \in params.flags THEN s ELSE 0]
      /\ \A i \in Ids : i # id => positions'[i] = positions[i]
  BY <1>0, <1>2
<1>5. positions[id].lp \in Nat /\ u # 0 /\ s \in Nat
  BY <1>0, AmountsAssumption DEF Position, Owners
<1>6. positions' \in [Ids -> Position]
  <2>1. positions'[id] \in Position
    BY <1>3, <1>4, <1>5 DEF Position
  <2> QED BY <1>0, <1>2, <2>1
<1>7. pools' \in [AmmPools -> [leveraged : Nat, leverageMax : Nat, maxRatio : Nat]]
      /\ pools'[a] = [pools[a] EXCEPT !.leveraged = pools[a].leveraged + shares]
      /\ \A b \in AmmPools : b # a => pools'[b] = pools[b]
  BY <1>0, <1>2, <1>3
<1>8. OpenIds' = OpenIds \cup {id} /\ OpenIds \in SUBSET Ids
  BY <1>4, <1>5 DEF OpenIds, IsOpen
<1>9. openCount' = Cardinality(OpenIds')
  <2>1. openCount = Cardinality(OpenIds) /\ IsFiniteSet(OpenIds)
    BY <1>8, OpenIdsFinite DEF LedgerInv, TotalsFollowPositions
  <2> QED BY <1>8, <2>1, FS_AddElement
<1>10. id \notin OpenIds => positions[id] = NoPosition
  BY DEF LedgerInv, IdsGivenOnce, OpenIds
<1>11. ASSUME NEW b \in AmmPools
       PROVE  pools'[b].leveraged = Sum(LpOf(OpenIds, b)', NumIds)
  <2> DEFINE f == LpOf(OpenIds, b)
             g == LpOf(OpenIds, b)'
  <2>1. f \in [1 .. NumIds -> Nat] /\ pools[b].leveraged = Sum(f, NumIds)
    BY LpOfNat DEF LedgerInv, TotalsFollowPositions
  <2>2. g = [i \in Ids |-> IF i \in OpenIds' /\ positions'[i].pool = b
                            THEN positions'[i].lp ELSE 0]
    BY DEF LpOf
  <2>3. g \in [1 .. NumIds -> Nat]
    BY <1>6, <2>2 DEF Ids, Position
  <2>4. ASSUME NEW i \in 1 .. NumIds, i # id PROVE g[i] = f[i]
    <3>1. positions'[i] = positions[i] /\ (i \in OpenIds' <=> i \in OpenIds) /\ i \in Ids
      BY <1>4, <1>8, <2>4 DEF Ids
    <3> QED BY <2>2, <3>1 DEF LpOf
  <2>5. f[id] = IF b = a THEN positions[id].lp ELSE 0
    <3>1. id \in OpenIds => positions[id].pool = a
      OBVIOUS
    <3>2. id \notin OpenIds => positions[id].lp = 0
      BY <1>10 DEF NoPosition
    <3> QED BY <3>1, <3>2 DEF LpOf
  <2>6. g[id] = IF b = a THEN positions[id].lp + shares ELSE 0
    BY <1>4, <1>8, <2>2
  <2>7. id \in 1 .. NumIds
    BY DEF Ids
  <2> HIDE DEF f, g
  <2>8. f \in [1 .. NumIds -> Int] /\ g \in [1 .. NumIds -> Int] /\ Sum(f, NumIds) \in Int
    BY <2>1, <2>3, SumBound, SizesAssumption
  <2>9. Sum(g, NumIds) = Sum(f, NumIds) + g[id] - f[id]
    BY <2>4, <2>7, <2>8, SumUpdate, SizesAssumption
  <2>10. CASE b = a
    <3>1. pools'[b].leveraged = pools[b].leveraged + shares
      BY <1>0, <1>7, <2>10
    <3> QED BY <1>3, <1>5, <2>1, <2>5, <2>6, <2>8, <2>9, <2>10, <3>1 DEF g
  <2>11. CASE b # a
    BY <1>7, <2>1, <2>5, <2>6, <2>8, <2>9, <2>11 DEF g
  <2> QED BY <2>10, <2>11
<1>12. LedgerTypes'
  <2>1. debt' \in [Ids -> Nat] /\ openCount' \in Nat
    BY <1>0, <1>1, <1>2
  <2> QED BY <1>0, <1>6, <1>7, <2>1 DEF LedgerTypes
<1>13. TotalsFollowPositions'
  BY <1>9, <1>11 DEF TotalsFollowPositions
<1>14. PICK prm \in PoolParams :
          pools[a].leverageMax = prm.leverageMax /\ pools[a].maxRatio = prm.maxRatio
  BY DEF LedgerInv, PoolsLimited
<1>15. \A b \in AmmPools : HasPool(b)' <=> HasPool(b)
  <2>1. pools'[a] # NoPool
    <3>1. pools'[a].leveraged > 0
      BY <1>0, <1>3, <1>7
    <3> QED BY <3>1 DEF NoPool
  <2> QED BY <1>7, <2>1 DEF HasPool
<1>16. PoolsLimited'
  <2> SUFFICES ASSUME NEW b \in AmmPools, HasPool(b)'
               PROVE  \E q \in PoolParams : pools'[b].leverageMax = q.leverageMax
                                           /\ pools'[b].maxRatio = q.maxRatio
    BY DEF PoolsLimited
  <2>1. pools'[b].leverageMax = pools[b].leverageMax /\ pools'[b].maxRatio = pools[b].maxRatio
    BY <1>0, <1>7
  <2> QED BY <1>15, <2>1 DEF LedgerInv, PoolsLimited
<1>17. IdsGivenOnce'
  <2> SUFFICES ASSUME NEW i \in Ids
               PROVE  /\ IsOpen(i)' => i <= positionCount' /\ positions'[i].pool \in AmmPools
                      /\ IsOpen(i)' \/ positions'[i] = NoPosition
                      /\ IsOpen(i)' \/ i > positionCount' => writtenOff'[i] = 0
    BY DEF IdsGivenOnce
  <2>1. CASE i = id
    BY <1>4, <1>5, <2>1 DEF IsOpen
  <2>2. CASE i # id
    <3>1. positions'[i] = positions[i] /\ i \in Int
      BY <1>4, <2>2 DEF Ids
    <3>2. i > positionCount' => i > positionCount
      BY <1>0, <3>1
    <3>3. /\ IsOpen(i) => i <= positionCount /\ positions[i].pool \in AmmPools
          /\ IsOpen(i) \/ positions[i] = NoPosition
          /\ IsOpen(i) \/ i > positionCount => writtenOff[i] = 0
      BY DEF LedgerInv, IdsGivenOnce
    <3>4. IsOpen(i)' <=> IsOpen(i)
      BY <3>1 DEF IsOpen
    <3>5. i <= positionCount => i <= positionCount'
      BY <1>0, <3>1
    <3> QED BY <3>1, <3>2, <3>3, <3>4, <3>5
  <2> QED BY <2>1, <2>2
<1>18. PositionsBacked'
  <2> SUFFICES ASSUME NEW i \in Ids
               PROVE  /\ IsOpen(i)' => HasPool(positions[i].pool)' /\ positions'[i].lp > 0
                      /\ debt'[i] > 0 => IsOpen(i)'
    BY DEF PositionsBacked
  <2>1. CASE i = id
    <3>1. HasPool(a)' /\ positions'[i].lp > 0 /\ IsOpen(i)' /\ positions'[i].pool = a
      BY <1>3, <1>4, <1>5, <1>15, <2>1 DEF IsOpen
    <3> QED BY <3>1 DEF HasPool
  <2>2. CASE i # id
    <3>1. positions'[i] = positions[i] /\ debt'[i] = debt[i]
      BY <1>0, <1>2, <1>4, <2>2
    <3>2. IsOpen(i)' <=> IsOpen(i)
      BY <3>1 DEF IsOpen
    <3>3. IsOpen(i) => HasPool(positions[i].pool)'
      <4>1. IsOpen(i) => positions[i].pool \in AmmPools /\ HasPool(positions[i].pool)
        BY DEF LedgerInv, PositionsBacked, IdsGivenOnce
      <4>2. IsOpen(i) => pools'[positions[i].pool] # NoPool
        BY <1>15, <4>1 DEF HasPool
      <4> QED BY <3>1, <4>2 DEF HasPool
    <3> QED BY <3>1, <3>2, <3>3 DEF LedgerInv, PositionsBacked
  <2> QED BY <2>1, <2>2
<1>19. positions'[id].lp > positions[id].lp
  BY <1>3, <1>4, <1>5
<1> QED BY <1>4, <1>12, <1>13, <1>16, <1>17, <1>18, <1>19 DEF LedgerInv

\* MsgOpen opens a position under a new id, or adds to an open one.
LEMMA OpenStep ==
  ASSUME IInv, NEW u \in Owners, NEW a \in AmmPools, NEW c \in Collaterals, NEW lev \in Leverages,
         NEW s \in StopLossPrices, Open(u, a, c, lev, s)
  PROVE  IInv' /\ writtenOff' = writtenOff
         /\ \A id \in OpenIds : positions'[id].lp >= positions[id].lp
<1>0. /\ LedgerInv /\ OtherTypes /\ HasPool(a) /\ writtenOff' = writtenOff
      /\ UNCHANGED <<governed, sweep, market>>
  BY DEF IInv, Open
<1>1. OtherTypes' /\ others' = others
  BY <1>0 DEF OtherTypes, governed, sweep, market
<1>2. positionCount \in 0 .. NumIds /\ openCount \in Nat /\ positions \in [Ids -> Position]
  BY <1>0 DEF LedgerInv, LedgerTypes
<1>3. \A id \in OpenIds : positions[id].lp \in Nat
  BY <1>2 DEF OpenIds, Position
<1>4. ASSUME NEW id \in CheckSamePosition(u, a), OpenConsolidate(id, u, a, c, lev, s)
      PROVE  LedgerInv' /\ \A i \in OpenIds : positions'[i].lp >= positions[i].lp
  <2>1. id \in OpenIds /\ positions[id].pool = a /\ id \in Ids
    BY DEF CheckSamePosition, OpenIds
  <2>2. writtenOff[id] = 0 /\ id <= positionCount
    BY <1>0, <2>1 DEF LedgerInv, IdsGivenOnce, OpenIds
  <2>3. ProcessOpenLong(id, u, a, c, lev, s) /\ positionCount' = positionCount /\ openCount' = openCount
    BY <1>4 DEF OpenConsolidate
  <2>4. /\ LedgerInv' /\ positions'[id].lp > positions[id].lp
        /\ \A i \in Ids : i # id => positions'[i] = positions[i]
    <3>1. positionCount' \in 0 .. NumIds /\ positionCount <= positionCount' /\ id <= positionCount'
          /\ openCount' = IF id \in OpenIds THEN openCount ELSE openCount + 1
      BY <1>2, <2>1, <2>2, <2>3
    <3> QED BY <1>0, <1>1, <2>1, <2>2, <2>3, <3>1, ProcessOpenLongStep
  <2>5. ASSUME NEW i \in OpenIds PROVE positions'[i].lp >= positions[i].lp
    <3>1. i \in Ids /\ positions[i].lp \in Nat /\ positions'[i].lp \in Nat
      BY <1>3, <2>4 DEF OpenIds, LedgerInv, LedgerTypes, Position
    <3> QED BY <2>4, <3>1
  <2> QED BY <2>4, <2>5
<1>5. ASSUME OpenLong(u, a, c, lev, s)
      PROVE  LedgerInv' /\ \A i \in OpenIds : positions'[i].lp >= positions[i].lp
  <2> DEFINE id == positionCount + 1
  <2>1. id \in Ids /\ id \in Nat /\ id > positionCount /\ id <= NumIds
    BY <1>2, <1>5, SizesAssumption DEF OpenLong, Ids
  <2>2. id \notin OpenIds /\ writtenOff[id] = 0
    BY <1>0, <1>2, <2>1 DEF LedgerInv, IdsGivenOnce, OpenIds
  <2>3. ProcessOpenLong(id, u, a, c, lev, s) /\ positionCount' = id /\ openCount' = openCount + 1
    BY <1>5 DEF OpenLong
  <2>4. /\ LedgerInv'
        /\ \A i \in Ids : i # id => positions'[i] = positions[i]
    <3>1. positionCount' \in 0 .. NumIds /\ positionCount <= positionCount' /\ id <= positionCount'
          /\ openCount' = IF id \in OpenIds THEN openCount ELSE openCount + 1
      BY <1>2, <2>1, <2>2, <2>3, SizesAssumption
    <3> HIDE DEF id
    <3> QED BY <1>0, <1>1, <2>1, <2>2, <2>3, <3>1, ProcessOpenLongStep
  <2>5. ASSUME NEW i \in OpenIds PROVE positions'[i].lp >= positions[i].lp
    <3>1. i \in Ids /\ i # id /\ positions[i].lp \in Nat
      BY <1>3, <2>2 DEF OpenIds
    <3> QED BY <2>4, <3>1
  <2> QED BY <2>4, <2>5
<1>6. LedgerInv' /\ \A i \in OpenIds : positions'[i].lp >= positions[i].lp
  BY <1>4, <1>5 DEF Open
<1> QED BY <1>0, <1>1, <1>6 DEF IInv

-----------------------------------------------------------------------------
(***************************************************************************)
(* A part of a position is closed.                                         *)
(***************************************************************************)
LEMMA CloseInPartStep ==
  ASSUME LedgerInv, OtherTypes, NEW id \in OpenIds, NEW total, NEW repay,
         total \in Nat, repay \in Nat, total < positions[id].lp, repay <= debt[id],
         CloseInPart(id, total, repay), positionCount' = positionCount, others' = others
  PROVE  LedgerInv' /\ \A i \in Ids : i # id => positions'[i] = positions[i]
<1> DEFINE a == positions[id].pool
<1>0. /\ positions \in [Ids -> Position] /\ debt \in [Ids -> Nat] /\ writtenOff \in [Ids -> Nat]
      /\ positionCount \in 0 .. NumIds /\ openCount \in Nat
      /\ pools \in [AmmPools -> [leveraged : Nat, leverageMax : Nat, maxRatio : Nat]]
  BY DEF LedgerInv, LedgerTypes
<1>1. /\ HasPool(a) /\ a \in AmmPools /\ id \in Ids
      /\ positions' = [positions EXCEPT ![id].lp = @ - total]
      /\ pools' = [pools EXCEPT ![a].leveraged = @ - total]
      /\ openCount' = openCount /\ writtenOff' = writtenOff
  BY DEF CloseInPart, LedgerInv, IdsGivenOnce, OpenIds
<1>2. PICK got \in Payout(a, LpSharesForRepay(a, repay)) :
         debt' = [debt EXCEPT ![id] = @ - MinOf(repay, got)]
  BY DEF CloseInPart
<1>3. got \in Nat
  <2>1. LpSharesForRepay(a, repay) \in Nat
    BY <1>1, SharesForDebt DEF LedgerInv
  <2> QED BY <1>1, <1>2, <2>1, PayoutNat DEF LedgerInv
<1> HIDE DEF a
<1>4. debt' \in [Ids -> Nat] /\ \A i \in Ids : i # id => debt'[i] = debt[i]
  <2>1. debt[id] - MinOf(repay, got) \in Nat
    BY <1>0, <1>1, <1>3 DEF MinOf
  <2> QED BY <1>0, <1>2, <2>1
<1>5. /\ positions' \in [Ids -> Position]
      /\ positions'[id] = [positions[id] EXCEPT !.lp = positions[id].lp - total]
      /\ \A i \in Ids : i # id => positions'[i] = positions[i]
  <2>1. positions[id].lp \in Nat /\ positions[id].lp - total \in Nat
    BY <1>0, <1>1 DEF Position
  <2> QED BY <1>0, <1>1, <2>1, ZenonT(40) DEF Position
<1>6. positions'[id].owner = positions[id].owner /\ positions'[id].pool = a
      /\ positions'[id].lp = positions[id].lp - total /\ positions[id].lp \in Nat
  BY <1>0, <1>1, <1>5 DEF Position, a
<1>7. OpenIds' = OpenIds /\ OpenIds \in SUBSET Ids
  BY <1>5, <1>6 DEF OpenIds, IsOpen
<1>8. ASSUME NEW b \in AmmPools
      PROVE  Sum(LpOf(OpenIds, b)', NumIds)
               = pools[b].leveraged - (IF b = a THEN total ELSE 0)
             /\ Sum(LpOf(OpenIds, b)', NumIds) \in Nat
  <2> DEFINE f == LpOf(OpenIds, b)
             g == LpOf(OpenIds, b)'
  <2>1. f \in [1 .. NumIds -> Nat] /\ pools[b].leveraged = Sum(f, NumIds)
    BY LpOfNat DEF LedgerInv, TotalsFollowPositions
  <2>2. g = [i \in Ids |-> IF i \in OpenIds' /\ positions'[i].pool = b
                            THEN positions'[i].lp ELSE 0]
    BY DEF LpOf
  <2>3. g \in [1 .. NumIds -> Nat]
    BY <1>5, <2>2 DEF Ids, Position
  <2>4. ASSUME NEW i \in 1 .. NumIds, i # id PROVE g[i] = f[i]
    BY <1>5, <1>7, <2>2, <2>4 DEF LpOf, Ids
  <2>5. f[id] = IF b = a THEN positions[id].lp ELSE 0
    BY <1>1 DEF LpOf, a
  <2>6. g[id] = IF b = a THEN positions[id].lp - total ELSE 0
    BY <1>1, <1>6, <1>7, <2>2
  <2>7. id \in 1 .. NumIds
    BY <1>1 DEF Ids
  <2> HIDE DEF f, g
  <2>8. f \in [1 .. NumIds -> Int] /\ g \in [1 .. NumIds -> Int]
        /\ Sum(f, NumIds) \in Int /\ Sum(g, NumIds) \in Nat
    BY <2>1, <2>3, SumBound, SizesAssumption
  <2>9. Sum(g, NumIds) = Sum(f, NumIds) + g[id] - f[id]
    BY <2>4, <2>7, <2>8, SumUpdate, SizesAssumption
  <2>10. CASE b = a
    BY <1>6, <2>1, <2>5, <2>6, <2>8, <2>9, <2>10 DEF g
  <2>11. CASE b # a
    BY <2>1, <2>5, <2>6, <2>8, <2>9, <2>11 DEF g
  <2> QED BY <2>10, <2>11
<1>9. /\ pools' \in [AmmPools -> [leveraged : Nat, leverageMax : Nat, maxRatio : Nat]]
      /\ \A b \in AmmPools :
            /\ pools'[b].leveraged = pools[b].leveraged - (IF b = a THEN total ELSE 0)
            /\ pools'[b].leveraged <= pools[b].leveraged
            /\ pools'[b].leverageMax = pools[b].leverageMax
            /\ pools'[b].maxRatio = pools[b].maxRatio
            /\ b # a => pools'[b] = pools[b]
  <2>1. pools[a].leveraged - total \in Nat
    BY <1>1, <1>8
  <2>2. pools' \in [AmmPools -> [leveraged : Nat, leverageMax : Nat, maxRatio : Nat]]
    BY <1>0, <1>1, <2>1
  <2>3. ASSUME NEW b \in AmmPools
        PROVE  /\ pools'[b].leveraged = pools[b].leveraged - (IF b = a THEN total ELSE 0)
               /\ pools'[b].leveraged <= pools[b].leveraged
               /\ pools'[b].leverageMax = pools[b].leverageMax
               /\ pools'[b].maxRatio = pools[b].maxRatio
               /\ b # a => pools'[b] = pools[b]
    <3>1. pools[b].leveraged \in Nat
      BY <1>0
    <3>2. pools'[b] = IF b = a THEN [pools[b] EXCEPT !.leveraged = @ - total] ELSE pools[b]
      BY <1>0, <1>1
    <3>3. CASE b = a
      BY <1>0, <3>1, <3>2, <3>3
    <3>4. CASE b # a
      BY <3>1, <3>2, <3>4
    <3> QED BY <3>3, <3>4
  <2> QED BY <2>2, <2>3
<1>10. LedgerTypes'
  BY <1>0, <1>1, <1>4, <1>5, <1>9 DEF LedgerTypes
<1>11. TotalsFollowPositions'
  <2>1. openCount' = Cardinality(OpenIds')
    BY <1>1, <1>7 DEF LedgerInv, TotalsFollowPositions
  <2>2. \A b \in AmmPools : pools'[b].leveraged = Sum(LpOf(OpenIds, b)', NumIds)
    BY <1>8, <1>9
  <2> QED BY <2>1, <2>2 DEF TotalsFollowPositions
<1>12. \A b \in AmmPools : HasPool(b)' <=> HasPool(b)
  <2>1. pools'[a] # NoPool
    <3>1. PICK prm \in PoolParams : pools[a].leverageMax = prm.leverageMax
      BY <1>1 DEF LedgerInv, PoolsLimited
    <3>2. pools[a].leverageMax > 0
      BY <3>1, ParamsAssumption, AmountsAssumption
    <3>3. pools'[a].leverageMax > 0
      BY <1>1, <1>9, <3>2
    <3> QED BY <3>3 DEF NoPool
  <2> QED BY <1>1, <1>9, <2>1 DEF HasPool
<1>13. \A i \in Ids : IsOpen(i)' <=> IsOpen(i)
  BY <1>7 DEF OpenIds
<1>14. IdsGivenOnce'
  <2>1. IsOpen(id)
    BY DEF OpenIds
  <2> QED BY <1>1, <1>5, <1>6, <1>13, <2>1 DEF LedgerInv, IdsGivenOnce
<1>15. PositionsBacked'
  <2> SUFFICES ASSUME NEW i \in Ids
               PROVE  /\ IsOpen(i)' => HasPool(positions[i].pool)' /\ positions'[i].lp > 0
                      /\ debt'[i] > 0 => IsOpen(i)'
    BY DEF PositionsBacked
  <2>1. positions'[i].pool = positions[i].pool
    BY <1>5, <1>6 DEF a
  <2>2. IsOpen(i)' => HasPool(positions[i].pool)'
    <3>1. IsOpen(i) => positions[i].pool \in AmmPools /\ HasPool(positions[i].pool)
      BY DEF LedgerInv, PositionsBacked, IdsGivenOnce
    <3>2. IsOpen(i) => pools'[positions[i].pool] # NoPool
      BY <1>12, <3>1 DEF HasPool
    <3> QED BY <1>13, <2>1, <3>2 DEF HasPool
  <2>3. IsOpen(i)' => positions'[i].lp > 0
    <3>1. IsOpen(i) => positions[i].lp > 0
      BY DEF LedgerInv, PositionsBacked
    <3>2. CASE i = id
      <4>1. positions'[id].lp > 0
        BY <1>6
      <4> QED BY <3>2, <4>1
    <3>3. CASE i # id
      BY <1>5, <1>13, <3>1, <3>3
    <3> QED BY <3>2, <3>3
  <2>4. debt'[i] > 0 => IsOpen(i)'
    <3>1. debt[i] > 0 => IsOpen(i)
      BY DEF LedgerInv, PositionsBacked
    <3>2. CASE i = id
      BY <1>13, <3>2 DEF OpenIds
    <3>3. CASE i # id
      BY <1>4, <1>13, <3>1, <3>3
    <3> QED BY <3>2, <3>3
  <2> QED BY <2>2, <2>3, <2>4
<1>16. PoolsLimited'
  <2> SUFFICES ASSUME NEW b \in AmmPools, HasPool(b)'
               PROVE  \E q \in PoolParams : pools'[b].leverageMax = q.leverageMax
                                           /\ pools'[b].maxRatio = q.maxRatio
    BY DEF PoolsLimited
  <2> QED BY <1>9, <1>12 DEF LedgerInv, PoolsLimited
<1> QED BY <1>5, <1>10, <1>11, <1>14, <1>15, <1>16 DEF LedgerInv

-----------------------------------------------------------------------------
(***************************************************************************)
(* The messages that close.                                                *)
(***************************************************************************)
\* What a close may do to other positions: nothing.
LEMMA CloseStep ==
  ASSUME IInv, NEW u, NEW id \in Ids, NEW n \in CloseAmounts, Close(u, id, n)
  PROVE  IInv' /\ \A i \in Ids : i # id => positions'[i] = positions[i]
<1>0. /\ LedgerInv /\ OtherTypes /\ id \in OpenIds /\ n <= positions[id].lp /\ n \in Nat \ {0}
      /\ UNCHANGED <<positionCount, governed, sweep, market>>
  BY AmountsAssumption DEF IInv, Close, OpenIds
<1>1. OtherTypes' /\ others' = others /\ positionCount' = positionCount
  BY <1>0 DEF OtherTypes, governed, sweep, market
<1>2. positions \in [Ids -> Position] /\ debt \in [Ids -> Nat]
  BY <1>0 DEF LedgerInv, LedgerTypes
<1>3. ASSUME CloseFully({id})
      PROVE  LedgerInv' /\ \A i \in Ids : i # id => positions'[i] = positions[i]
  <2>1. LedgerInv'
    BY <1>0, <1>1, <1>3, CloseFullyStep
  <2>2. positions' = [i \in Ids |-> IF i \in {id} THEN NoPosition ELSE positions[i]]
    BY <1>3 DEF CloseFully, DestroyPositions
  <2> QED BY <2>1, <2>2
<1>4. ASSUME NEW total \in TruncatedPart(positions[id].lp, n, positions[id].lp),
             NEW repay \in TruncatedPart(debt[id], n, positions[id].lp),
             n # positions[id].lp, CloseInPart(id, total, repay)
      PROVE  LedgerInv' /\ \A i \in Ids : i # id => positions'[i] = positions[i]
  <2>1. positions[id].lp \in Nat \ {0} /\ debt[id] \in Nat /\ n \in Nat /\ n < positions[id].lp
    BY <1>0, <1>2, <1>4 DEF Position
  <2>2. total \in Nat /\ positions[id].lp * total <= positions[id].lp * n
    BY <2>1, TruncatedPartBound
  <2>3. total < positions[id].lp
    BY <2>1, <2>2, CancelFactor
  <2>4. repay \in Nat /\ repay <= debt[id]
    BY <2>1, TruncatedPartBound
  <2> QED BY <1>0, <1>1, <1>4, <2>2, <2>3, <2>4, CloseInPartStep
<1>5. LedgerInv' /\ \A i \in Ids : i # id => positions'[i] = positions[i]
  BY <1>3, <1>4 DEF Close
<1> QED BY <1>1, <1>5 DEF IInv

\* Whoever closes positions that are due, the others keep their shares.
LEMMA CloseDueStep ==
  ASSUME IInv, NEW S, CloseDue(S), positionCount' = positionCount, others' = others
  PROVE  /\ LedgerInv'
         /\ \A i \in OpenIds : ~ (Unhealthy(i) \/ StopLossReached(i)) => positions'[i] = positions[i]
<1>1. PICK refused \in SUBSET Due(S) : CloseFully(Due(S) \ refused)
  <2>1. PICK refused \in IF AmmMayRefuse THEN SUBSET Due(S) ELSE {{}} : CloseFully(Due(S) \ refused)
    BY DEF CloseDue
  <2> QED BY <2>1
<1> DEFINE T == Due(S) \ refused
<1>2. T \in SUBSET OpenIds /\ \A i \in T : Unhealthy(i) \/ StopLossReached(i)
  BY DEF Due
<1>3. CloseFully(T)
  BY <1>1
<1> HIDE DEF T
<1>4. LedgerInv'
  BY <1>2, <1>3, CloseFullyStep DEF IInv
<1>5. positions' = [i \in Ids |-> IF i \in T THEN NoPosition ELSE positions[i]]
  BY <1>3 DEF CloseFully, DestroyPositions
<1> QED BY <1>2, <1>4, <1>5 DEF OpenIds

LEMMA ClosePositionsStep ==
  ASSUME IInv, NEW S, ClosePositions(S)
  PROVE  /\ IInv'
         /\ \A i \in OpenIds : ~ (Unhealthy(i) \/ StopLossReached(i)) => positions'[i] = positions[i]
<1>1. CloseDue(S) /\ UNCHANGED <<positionCount, governed, sweep, market>>
  BY DEF ClosePositions
<1>2. OtherTypes' /\ others' = others /\ positionCount' = positionCount
  BY <1>1 DEF IInv, OtherTypes, governed, sweep, market
<1> QED BY <1>1, <1>2, CloseDueStep DEF IInv

(***************************************************************************)
(* A step that leaves the owner, pool and shares of every position and     *)
(* does not touch the counters and the pools keeps the ledger.             *)
(***************************************************************************)
LEMMA PositionsKept ==
  ASSUME LedgerInv,
         positions' \in [Ids -> Position],
         \A i \in Ids : /\ positions'[i].owner = positions[i].owner
                        /\ positions'[i].pool = positions[i].pool
                        /\ positions'[i].lp = positions[i].lp
                        /\ IsOpen(i) \/ positions'[i] = positions[i]
  PROVE  /\ OpenIds' = OpenIds /\ \A i \in Ids : IsOpen(i)' <=> IsOpen(i)
         /\ \A a \in AmmPools : Sum(LpOf(OpenIds, a)', NumIds) = Sum(LpOf(OpenIds, a), NumIds)
<1>1. \A i \in Ids : IsOpen(i)' <=> IsOpen(i)
  BY DEF IsOpen
<1>2. OpenIds' = OpenIds
  BY <1>1 DEF OpenIds
<1>3. ASSUME NEW a \in AmmPools PROVE LpOf(OpenIds, a)' = LpOf(OpenIds, a)
  <2>1. LpOf(OpenIds, a)' = [i \in Ids |-> IF i \in OpenIds' /\ positions'[i].pool = a
                                          THEN positions'[i].lp ELSE 0]
    BY DEF LpOf
  <2> QED BY <1>2, <2>1 DEF LpOf
<1> QED BY <1>1, <1>2, <1>3

LEMMA LedgerKept ==
  ASSUME LedgerInv,
         positions' \in [Ids -> Position],
         \A i \in Ids : /\ positions'[i].owner = positions[i].owner
                        /\ positions'[i].pool = positions[i].pool
                        /\ positions'[i].lp = positions[i].lp
                        /\ IsOpen(i) \/ positions'[i] = positions[i],
         debt' \in [Ids -> Nat], \A i \in Ids : debt[i] = 0 => debt'[i] = 0,
         UNCHANGED <<positionCount, openCount, writtenOff, pools, others>>
  PROVE  LedgerInv'
<1>1. /\ OpenIds' = OpenIds /\ \A i \in Ids : IsOpen(i)' <=> IsOpen(i)
      /\ \A a \in AmmPools : Sum(LpOf(OpenIds, a)', NumIds) = Sum(LpOf(OpenIds, a), NumIds)
  BY PositionsKept
<1>2. LedgerTypes'
  BY DEF LedgerInv, LedgerTypes
<1>3. TotalsFollowPositions'
  BY <1>1 DEF LedgerInv, TotalsFollowPositions
<1>4. IdsGivenOnce'
  BY <1>1 DEF LedgerInv, IdsGivenOnce
<1>5. PositionsBacked'
  <2> SUFFICES ASSUME NEW i \in Ids
               PROVE  /\ IsOpen(i)' => HasPool(positions[i].pool)' /\ positions'[i].lp > 0
                      /\ debt'[i] > 0 => IsOpen(i)'
    BY DEF PositionsBacked
  <2>1. IsOpen(i)' => HasPool(positions[i].pool)' /\ positions'[i].lp > 0
    BY <1>1 DEF LedgerInv, PositionsBacked, HasPool
  <2>2. debt'[i] > 0 => debt[i] > 0
    BY DEF LedgerInv, LedgerTypes
  <2> QED BY <1>1, <2>1, <2>2 DEF LedgerInv, PositionsBacked
<1>6. PoolsLimited'
  BY DEF LedgerInv, PoolsLimited, HasPool
<1> QED BY <1>2, <1>3, <1>4, <1>5, <1>6 DEF LedgerInv

\* When no position and no counter changes, the pools may.
LEMMA PoolsStep ==
  ASSUME LedgerInv, UNCHANGED <<positions, positionCount, openCount, debt, writtenOff>>,
         pools' \in [AmmPools -> [leveraged : Nat, leverageMax : Nat, maxRatio : Nat]],
         \A a \in AmmPools : pools'[a].leveraged = pools[a].leveraged,
         \A a \in AmmPools : HasPool(a) /\ pools[a].leveraged # 0 => HasPool(a)',
         PoolsLimited'
  PROVE  LedgerInv'
<1>1. positions \in [Ids -> Position]
  BY DEF LedgerInv, LedgerTypes
<1>2. /\ OpenIds' = OpenIds /\ \A i \in Ids : IsOpen(i)' <=> IsOpen(i)
      /\ \A a \in AmmPools : Sum(LpOf(OpenIds, a)', NumIds) = Sum(LpOf(OpenIds, a), NumIds)
  BY <1>1, PositionsKept
<1>3. LedgerTypes'
  BY DEF LedgerInv, LedgerTypes
<1>4. TotalsFollowPositions'
  BY <1>2 DEF LedgerInv, TotalsFollowPositions
<1>5. IdsGivenOnce'
  BY <1>2 DEF LedgerInv, IdsGivenOnce
<1>6. PositionsBacked'
  <2> SUFFICES ASSUME NEW i \in Ids
               PROVE  /\ IsOpen(i)' => HasPool(positions[i].pool)' /\ positions'[i].lp > 0
                      /\ debt'[i] > 0 => IsOpen(i)'
    BY DEF PositionsBacked
  <2>1. ASSUME IsOpen(i) PROVE HasPool(positions[i].pool)'
    <3> DEFINE a == positions[i].pool
    <3>1. a \in AmmPools /\ HasPool(a) /\ i \in OpenIds /\ positions[i].lp > 0
      BY <2>1 DEF LedgerInv, IdsGivenOnce, PositionsBacked, OpenIds
    <3>2. LpOf(OpenIds, a) \in [1 .. NumIds -> Nat] /\ pools[a].leveraged = Sum(LpOf(OpenIds, a), NumIds)
      BY <3>1, LpOfNat DEF LedgerInv, TotalsFollowPositions
    <3>3. LpOf(OpenIds, a)[i] = positions[i].lp /\ i \in 1 .. NumIds
      BY <3>1 DEF LpOf, Ids
    <3>4. LpOf(OpenIds, a)[i] <= pools[a].leveraged
      BY <3>2, <3>3, SumBound, SizesAssumption
    <3>5. pools[a].leveraged # 0
      BY <1>1, <3>1, <3>3, <3>4 DEF LedgerInv, LedgerTypes, Position
    <3>6. pools'[a] # NoPool
      BY <3>1, <3>5 DEF HasPool
    <3> QED BY <3>6 DEF HasPool
  <2> QED BY <1>2, <2>1 DEF LedgerInv, PositionsBacked
<1> QED BY <1>3, <1>4, <1>5, <1>6 DEF LedgerInv

LEMMA UpdateStopLossStep ==
  ASSUME IInv, NEW u, NEW id \in Ids, NEW s \in StopLossPrices, UpdateStopLoss(u, id, s)
  PROVE  /\ IInv'
         /\ \A i \in OpenIds : ~ Unhealthy(i) => positions'[i].lp = positions[i].lp
<1>0. /\ LedgerInv /\ OtherTypes /\ id \in OpenIds
      /\ UNCHANGED <<positionCount, governed, sweep, market>>
  BY DEF IInv, UpdateStopLoss, OpenIds
<1>1. OtherTypes' /\ others' = others /\ positionCount' = positionCount
  BY <1>0 DEF OtherTypes, governed, sweep, market
<1>2. CASE Unhealthy(id)
  <2>1. CloseFully({id})
    BY <1>2 DEF UpdateStopLoss
  <2>2. LedgerInv'
    BY <1>0, <1>1, <2>1, CloseFullyStep
  <2>3. positions' = [i \in Ids |-> IF i \in {id} THEN NoPosition ELSE positions[i]]
    BY <2>1 DEF CloseFully, DestroyPositions
  <2> QED BY <1>1, <1>2, <2>2, <2>3 DEF IInv, OpenIds
<1>3. CASE ~ Unhealthy(id)
  <2>1. /\ positions' = [positions EXCEPT ![id].stopLoss = s]
        /\ UNCHANGED <<openCount, debt, writtenOff, pools>>
    BY <1>3 DEF UpdateStopLoss
  <2>2. positions \in [Ids -> Position] /\ debt \in [Ids -> Nat] /\ s \in Nat
    BY <1>0, AmountsAssumption DEF LedgerInv, LedgerTypes
  <2>3. /\ positions' \in [Ids -> Position]
        /\ \A i \in Ids : i # id => positions'[i] = positions[i]
        /\ positions'[id] = [positions[id] EXCEPT !.stopLoss = s]
    BY <2>1, <2>2 DEF Position
  <2>4. \A i \in Ids : /\ positions'[i].owner = positions[i].owner
                       /\ positions'[i].pool = positions[i].pool
                       /\ positions'[i].lp = positions[i].lp
                       /\ IsOpen(i) \/ positions'[i] = positions[i]
    BY <1>0, <2>2, <2>3 DEF OpenIds, Position
  <2>5. LedgerInv'
    BY <1>0, <1>1, <2>1, <2>2, <2>3, <2>4, LedgerKept
  <2> QED BY <1>1, <2>4, <2>5 DEF IInv, OpenIds
<1> QED BY <1>2, <1>3

\* A step of the sweep.
LEMMA BeginBlockStep ==
  ASSUME IInv, BeginBlock
  PROVE  /\ IInv'
         /\ \A i \in OpenIds : ~ (Unhealthy(i) \/ StopLossReached(i)) => positions'[i] = positions[i]
<1>0. /\ LedgerInv /\ OtherTypes
      /\ UNCHANGED <<positionCount, governed, market>>
      /\ epochPosition' = (epochPosition + 1) % params.epochLength
  BY DEF IInv, BeginBlock
<1>1. others' = others /\ positionCount' = positionCount /\ params' = params
      /\ enabledPools' = enabledPools /\ whitelist' = whitelist /\ price' = price
  BY <1>0 DEF governed, market
<1>2. params.epochLength \in Nat \ {0} /\ params.numberPerBlock \in Nat \ {0}
  BY <1>0, ParamsAssumption DEF OtherTypes
<1>3. epochPosition' \in 0 .. params.epochLength - 1
  <2>1. epochPosition + 1 \in Nat
    BY <1>0, <1>2 DEF OtherTypes
  <2> QED BY <1>0, <1>2, <2>1
<1>4. CASE Sweeps
  <2>1. offset' = NewOffset /\ CloseDue(Page)
    BY <1>4 DEF BeginBlock
  <2>2. offset' \in Nat
    BY <1>0, <1>2, <2>1 DEF NewOffset, OtherTypes
  <2>3. OtherTypes'
    BY <1>0, <1>1, <1>3, <2>2 DEF OtherTypes
  <2> QED BY <1>1, <2>1, <2>3, CloseDueStep DEF IInv
<1>5. CASE ~ Sweeps
  <2>1. UNCHANGED <<offset, positions, openCount, debt, writtenOff, pools>>
    BY <1>5 DEF BeginBlock
  <2>2. OtherTypes'
    BY <1>0, <1>1, <1>3, <2>1 DEF OtherTypes
  <2>3. positions \in [Ids -> Position] /\ debt \in [Ids -> Nat]
    BY <1>0 DEF LedgerInv, LedgerTypes
  <2>4. LedgerInv'
    BY <1>0, <1>1, <2>1, <2>3, LedgerKept
  <2> QED BY <2>1, <2>2, <2>4 DEF IInv
<1> QED BY <1>4, <1>5

-----------------------------------------------------------------------------
(***************************************************************************)
(* Governance, interest, the market and ordinary providers leave the       *)
(* positions as they are.                                                  *)
(***************************************************************************)
LEMMA PoolStep ==
  ASSUME IInv, NEW a \in AmmPools, NEW prm \in PoolParams,
         AddPool(a, prm) \/ UpdatePool(a, prm) \/ RemovePool(a)
  PROVE  IInv'
<1>0. /\ LedgerInv /\ OtherTypes
      /\ UNCHANGED <<positions, positionCount, openCount, debt, writtenOff, governed, sweep, market>>
  BY DEF IInv, AddPool, UpdatePool, RemovePool
<1>1. OtherTypes' /\ others' = others
  BY <1>0 DEF OtherTypes, governed, sweep, market
<1>2. prm \in [leverageMax : Nat, maxRatio : Nat] /\ prm.leverageMax > RatioOne
  BY ParamsAssumption
<1>3. pools \in [AmmPools -> [leveraged : Nat, leverageMax : Nat, maxRatio : Nat]]
  BY <1>0 DEF LedgerInv, LedgerTypes
<1>4. ~ HasPool(a) => pools[a].leveraged = 0
  BY DEF HasPool, NoPool
<1>5. PICK new \in [leveraged : Nat, leverageMax : Nat, maxRatio : Nat] :
         /\ pools' = [pools EXCEPT ![a] = new]
         /\ new.leveraged = pools[a].leveraged
         /\ \/ new = NoPool /\ pools[a].leveraged = 0
            \/ new.leverageMax = prm.leverageMax /\ new.maxRatio = prm.maxRatio /\ new # NoPool
  <2>1. CASE AddPool(a, prm)
    <3> DEFINE new == [leveraged |-> 0, leverageMax |-> prm.leverageMax, maxRatio |-> prm.maxRatio]
    <3>1. new.leverageMax # 0 /\ new \in [leveraged : Nat, leverageMax : Nat, maxRatio : Nat]
      BY <1>2, AmountsAssumption
    <3>2. new # NoPool
      BY <3>1 DEF NoPool
    <3> QED BY <1>4, <2>1, <3>1, <3>2 DEF AddPool
  <2>2. CASE UpdatePool(a, prm)
    <3>1. pools' = [pools EXCEPT ![a].leverageMax = prm.leverageMax, ![a].maxRatio = prm.maxRatio]
      BY <2>2 DEF UpdatePool
    <3>2. prm.leverageMax \in Nat /\ prm.maxRatio \in Nat
      BY <1>2
    <3>3. pools' \in [AmmPools -> [leveraged : Nat, leverageMax : Nat, maxRatio : Nat]]
      BY <1>3, <3>1, <3>2
    <3>4. /\ pools'[a].leveraged = pools[a].leveraged
          /\ pools'[a].leverageMax = prm.leverageMax
          /\ pools'[a].maxRatio = prm.maxRatio
          /\ \A b \in AmmPools : b # a => pools'[b] = pools[b]
      BY <1>3, <3>1, <3>2
    <3>5. pools' = [pools EXCEPT ![a] = pools'[a]]
      BY <1>3, <3>3, <3>4
    <3>6. pools'[a] # NoPool
      <4>1. prm.leverageMax # 0
        BY <1>2, AmountsAssumption
      <4> QED BY <3>4, <4>1 DEF NoPool
    <3>7. pools'[a] \in [leveraged : Nat, leverageMax : Nat, maxRatio : Nat]
      BY <3>3
    <3> QED BY <3>4, <3>5, <3>6, <3>7
  <2>3. CASE RemovePool(a)
    <3>1. pools' = [pools EXCEPT ![a] = NoPool] /\ pools[a].leveraged = 0
      BY <2>3 DEF RemovePool, MayRemove
    <3>2. NoPool \in [leveraged : Nat, leverageMax : Nat, maxRatio : Nat] /\ NoPool.leveraged = 0
      BY DEF NoPool
    <3> QED BY <3>1, <3>2
  <2> QED BY <2>1, <2>2, <2>3
<1>6. /\ pools' \in [AmmPools -> [leveraged : Nat, leverageMax : Nat, maxRatio : Nat]]
      /\ pools'[a] = new /\ \A b \in AmmPools : b # a => pools'[b] = pools[b]
  BY <1>3, <1>5
<1>7. \A b \in AmmPools : pools'[b].leveraged = pools[b].leveraged
  BY <1>5, <1>6
<1>8. \A b \in AmmPools : HasPool(b) /\ pools[b].leveraged # 0 => HasPool(b)'
  BY <1>5, <1>6 DEF HasPool
<1>9. PoolsLimited'
  <2> SUFFICES ASSUME NEW b \in AmmPools, HasPool(b)'
               PROVE  \E q \in PoolParams : pools'[b].leverageMax = q.leverageMax
                                           /\ pools'[b].maxRatio = q.maxRatio
    BY DEF PoolsLimited
  <2>1. CASE b = a
    BY <1>5, <1>6, <2>1 DEF HasPool
  <2>2. CASE b # a
    <3>1. HasPool(b) /\ pools'[b] = pools[b]
      BY <1>6, <2>2 DEF HasPool
    <3> QED BY <1>0, <3>1 DEF LedgerInv, PoolsLimited
  <2> QED BY <2>1, <2>2
<1> QED BY <1>0, <1>1, <1>6, <1>7, <1>8, <1>9, PoolsStep DEF IInv

LEMMA GovernanceStep ==
  ASSUME IInv,
         \/ \E S, T \in SUBSET AmmPools : UpdateEnabledPools(S, T)
         \/ \E u \in Candidates : Whitelist(u) \/ Dewhitelist(u)
         \/ \E prms \in ParamSets, S \in SUBSET AmmPools : UpdateParams(prms, S)
         \/ \E a \in AmmPools, p \in Prices : SetPrice(a, p)
  PROVE  IInv' /\ UNCHANGED <<positions, positionCount, openCount, debt, writtenOff, pools>>
<1>0. LedgerInv /\ OtherTypes
  BY DEF IInv
<1>1. UNCHANGED <<positions, positionCount, openCount, debt, writtenOff, pools, others>>
  BY DEF UpdateEnabledPools, Whitelist, Dewhitelist, UpdateParams, SetPrice, market
<1>2. positions \in [Ids -> Position] /\ debt \in [Ids -> Nat]
  BY <1>0 DEF LedgerInv, LedgerTypes
<1>3. LedgerInv'
  BY <1>0, <1>1, <1>2, LedgerKept
<1>4. OtherTypes'
  <2>1. ASSUME NEW S \in SUBSET AmmPools, NEW T \in SUBSET AmmPools, UpdateEnabledPools(S, T)
        PROVE  OtherTypes'
    BY <1>0, <2>1 DEF UpdateEnabledPools, OtherTypes, sweep, market
  <2>2. ASSUME NEW u \in Candidates, Whitelist(u) \/ Dewhitelist(u)
        PROVE  OtherTypes'
    BY <1>0, <2>2, SizesAssumption DEF Whitelist, Dewhitelist, OtherTypes, sweep, market
  <2>3. ASSUME NEW prms \in ParamSets, NEW S \in SUBSET AmmPools, UpdateParams(prms, S)
        PROVE  OtherTypes'
    BY <1>0, <2>3 DEF UpdateParams, OtherTypes, market
  <2>4. ASSUME NEW a \in AmmPools, NEW p \in Prices, SetPrice(a, p)
        PROVE  OtherTypes'
    BY <1>0, <2>4 DEF SetPrice, OtherTypes, governed, sweep
  <2> QED BY <2>1, <2>2, <2>3, <2>4
<1> QED BY <1>1, <1>3, <1>4 DEF IInv

LEMMA InterestStep ==
  ASSUME IInv, NEW id \in Ids, Interest(id)
  PROVE  IInv'
<1>0. /\ LedgerInv /\ OtherTypes
      /\ UNCHANGED <<positions, positionCount, openCount, writtenOff, pools, governed, sweep, market>>
      /\ debt' = [debt EXCEPT ![id] = @ + 1] /\ debt[id] > 0
  BY DEF IInv, Interest
<1>1. OtherTypes' /\ others' = others
  BY <1>0 DEF OtherTypes, governed, sweep, market
<1>2. positions \in [Ids -> Position] /\ debt \in [Ids -> Nat]
  BY <1>0 DEF LedgerInv, LedgerTypes
<1>3. debt' \in [Ids -> Nat] /\ \A i \in Ids : debt[i] = 0 => debt'[i] = 0
  BY <1>0, <1>2
<1> QED BY <1>0, <1>1, <1>2, <1>3, LedgerKept DEF IInv

\* A provider joins or leaves.
LEMMA ProvideStep ==
  ASSUME IInv, NEW a \in AmmPools, NEW n \in OtherShares, Provide(a, n)
  PROVE  IInv'
<1>0. /\ LedgerInv /\ OtherTypes
      /\ UNCHANGED <<positions, positionCount, openCount, debt, writtenOff, pools, governed, sweep, price>>
      /\ others' = [others EXCEPT ![a] = n]
  BY DEF IInv, Provide
<1>1. OtherTypes'
  BY <1>0 DEF OtherTypes, governed, sweep
<1>2. pools \in [AmmPools -> [leveraged : Nat, leverageMax : Nat, maxRatio : Nat]]
  BY <1>0 DEF LedgerInv, LedgerTypes
<1>3. PoolsLimited'
  BY <1>0 DEF LedgerInv, PoolsLimited, HasPool
<1>4. LedgerInv'
  BY <1>0, <1>2, <1>3, PoolsStep DEF HasPool
<1> QED BY <1>1, <1>4 DEF IInv

-----------------------------------------------------------------------------
LEMMA StepIInv == IInv /\ [Next]_vars => IInv'
<1> SUFFICES ASSUME IInv, [Next]_vars PROVE IInv'
  OBVIOUS
<1>1. ASSUME NEW u \in Owners, NEW a \in AmmPools, NEW c \in Collaterals, NEW lev \in Leverages,
             NEW s \in StopLossPrices, Open(u, a, c, lev, s)
      PROVE  IInv'
  BY <1>1, OpenStep
<1>2. ASSUME NEW u \in Owners, NEW id \in Ids, NEW n \in CloseAmounts, Close(u, id, n)
      PROVE  IInv'
  BY <1>2, CloseStep
<1>3. ASSUME NEW S \in SUBSET Ids, ClosePositions(S) PROVE IInv'
  BY <1>3, ClosePositionsStep
<1>4. ASSUME NEW u \in Owners, NEW id \in Ids, NEW s \in StopLossPrices, UpdateStopLoss(u, id, s)
      PROVE  IInv'
  BY <1>4, UpdateStopLossStep
<1>5. ASSUME NEW a \in AmmPools, NEW prm \in PoolParams, AddPool(a, prm) \/ UpdatePool(a, prm)
      PROVE  IInv'
  BY <1>5, PoolStep
<1>6. ASSUME NEW a \in AmmPools, RemovePool(a) PROVE IInv'
  <2>1. HasPool(a)
    BY <1>6 DEF RemovePool
  <2>2. PICK prm \in PoolParams : pools[a].leverageMax = prm.leverageMax
    BY <2>1 DEF IInv, LedgerInv, PoolsLimited
  <2> QED BY <1>6, PoolStep
<1>7. ASSUME \/ \E S, T \in SUBSET AmmPools : UpdateEnabledPools(S, T)
             \/ \E u \in Candidates : Whitelist(u) \/ Dewhitelist(u)
             \/ \E prms \in ParamSets, S \in SUBSET AmmPools : UpdateParams(prms, S)
             \/ \E a \in AmmPools, p \in Prices : SetPrice(a, p)
      PROVE  IInv'
  BY <1>7, GovernanceStep
<1>8. ASSUME NEW id \in Ids, Interest(id) PROVE IInv'
  BY <1>8, InterestStep
<1>9. ASSUME NEW a \in AmmPools, NEW n \in OtherShares, Provide(a, n) PROVE IInv'
  BY <1>9, ProvideStep
<1>10. ASSUME BeginBlock PROVE IInv'
  BY <1>10, BeginBlockStep
<1>11. ASSUME UNCHANGED vars PROVE IInv'
  <2>1. UNCHANGED <<positions, positionCount, openCount, debt, writtenOff, pools, others>> /\ OtherTypes'
    BY <1>11 DEF IInv, OtherTypes, vars
  <2>2. positions \in [Ids -> Position] /\ debt \in [Ids -> Nat]
    BY DEF IInv, LedgerInv, LedgerTypes
  <2> QED BY <2>1, <2>2, LedgerKept DEF IInv
<1> QED BY <1>1, <1>2, <1>3, <1>4, <1>5, <1>6, <1>7, <1>8, <1>9, <1>10, <1>11
        DEF Next, BetweenBlocks

LEMMA Invariance == Spec => []IInv
<1> QED BY InitIInv, StepIInv, PTL DEF Spec
-----------------------------------------------------------------------------
(***************************************************************************)
(* The loss of a vault on a closed position.                               *)
(***************************************************************************)
\* Only closes record losses.
LEMMA LossInClose ==
  ASSUME IInv, [Next]_vars
  PROVE  writtenOff' = writtenOff \/ \E S \in SUBSET OpenIds : CloseFully(S)
<1> DEFINE Goal == writtenOff' = writtenOff \/ \E S \in SUBSET OpenIds : CloseFully(S)
<1>1. ASSUME NEW u \in Owners, NEW a \in AmmPools, NEW c \in Collaterals, NEW lev \in Leverages,
             NEW s \in StopLossPrices, Open(u, a, c, lev, s)
      PROVE  Goal
  BY <1>1, OpenStep
<1>2. ASSUME NEW u \in Owners, NEW id \in Ids, NEW n \in CloseAmounts, Close(u, id, n)
      PROVE  Goal
  <2>1. {id} \in SUBSET OpenIds
    BY <1>2 DEF Close, OpenIds
  <2>2. CloseFully({id}) \/ writtenOff' = writtenOff
    BY <1>2 DEF Close, CloseInPart
  <2> QED BY <2>1, <2>2
<1>3. ASSUME NEW S, CloseDue(S) PROVE Goal
  <2>1. PICK refused \in IF AmmMayRefuse THEN SUBSET Due(S) ELSE {{}} : CloseFully(Due(S) \ refused)
    BY <1>3 DEF CloseDue
  <2>2. Due(S) \ refused \in SUBSET OpenIds
    BY DEF Due
  <2> QED BY <2>1, <2>2
<1>4. ASSUME NEW u \in Owners, NEW id \in Ids, NEW s \in StopLossPrices, UpdateStopLoss(u, id, s)
      PROVE  Goal
  <2>1. {id} \in SUBSET OpenIds
    BY <1>4 DEF UpdateStopLoss, OpenIds
  <2>2. CloseFully({id}) \/ writtenOff' = writtenOff
    BY <1>4 DEF UpdateStopLoss
  <2> QED BY <2>1, <2>2
<1>5. ASSUME \/ \E a \in AmmPools, prm \in PoolParams : AddPool(a, prm) \/ UpdatePool(a, prm)
             \/ \E a \in AmmPools : RemovePool(a)
             \/ \E id \in Ids : Interest(id)
             \/ \E a \in AmmPools, n \in OtherShares : Provide(a, n)
      PROVE  Goal
  BY <1>5 DEF AddPool, UpdatePool, RemovePool, Interest, Provide
<1>6. ASSUME \/ \E S, T \in SUBSET AmmPools : UpdateEnabledPools(S, T)
             \/ \E u \in Candidates : Whitelist(u) \/ Dewhitelist(u)
             \/ \E prms \in ParamSets, S \in SUBSET AmmPools : UpdateParams(prms, S)
             \/ \E a \in AmmPools, p \in Prices : SetPrice(a, p)
      PROVE  Goal
  BY <1>6, GovernanceStep
<1>7. ASSUME BeginBlock PROVE Goal
  <2>1. CloseDue(Page) \/ writtenOff' = writtenOff
    BY <1>7 DEF BeginBlock
  <2> QED BY <1>3, <2>1
<1>8. ASSUME UNCHANGED vars PROVE Goal
  BY <1>8 DEF vars
<1>9. ASSUME NEW S \in SUBSET Ids, ClosePositions(S) PROVE Goal
  BY <1>3, <1>9 DEF ClosePositions
<1> HIDE DEF Goal
<1>10. Goal
  BY <1>1, <1>2, <1>4, <1>5, <1>6, <1>7, <1>8, <1>9 DEF Next, BetweenBlocks
<1> QED BY <1>10 DEF Goal

\* The payout of shares that are worth the debt pays it, whichever way the AMM
\* rounds: a loss means that the position did not have them.
LEMMA LossUnderwater ==
  ASSUME IInv, NEW S \in SUBSET OpenIds, CloseFully(S), NEW id \in Ids,
         writtenOff'[id] # writtenOff[id]
  PROVE  ValueOf(positions[id].pool, positions[id].lp) < debt[id] * PriceOne
<1> DEFINE a == positions[id].pool
           owed == debt[id] * PriceOne
           needed == LpSharesForRepay(a, debt[id])
<1>0. LedgerInv /\ LedgerTypes /\ OtherTypes
  BY DEF IInv, LedgerInv
<1>1. PICK got \in [S -> UNION {FullPayout(i) : i \in S}] :
        (\A i \in S : got[i] \in FullPayout(i)) /\ SettleDebts(S, got)
  BY DEF CloseFully
<1>2. id \in S /\ id \in OpenIds
  <2>1. id \notin S => writtenOff'[id] = writtenOff[id]
    BY <1>0, <1>1, SettledTypes
  <2> QED BY <2>1
<1>3. a \in AmmPools /\ debt[id] \in Nat /\ positions[id].lp \in Nat /\ writtenOff[id] = 0
  <2>1. positions[id] \in Position /\ debt[id] \in Nat
    BY <1>0 DEF LedgerTypes
  <2>2. positions[id].pool \in AmmPools /\ id <= positionCount
    BY <1>0, <1>2 DEF LedgerInv, IdsGivenOnce, OpenIds
  <2>3. writtenOff[id] = 0
    BY <1>0, <1>2 DEF LedgerInv, IdsGivenOnce, OpenIds
  <2> QED BY <2>1, <2>2, <2>3 DEF Position
<1>4. price[a] \in Nat \ {0} /\ PriceOne \in Nat \ {0} /\ owed \in Nat
  <2>1. price[a] \in Nat \ {0} /\ PriceOne \in Nat \ {0}
    BY <1>0, <1>3, AmountsAssumption DEF OtherTypes
  <2> QED BY <1>3, <2>1, ProductNat
<1>5. SoldForDebt(id) \in Nat /\ SoldForDebt(id) = MinOf(needed, positions[id].lp)
  BY <1>0, <1>2, SoldNat DEF SoldForDebt
<1>6. needed \in Nat /\ owed <= needed * price[a]
  BY <1>0, <1>3, SharesForDebt
<1>7. got[id] \in Nat /\ 2 * ValueOf(a, SoldForDebt(id)) <= 2 * (got[id] * PriceOne) + PriceOne
  BY <1>0, <1>1, <1>2, <1>3, <1>5, PayoutNat DEF FullPayout
<1>8. got[id] < debt[id]
  <2>1. writtenOff'[id] = debt[id] - MinOf(debt[id], got[id])
    BY <1>1, <1>2 DEF SettleDebts
  <2> QED BY <1>3, <1>7, <2>1 DEF MinOf
<1> HIDE DEF a, owed, needed
<1>9. ~ owed <= ValueOf(a, SoldForDebt(id))
  <2>1. (got[id] + 1) * PriceOne <= owed
    BY <1>3, <1>4, <1>7, <1>8, ProductMonotone DEF owed
  <2>2. got[id] * PriceOne \in Nat /\ (got[id] + 1) * PriceOne = got[id] * PriceOne + PriceOne
    BY <1>4, <1>7, ProductNat
  <2>3. ValueOf(a, SoldForDebt(id)) \in Nat
    BY <1>0, <1>1, <1>2, <1>3, <1>5, PayoutNat DEF FullPayout, a
  <2> DEFINE g == got[id] * PriceOne
             v == ValueOf(a, SoldForDebt(id))
  <2>4. g \in Nat /\ v \in Nat /\ g + PriceOne <= owed /\ 2 * v <= 2 * g + PriceOne
    BY <1>7, <2>1, <2>2, <2>3
  <2> HIDE DEF g, v
  <2>5. ~ owed <= v
    BY <1>4, <2>4
  <2> QED BY <2>5 DEF v
<1>10. SoldForDebt(id) = positions[id].lp
  <2>1. SoldForDebt(id) # needed
    BY <1>6, <1>9 DEF ValueOf
  <2> QED BY <1>5, <2>1 DEF MinOf
<1>11. ValueOf(a, positions[id].lp) \in Nat
  BY <1>3, <1>4, ProductNat DEF ValueOf, a
<1>12. ValueOf(a, positions[id].lp) < owed
  BY <1>4, <1>9, <1>10, <1>11
<1> QED BY <1>12 DEF a, owed

LEMMA LossStep ==
  ASSUME IInv, [Next]_vars
  PROVE  \A id \in Ids : writtenOff'[id] # writtenOff[id] =>
           ValueOf(positions[id].pool, positions[id].lp) < debt[id] * PriceOne
BY LossInClose, LossUnderwater
-----------------------------------------------------------------------------
(***************************************************************************)
(* Who reduces a position.                                                 *)
(***************************************************************************)
LEMMA ReducedStep ==
  ASSUME IInv, [Next]_vars, NEW id \in OpenIds, positions'[id].lp < positions[id].lp,
         ~ Unhealthy(id), ~ StopLossReached(id)
  PROVE  \E n \in CloseAmounts : Close(positions[id].owner, id, n)
<1> DEFINE Owned == \E n \in CloseAmounts : Close(positions[id].owner, id, n)
<1>0. id \in Ids /\ positions[id].lp \in Nat
  BY DEF IInv, LedgerInv, LedgerTypes, OpenIds, Position
<1>1. positions'[id] # positions[id]
  BY <1>0
<1>2. ~ \E u \in Owners, a \in AmmPools, c \in Collaterals, lev \in Leverages, s \in StopLossPrices :
          Open(u, a, c, lev, s)
  <2>1. SUFFICES ASSUME NEW u \in Owners, NEW a \in AmmPools, NEW c \in Collaterals,
                        NEW lev \in Leverages, NEW s \in StopLossPrices, Open(u, a, c, lev, s)
                 PROVE  FALSE
    OBVIOUS
  <2>2. positions'[id].lp >= positions[id].lp /\ IInv'
    BY <2>1, OpenStep
  <2>3. positions'[id].lp \in Nat
    BY <1>0, <2>2 DEF IInv, LedgerInv, LedgerTypes, Position
  <2> QED BY <1>0, <2>2, <2>3
<1>3. ASSUME NEW u \in Owners, NEW i \in Ids, NEW n \in CloseAmounts, Close(u, i, n)
      PROVE  Owned
  <2>1. i = id
    BY <1>0, <1>1, <1>3, CloseStep
  <2>2. positions[id].owner = u
    BY <1>3, <2>1 DEF Close
  <2> QED BY <1>3, <2>1, <2>2
<1>4. ~ \E S \in SUBSET Ids : ClosePositions(S)
  BY <1>1, ClosePositionsStep
<1>5. ~ BeginBlock
  BY <1>1, BeginBlockStep
<1>6. ~ \E u \in Owners, i \in Ids, s \in StopLossPrices : UpdateStopLoss(u, i, s)
  <2>1. SUFFICES ASSUME NEW u \in Owners, NEW i \in Ids, NEW s \in StopLossPrices,
                        UpdateStopLoss(u, i, s)
                 PROVE  FALSE
    OBVIOUS
  <2>2. positions'[id].lp = positions[id].lp
    BY <2>1, UpdateStopLossStep
  <2> QED BY <1>0, <2>2
<1>7. positions' # positions
  BY <1>1
<1> HIDE DEF Owned
<1>8. Owned
  BY <1>2, <1>3, <1>4, <1>5, <1>6, <1>7, GovernanceStep
  DEF Next, BetweenBlocks, vars, AddPool, UpdatePool, RemovePool, Interest, Provide
<1> QED BY <1>8 DEF Owned
-----------------------------------------------------------------------------
(***************************************************************************)
(* The limit on the positions' part of a pool.                             *)
(***************************************************************************)
\* What a step must do to a pool for ProvidersRemain.
PoolKept(a) ==
    \/ WithinLimit(a)'
    \/ \E prm \in PoolParams : UpdatePool(a, prm)
    \/ \E prms \in ParamSets, S \in SUBSET AmmPools : UpdateParams(prms, S)
    \/ /\ ~ WithinLimit(a)
       /\ pools'[a].leveraged <= pools[a].leveraged
       /\ others'[a] >= others[a]

ProvidersKept == \A a \in AmmPools : PoolKept(a)

\* When the positions' part of a pool shrinks and the other part does not, the
\* pool stays within the limit.
LEMMA LimitKept ==
  ASSUME NEW l \in Nat, NEW m \in Nat, m <= l, NEW k \in Nat, NEW r \in Nat,
         NEW o \in Nat, NEW q \in Nat, o <= q, l * r <= k * (l + o)
  PROVE  m * r <= k * (m + q)
<1>0. k * (l + o) = k * l + k * o /\ k * (m + q) = k * m + k * q
  OBVIOUS
<1>1. k * o <= k * q /\ r * m <= r * l
  BY ProductMonotone
<1>2. l * r = r * l /\ m * r = r * m
  OBVIOUS
<1>3. r * m \in Int /\ k * m \in Nat /\ r * l \in Int /\ k * l \in Int /\ k * o \in Int /\ k * q \in Nat
  OBVIOUS
<1>4. CASE k <= r
  <2>1. (r - k) * m <= (r - k) * l
    BY <1>4, ProductMonotone
  <2>2. (r - k) * m = r * m - k * m /\ (r - k) * l = r * l - k * l
    OBVIOUS
  <2> QED BY <1>0, <1>1, <1>2, <1>3, <2>1, <2>2
<1>5. CASE r <= k
  <2>1. (k - r) * m \in Nat
    BY <1>5, ProductNat
  <2>2. (k - r) * m = k * m - r * m
    OBVIOUS
  <2> QED BY <1>0, <1>2, <1>3, <2>1, <2>2
<1> QED BY <1>4, <1>5

LEMMA LimitTypes ==
  ASSUME LedgerTypes, OtherTypes, NEW a \in AmmPools
  PROVE  /\ pools[a].leveraged \in Nat /\ others[a] \in Nat /\ RatioOne \in Nat
         /\ pools[a].maxRatio \in Nat /\ params.exitBuffer \in Int
         /\ pools[a].maxRatio + MaxOf(params.exitBuffer, 0) \in Nat
<1>1. pools[a].leveraged \in Nat /\ others[a] \in Nat /\ RatioOne \in Nat
  BY AmountsAssumption DEF LedgerTypes, OtherTypes
<1>2. pools[a].maxRatio \in Nat
  BY DEF LedgerTypes
<1>3. params.exitBuffer \in Int
  BY ParamsAssumption DEF OtherTypes
<1> QED BY <1>1, <1>2, <1>3 DEF MaxOf

LEMMA ShrinkingKept ==
  ASSUME LedgerTypes, OtherTypes, LedgerTypes', OtherTypes', NEW a \in AmmPools,
         params' = params, others'[a] >= others[a],
         pools'[a].leveraged <= pools[a].leveraged, pools'[a].maxRatio = pools[a].maxRatio
  PROVE  PoolKept(a)
<1>1. CASE ~ WithinLimit(a)
  BY <1>1 DEF PoolKept
<1>2. CASE WithinLimit(a)
  <2> DEFINE k == pools[a].maxRatio + MaxOf(params.exitBuffer, 0)
             l == pools[a].leveraged
             m == pools'[a].leveraged
  <2>1. l \in Nat /\ k \in Nat /\ RatioOne \in Nat /\ others[a] \in Nat
    BY LimitTypes
  <2>2. m \in Nat /\ others'[a] \in Nat
    BY AmountsAssumption DEF LedgerTypes, OtherTypes
  <2>3. l * RatioOne <= k * (l + others[a])
    BY <1>2 DEF WithinLimit, TotalShares
  <2> HIDE DEF k
  <2>4. m * RatioOne <= k * (m + others'[a])
    BY <2>1, <2>2, <2>3, LimitKept
  <2>5. WithinLimit(a)'
    BY <2>4 DEF WithinLimit, TotalShares, k
  <2> QED BY <2>5 DEF PoolKept
<1> QED BY <1>1, <1>2

\* A pool without positions is within its limit.
LEMMA EmptyKept ==
  ASSUME LedgerTypes', OtherTypes', NEW a \in AmmPools, pools'[a].leveraged = 0
  PROVE  PoolKept(a)
<1> DEFINE k == pools'[a].maxRatio + MaxOf(params'.exitBuffer, 0)
<1>1. k \in Nat /\ others'[a] \in Nat
  <2>1. pools'[a].maxRatio \in Nat /\ others'[a] \in Nat
    BY AmountsAssumption DEF LedgerTypes, OtherTypes
  <2>2. params'.exitBuffer \in Int
    BY ParamsAssumption DEF OtherTypes
  <2> QED BY <2>1, <2>2 DEF MaxOf
<1>2. WithinLimit(a)' <=> 0 * RatioOne <= k * (0 + others'[a])
  BY DEF WithinLimit, TotalShares
<1> HIDE DEF k
<1>3. k * (0 + others'[a]) \in Nat /\ 0 * RatioOne = 0
  BY <1>1, ProductNat, AmountsAssumption
<1> QED BY <1>2, <1>3 DEF PoolKept

LEMMA FullCloseKept ==
  ASSUME LedgerTypes, OtherTypes, LedgerTypes', OtherTypes', NEW S, CloseFully(S),
         params' = params, others' = others
  PROVE  ProvidersKept
<1> SUFFICES ASSUME NEW a \in AmmPools PROVE PoolKept(a)
  BY DEF ProvidersKept
<1>1. pools'[a] = IF HasPool(a)
                  THEN [pools[a] EXCEPT !.leveraged = @ - Sum(LpOf(S, a), NumIds)] ELSE pools[a]
  BY DEF CloseFully, ReleaseShares
<1>2. Sum(LpOf(S, a), NumIds) \in Nat
  BY LpOfNat, SumBound, SizesAssumption
<1>3. pools[a] \in [leveraged : Nat, leverageMax : Nat, maxRatio : Nat] /\ others[a] \in Nat
  BY AmountsAssumption DEF LedgerTypes, OtherTypes
<1>4. pools'[a].leveraged <= pools[a].leveraged /\ pools'[a].maxRatio = pools[a].maxRatio
  BY <1>1, <1>2, <1>3
<1> QED BY <1>3, <1>4, ShrinkingKept

LEMMA DueCloseKept ==
  ASSUME LedgerTypes, OtherTypes, LedgerTypes', OtherTypes', NEW S, CloseDue(S),
         params' = params, others' = others
  PROVE  ProvidersKept
<1>1. PICK T : CloseFully(T)
  BY DEF CloseDue
<1> QED BY <1>1, FullCloseKept

LEMMA PartCloseKept ==
  ASSUME LedgerTypes, OtherTypes, LedgerTypes', OtherTypes', NEW id \in Ids,
         NEW total \in Nat, NEW repay, CloseInPart(id, total, repay),
         positions[id].pool \in AmmPools, params' = params, others' = others
  PROVE  ProvidersKept
<1> SUFFICES ASSUME NEW a \in AmmPools PROVE PoolKept(a)
  BY DEF ProvidersKept
<1>1. pools' = [pools EXCEPT ![positions[id].pool].leveraged = @ - total]
  BY DEF CloseInPart
<1>2. /\ pools \in [AmmPools -> [leveraged : Nat, leverageMax : Nat, maxRatio : Nat]]
      /\ others[a] \in Nat
  BY AmountsAssumption DEF LedgerTypes, OtherTypes
<1>3. pools'[a].leveraged <= pools[a].leveraged /\ pools'[a].maxRatio = pools[a].maxRatio
  BY <1>1, <1>2
<1> QED BY <1>2, <1>3, ShrinkingKept

LEMMA UnchangedKept ==
  ASSUME LedgerTypes, OtherTypes, LedgerTypes', OtherTypes', UNCHANGED <<pools, others, params>>
  PROVE  ProvidersKept
<1> SUFFICES ASSUME NEW a \in AmmPools PROVE PoolKept(a)
  BY DEF ProvidersKept
<1>1. pools[a].leveraged \in Nat /\ others[a] \in Nat
  BY LimitTypes
<1> QED BY <1>1, ShrinkingKept

\* An opening is checked against the limit without the buffer.
LEMMA OpenKept ==
  ASSUME LedgerTypes, OtherTypes, LedgerTypes', OtherTypes', params' = params, others' = others,
         NEW id, NEW u, NEW a \in AmmPools, NEW c, NEW lev, NEW s,
         ProcessOpenLong(id, u, a, c, lev, s)
  PROVE  ProvidersKept
<1>1. PICK shares : /\ CheckMaxLeverageRatio(a, pools[a].leveraged + shares)
                    /\ pools' = [pools EXCEPT ![a].leveraged = @ + shares]
  BY DEF ProcessOpenLong
<1> DEFINE l == pools[a].leveraged + shares
           t == l + others[a]
           buffer == MaxOf(params.exitBuffer, 0)
<1>2. l * RatioOne < pools[a].maxRatio * t
  BY <1>1 DEF CheckMaxLeverageRatio
<1>3. /\ pools'[a].leveraged = l /\ pools'[a].maxRatio = pools[a].maxRatio
      /\ \A b \in AmmPools : b # a => pools'[b] = pools[b]
  BY <1>1 DEF LedgerTypes
<1>4. l \in Nat /\ others[a] \in Nat
  BY <1>3, LimitTypes DEF LedgerTypes
<1>5. t \in Nat /\ RatioOne \in Nat /\ pools[a].maxRatio \in Nat
  BY <1>4, LimitTypes
<1>6. buffer \in Nat
  BY LimitTypes DEF MaxOf
<1>7. WithinLimit(a)' <=> l * RatioOne <= (pools[a].maxRatio + buffer) * t
  BY <1>3 DEF WithinLimit, TotalShares
<1> HIDE DEF l, t, buffer
<1>8. l * RatioOne <= (pools[a].maxRatio + buffer) * t
  <2>1. (pools[a].maxRatio + buffer) * t = pools[a].maxRatio * t + buffer * t
    BY <1>5, <1>6
  <2>2. buffer * t \in Nat /\ pools[a].maxRatio * t \in Nat /\ l * RatioOne \in Nat
    BY <1>4, <1>5, <1>6, ProductNat
  <2> QED BY <1>2, <2>1, <2>2
<1>9. ASSUME NEW b \in AmmPools, b # a PROVE PoolKept(b)
  <2>1. pools[b].leveraged \in Nat /\ others[b] \in Nat
    BY LimitTypes
  <2> QED BY <1>3, <1>9, <2>1, ShrinkingKept
<1>10. PoolKept(a)
  BY <1>7, <1>8 DEF PoolKept
<1> QED BY <1>9, <1>10 DEF ProvidersKept

\* A provider joins, or leaves as far as the pool's limit lets it.
LEMMA ProvideKept ==
  ASSUME LedgerTypes, OtherTypes, LedgerTypes', OtherTypes',
         NEW a \in AmmPools, NEW n \in OtherShares, Provide(a, n)
  PROVE  ProvidersKept
<1>0. /\ UNCHANGED <<pools, params>> /\ others' = [others EXCEPT ![a] = n]
      /\ n < others[a] => CheckAmmPoolBalance(a, n)
  BY DEF Provide, governed
<1>1. others'[a] = n /\ \A b \in AmmPools : b # a => others'[b] = others[b]
  BY <1>0 DEF OtherTypes
<1>2. n \in Nat /\ \A b \in AmmPools : pools[b].leveraged \in Nat /\ others[b] \in Nat
  BY LimitTypes, AmountsAssumption
<1>3. ASSUME NEW b \in AmmPools, b # a \/ ~ (n < others[a]) PROVE PoolKept(b)
  <2>1. others'[b] >= others[b]
    BY <1>1, <1>2, <1>3
  <2> QED BY <1>0, <1>2, <2>1, ShrinkingKept
<1>4. CASE n < others[a]
  <2>1. CASE ~ HasPool(a)
    <3>1. pools'[a].leveraged = 0
      BY <1>0, <2>1 DEF HasPool, NoPool
    <3> QED BY <1>3, <3>1, EmptyKept DEF ProvidersKept
  <2>2. CASE HasPool(a)
    <3> DEFINE l == pools[a].leveraged
               r == pools[a].maxRatio
               e == params.exitBuffer
               t == l + n
    <3>1. l * RatioOne <= (r + e) * t
      BY <1>0, <1>4, <2>2 DEF CheckAmmPoolBalance
    <3>2. l \in Nat /\ t \in Nat /\ r \in Nat /\ e \in Int /\ RatioOne \in Nat
      BY <1>2, LimitTypes
    <3>3. WithinLimit(a)' <=> l * RatioOne <= (r + MaxOf(e, 0)) * t
      BY <1>0, <1>1 DEF WithinLimit, TotalShares
    <3> HIDE DEF l, r, e, t
    <3>4. r + e <= r + MaxOf(e, 0) /\ MaxOf(e, 0) \in Int
      BY <3>2 DEF MaxOf
    <3> DEFINE d == r + e
               f == r + MaxOf(e, 0)
    <3>5. d \in Int /\ f \in Int /\ d <= f
      BY <3>2, <3>4
    <3> HIDE DEF d, f
    <3>6. t * d <= t * f
      BY <3>2, <3>5, ProductMonotone
    <3>7. t * d = d * t /\ t * f = f * t /\ d * t \in Int /\ f * t \in Int /\ l * RatioOne \in Int
      BY <3>2, <3>5
    <3>8. l * RatioOne <= f * t
      BY <3>1, <3>6, <3>7 DEF d
    <3>9. PoolKept(a)
      BY <3>3, <3>8 DEF PoolKept, f
    <3> QED BY <1>3, <3>9 DEF ProvidersKept
  <2> QED BY <2>1, <2>2
<1> QED BY <1>3, <1>4 DEF ProvidersKept

\* Governance adds a pool or removes one without positions; its changes of a
\* limit are the exception that the property makes.
LEMMA PoolStepKept ==
  ASSUME LedgerTypes, OtherTypes, LedgerTypes', OtherTypes', NEW a \in AmmPools,
         (\E prm \in PoolParams : AddPool(a, prm) \/ UpdatePool(a, prm)) \/ RemovePool(a)
  PROVE  ProvidersKept
<1>0. UNCHANGED <<others, params>>
  BY DEF AddPool, UpdatePool, RemovePool, governed, market
<1>1. \A b \in AmmPools : b # a => pools'[b] = pools[b]
  BY DEF AddPool, UpdatePool, RemovePool, LedgerTypes
<1>2. ASSUME NEW b \in AmmPools, b # a PROVE PoolKept(b)
  <2>1. pools[b].leveraged \in Nat /\ others[b] \in Nat
    BY LimitTypes
  <2> QED BY <1>0, <1>1, <1>2, <2>1, ShrinkingKept
<1>3. CASE \E prm \in PoolParams : UpdatePool(a, prm)
  BY <1>2, <1>3 DEF ProvidersKept, PoolKept
<1>4. CASE (\E prm \in PoolParams : AddPool(a, prm)) \/ RemovePool(a)
  <2>1. pools'[a].leveraged = 0
    BY <1>4 DEF AddPool, RemovePool, NoPool, LedgerTypes
  <2> QED BY <1>2, <2>1, EmptyKept DEF ProvidersKept
<1> QED BY <1>3, <1>4

LEMMA ProvidersStep == IInv /\ [Next]_vars => [ProvidersKept]_vars
<1> SUFFICES ASSUME IInv, [Next]_vars PROVE ProvidersKept
  OBVIOUS
<1>0. LedgerTypes /\ OtherTypes /\ LedgerTypes' /\ OtherTypes'
  BY StepIInv DEF IInv, LedgerInv
<1>1. ASSUME NEW u \in Owners, NEW a \in AmmPools, NEW c \in Collaterals, NEW lev \in Leverages,
             NEW s \in StopLossPrices, Open(u, a, c, lev, s)
      PROVE  ProvidersKept
  <2>1. params' = params /\ others' = others
    BY <1>1 DEF Open, governed, market
  <2>2. PICK id : ProcessOpenLong(id, u, a, c, lev, s)
    BY <1>1 DEF Open, OpenConsolidate, OpenLong
  <2> QED BY <1>0, <2>1, <2>2, OpenKept
<1>2. ASSUME NEW u \in Owners, NEW id \in Ids, NEW n \in CloseAmounts, Close(u, id, n)
      PROVE  ProvidersKept
  <2>1. params' = params /\ others' = others
    BY <1>2 DEF Close, governed, market
  <2>2. CASE CloseFully({id})
    BY <1>0, <2>1, <2>2, FullCloseKept
  <2>3. ASSUME NEW total \in TruncatedPart(positions[id].lp, n, positions[id].lp),
               NEW repay, CloseInPart(id, total, repay)
        PROVE  ProvidersKept
    <3>1. /\ IsOpen(id) /\ positions[id].pool \in AmmPools /\ positions[id].lp \in Nat \ {0}
          /\ n \in Nat /\ n <= positions[id].lp
      BY <1>2, AmountsAssumption
      DEF Close, IInv, LedgerInv, LedgerTypes, IdsGivenOnce, PositionsBacked, Position
    <3>2. total \in Nat
      BY <3>1, TruncatedPartBound
    <3> QED BY <1>0, <2>1, <2>3, <3>1, <3>2, PartCloseKept
  <2> QED BY <1>2, <2>2, <2>3 DEF Close
<1>3. ASSUME NEW S, ClosePositions(S) PROVE ProvidersKept
  <2>1. CloseDue(S) /\ params' = params /\ others' = others
    BY <1>3 DEF ClosePositions, governed, market
  <2> QED BY <1>0, <2>1, DueCloseKept
<1>4. ASSUME NEW u \in Owners, NEW id \in Ids, NEW s \in StopLossPrices, UpdateStopLoss(u, id, s)
      PROVE  ProvidersKept
  <2>1. params' = params /\ others' = others
    BY <1>4 DEF UpdateStopLoss, governed, market
  <2>2. CloseFully({id}) \/ pools' = pools
    BY <1>4 DEF UpdateStopLoss
  <2> QED BY <1>0, <2>1, <2>2, FullCloseKept, UnchangedKept
<1>5. ASSUME NEW a \in AmmPools,
             (\E prm \in PoolParams : AddPool(a, prm) \/ UpdatePool(a, prm)) \/ RemovePool(a)
      PROVE  ProvidersKept
  BY <1>0, <1>5, PoolStepKept
<1>6. ASSUME \E prms \in ParamSets, S \in SUBSET AmmPools : UpdateParams(prms, S)
      PROVE  ProvidersKept
  BY <1>6 DEF ProvidersKept, PoolKept
<1>7. ASSUME \/ \E S, T \in SUBSET AmmPools : UpdateEnabledPools(S, T)
             \/ \E u \in Candidates : Whitelist(u) \/ Dewhitelist(u)
             \/ \E id \in Ids : Interest(id)
             \/ \E a \in AmmPools, p \in Prices : SetPrice(a, p)
             \/ UNCHANGED vars
      PROVE  ProvidersKept
  <2>1. UNCHANGED <<pools, others, params>>
    BY <1>7 DEF UpdateEnabledPools, Whitelist, Dewhitelist, Interest, SetPrice, governed, market, vars
  <2> QED BY <1>0, <2>1, UnchangedKept
<1>8. ASSUME NEW a \in AmmPools, NEW n \in OtherShares, Provide(a, n) PROVE ProvidersKept
  BY <1>0, <1>8, ProvideKept
<1>9. ASSUME BeginBlock PROVE ProvidersKept
  <2>1. params' = params /\ others' = others
    BY <1>9 DEF BeginBlock, governed, market
  <2>2. CloseDue(Page) \/ pools' = pools
    BY <1>9 DEF BeginBlock
  <2> QED BY <1>0, <2>1, <2>2, DueCloseKept, UnchangedKept
<1> QED BY <1>1, <1>2, <1>3, <1>4, <1>5, <1>6, <1>7, <1>8, <1>9 DEF Next, BetweenBlocks
-----------------------------------------------------------------------------
(***************************************************************************)
(* Every state has the types of the module: a pool's LP amount, a debt, a  *)
(* position's shares and the position count are decremented by closes but  *)
(* never become negative.                                                  *)
(***************************************************************************)
THEOREM LeverageTypeCorrect == Spec => []TypeOK
<1>1. IInv => TypeOK
  BY TypesSplit DEF IInv, LedgerInv
<1> QED BY <1>1, Invariance, PTL

(***************************************************************************)
(* OpenPositionCount is the number of stored positions and a pool's        *)
(* LeveragedLpAmount the sum of its positions' shares, whatever opens,     *)
(* consolidations, partial and full closes and sweeps came before.         *)
(***************************************************************************)
THEOREM TotalsFollowPositionsHolds == Spec => []TotalsFollowPositions
<1>1. IInv => TotalsFollowPositions
  BY DEF IInv, LedgerInv
<1> QED BY <1>1, Invariance, PTL

(***************************************************************************)
(* RemovePool never removes a pool under a position, and a debt always has *)
(* an open position with shares behind it.                                 *)
(***************************************************************************)
THEOREM PositionsBackedHolds == Spec => []PositionsBacked
<1>1. IInv => PositionsBacked
  BY DEF IInv, LedgerInv
<1> QED BY <1>1, Invariance, PTL

(***************************************************************************)
(* Whatever limits and buffer the messages accept, a pool stays within its *)
(* own MaxLeveragelpRatio and the buffer (CheckMaxLeverageRatio at an      *)
(* opening, CheckAmmPoolBalance at an exit) unless governance lowers one   *)
(* of them; a pool that is then beyond its limit is not brought further    *)
(* beyond it by an opening or by an exit.                                  *)
(***************************************************************************)
THEOREM ProvidersRemainHolds == Spec => ProvidersRemain
<1>1. IInv /\ [Next]_vars =>
        [\A a \in AmmPools :
           \/ WithinLimit(a)'
           \/ \E prm \in PoolParams : UpdatePool(a, prm)
           \/ \E prms \in ParamSets, S \in SUBSET AmmPools : UpdateParams(prms, S)
           \/ /\ ~ WithinLimit(a)
              /\ pools'[a].leveraged <= pools[a].leveraged
              /\ others'[a] >= others[a]]_vars
  BY ProvidersStep DEF ProvidersKept, PoolKept
<1> QED BY <1>1, Invariance, PTL DEF Spec, ProvidersRemain

(***************************************************************************)
(* CloseOnUnableToRepay writes a debt off only of a position that is not   *)
(* worth it: for every price and every rounding of the AMM, the shares     *)
(* that CheckHealthStopLossThenRepayAndClose rounds up pay the debt.       *)
(***************************************************************************)
THEOREM LossOnlyUnderwaterHolds == Spec => LossOnlyUnderwater
<1>1. IInv /\ [Next]_vars =>
        [\A id \in Ids : writtenOff'[id] # writtenOff[id] =>
           ValueOf(positions[id].pool, positions[id].lp) < debt[id] * PriceOne]_vars
  BY LossStep
<1> QED BY <1>1, Invariance, PTL DEF Spec, LossOnlyUnderwater

(***************************************************************************)
(* A healthy position above its stop loss is reduced by its owner's        *)
(* MsgClose only: not by MsgClosePositions, not by the sweep, not by a     *)
(* message about another position.                                         *)
(***************************************************************************)
THEOREM OthersCloseOnlyDueHolds == Spec => OthersCloseOnlyDue
<1>1. IInv /\ [Next]_vars =>
        [\A id \in OpenIds : positions'[id].lp < positions[id].lp =>
           \/ Unhealthy(id) \/ StopLossReached(id)
           \/ \E n \in CloseAmounts : Close(positions[id].owner, id, n)]_vars
  BY ReducedStep
<1> QED BY <1>1, Invariance, PTL DEF Spec, OthersCloseOnlyDue
=============================================================================
