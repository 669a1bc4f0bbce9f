-------------------------- MODULE MasterchefProofs --------------------------
(***************************************************************************)
(* Proofs about x/masterchef for every number of accounts, pools and       *)
(* incentives, all amounts and every precision of the decimals.            *)
(***************************************************************************)
EXTENDS Masterchef, ElysMathTheorems

-----------------------------------------------------------------------------
(***************************************************************************)
(* Arithmetic.                                                             *)
(***************************************************************************)
\* The whole coins of two parts of an amount are no more than the amount.
LEMMA PortionsFit ==
  ASSUME NEW a \in Nat, NEW s \in Nat, NEW t \in Nat, s + t <= PortionDen
  PROVE  /\ Portion(a, s) \in Nat /\ Portion(a, t) \in Nat
         /\ Portion(a, s) + Portion(a, t) <= a
<1> DEFINE D == PortionDen
           x == Portion(a, s)
           y == Portion(a, t)
<1>1. D \in Nat \ {0}
  BY MasterchefAssumption
<1>2. a * s \in Nat /\ a * t \in Nat
  BY ProductNat
<1>3. x \in Nat /\ y \in Nat /\ x * D <= a * s /\ y * D <= a * t
  BY <1>1, <1>2, TruncateNat DEF Portion
<1> HIDE DEF D, x, y
<1>4. (x + y) * D <= a * (s + t)
  BY <1>1, <1>3
<1>5. a * (s + t) <= a * D
  BY <1>1, ProductMonotone DEF D
<1>6. (x + y) * D <= a * D
  <2>1. a * D \in Int /\ a * (s + t) \in Int /\ (x + y) * D \in Int
    BY <1>1, <1>3
  <2> QED BY <1>4, <1>5, <2>1
<1>7. x + y >= a + 1 => (x + y) * D >= (a + 1) * D
  <2> SUFFICES ASSUME x + y >= a + 1 PROVE (x + y) * D >= (a + 1) * D
    OBVIOUS
  <2>1. D * (a + 1) <= D * (x + y)
    BY <1>1, <1>3, ProductMonotone
  <2> QED BY <1>1, <1>3, <2>1
<1>8. (a + 1) * D = a * D + D
  BY <1>1
<1>9. x + y <= a
  <2>1. a * D \in Int /\ (x + y) * D \in Int
    BY <1>1, <1>3
  <2> QED BY <1>1, <1>3, <1>6, <1>7, <1>8, <2>1
<1> QED BY <1>3, <1>9 DEF x, y

\* A quotient of integers is an integer.
LEMMA QuotientInt ==
  ASSUME NEW n \in Int, NEW d \in Nat \ {0}
  PROVE  Quotient(n, d) \in Int
BY DEF Quotient

-----------------------------------------------------------------------------
(***************************************************************************)
(* The quantities of a block are naturals, and a share earns no negative   *)
(* amount.                                                                 *)
(***************************************************************************)
LEMMA PerShareNat ==
  ASSUME TypeOK, NEW p \in Pools, NEW amount \in Nat
  PROVE  PerShare(p, amount) \in Nat
<1>1. TotalCommit(p) \in Nat
  <2>1. shares[p] \in [1 .. NumUsers -> Nat]
    BY DEF TypeOK, Users
  <2> QED BY <2>1, SumBound, MasterchefAssumption DEF TotalCommit
<1>2. amount * OneShare * Prec \in Nat
  BY MasterchefAssumption, ProductNat
<1> QED BY <1>1, <1>2, TruncateNat DEF PerShare

LEMMA TVLs ==
  ASSUME TypeOK, NEW b \in BlockRewards
  PROVE  /\ b \in BlockRewardsType
         /\ TotalTVL(b) \in Nat /\ EdenTVL(b) \in Nat
         /\ \A p \in Pools : p \in LpPools(b) => b.tvl[p] > 0 /\ TotalTVL(b) > 0
         /\ \A p \in Pools : p \in LpPools(b) \cap edenOn => EdenTVL(b) > 0
<1>1. b \in BlockRewardsType /\ NumPools \in Nat
  BY MasterchefAssumption
<1>2. \A p \in Pools : b.tvl[p] \in Nat
  BY <1>1 DEF BlockRewardsType
<1> DEFINE g == [p \in Pools |-> IF p \in LpPools(b) THEN b.tvl[p] ELSE 0]
           h == [p \in Pools |-> IF p \in LpPools(b) \cap edenOn THEN b.tvl[p] ELSE 0]
<1>3. g \in [1 .. NumPools -> Nat] /\ h \in [1 .. NumPools -> Nat]
  BY <1>2 DEF Pools
<1>4. TotalTVL(b) = Sum(g, NumPools) /\ EdenTVL(b) = Sum(h, NumPools)
  BY DEF TotalTVL, EdenTVL
<1>5. \A p \in Pools : p \in LpPools(b) => g[p] = b.tvl[p] /\ b.tvl[p] > 0
  BY DEF LpPools
<1>6. \A p \in Pools : p \in LpPools(b) \cap edenOn => h[p] = b.tvl[p] /\ b.tvl[p] > 0
  BY DEF LpPools
<1> HIDE DEF g, h
<1>7. /\ Sum(g, NumPools) \in Nat /\ \A p \in 1 .. NumPools : g[p] <= Sum(g, NumPools)
  BY <1>1, <1>3, SumBound
<1>8. /\ Sum(h, NumPools) \in Nat /\ \A p \in 1 .. NumPools : h[p] <= Sum(h, NumPools)
  BY <1>1, <1>3, SumBound
<1>9. \A p \in Pools : p \in LpPools(b) => TotalTVL(b) > 0
  BY <1>2, <1>4, <1>5, <1>7 DEF Pools
<1>10. \A p \in Pools : p \in LpPools(b) \cap edenOn => EdenTVL(b) > 0
  BY <1>2, <1>4, <1>6, <1>8 DEF Pools
<1> QED BY <1>1, <1>4, <1>5, <1>7, <1>8, <1>9, <1>10

LEMMA BlockAmounts ==
  ASSUME TypeOK, NEW b \in BlockRewards, NEW p \in Pools
  PROVE  /\ USDCFor(b, p) \in Nat /\ EdenFor(b, p) \in Nat
         /\ RevenueKept(b, p) \in Nat /\ GasCollected(b) \in Nat
<1> USE MasterchefAssumption
<1>1. /\ b.gas \in Nat /\ b.eden \in Nat /\ b.revenue[p] \in Nat /\ b.tvl[p] \in Nat
      /\ TotalTVL(b) \in Nat /\ EdenTVL(b) \in Nat
      /\ p \in LpPools(b) => TotalTVL(b) > 0
      /\ p \in LpPools(b) \cap edenOn => EdenTVL(b) > 0
  BY TVLs DEF BlockRewardsType
<1>2. USDCFor(b, p) \in Nat
  <2> SUFFICES ASSUME p \in LpPools(b) PROVE USDCFor(b, p) \in Nat
    BY DEF USDCFor
  <2> DEFINE own == IF p \in Vaults THEN 0 ELSE b.revenue[p] * LpPortion * TotalTVL(b)
             n == b.gas * LpPortion * b.tvl[p] + own
             d == PortionDen * TotalTVL(b)
  <2>1. own \in Nat
    BY <1>1, ProductNat
  <2>2. b.gas * LpPortion * b.tvl[p] \in Nat
    BY <1>1, ProductNat
  <2>3. d \in Nat \ {0}
    BY <1>1
  <2>4. USDCFor(b, p) = TruncateInt(n, d)
    BY DEF USDCFor
  <2>5. n \in Nat
    BY <2>1, <2>2
  <2> HIDE DEF n, d
  <2> QED BY <2>3, <2>4, <2>5, TruncateNat
<1>3. EdenFor(b, p) \in Nat
  <2>1. b.eden * b.tvl[p] \in Nat /\ MaxEden * b.tvl[p] \in Nat
    BY <1>1, ProductNat
  <2>2. p \in LpPools(b) \cap edenOn => TruncateInt(b.eden * b.tvl[p], EdenTVL(b)) \in Nat
    BY <1>1, <2>1, TruncateNat
  <2> QED BY <2>1, <2>2 DEF EdenFor, MinOf
<1>4. RevenueKept(b, p) \in Nat
  <2> DEFINE T == PortionDen - LpPortion - StakersPortion
  <2>1. T \in Nat /\ StakersPortion + T <= PortionDen
    OBVIOUS
  <2>2. /\ Portion(b.revenue[p], StakersPortion) \in Nat /\ Portion(b.revenue[p], T) \in Nat
        /\ Portion(b.revenue[p], StakersPortion) + Portion(b.revenue[p], T) <= b.revenue[p]
    BY <1>1, <2>1, PortionsFit
  <2>3. RevenueKept(b, p) =
          IF p \in created \ Vaults
          THEN b.revenue[p] - Portion(b.revenue[p], StakersPortion) - Portion(b.revenue[p], T)
          ELSE 0
    BY DEF RevenueKept
  <2> HIDE DEF T
  <2> QED BY <1>1, <2>2, <2>3
<1>5. GasCollected(b) \in Nat
  <2>1. LpPortion + 0 <= PortionDen
    OBVIOUS
  <2> QED BY <1>1, <2>1, PortionsFit DEF GasCollected
<1> QED BY <1>2, <1>3, <1>4, <1>5

LEMMA ExternalNat ==
  ASSUME TypeOK, NEW p \in Pools, NEW d \in Denoms
  PROVE  ExternalPerShare(p, d) \in Nat
<1> DEFINE g == [i \in Incentives |->
             IF Due(i) /\ incentives[i].pool = p /\ incentives[i].denom = d
             THEN PerShare(p, incentives[i].perBlock) ELSE 0]
<1>1. \A i \in Incentives : incentives[i].perBlock \in Nat
  BY DEF TypeOK
<1>2. \A i \in Incentives : PerShare(p, incentives[i].perBlock) \in Nat
  BY <1>1, PerShareNat
<1>3. g \in [1 .. MaxIncentives -> Nat]
  BY <1>2 DEF Incentives
<1>4. ExternalPerShare(p, d) = Sum(g, MaxIncentives)
  BY DEF ExternalPerShare
<1> HIDE DEF g
<1> QED BY <1>3, <1>4, SumBound, MasterchefAssumption

LEMMA NewPerShareNat ==
  ASSUME TypeOK, NEW b \in BlockRewards, NEW p \in Pools, NEW d \in Denoms
  PROVE  NewPerShare(b, p, d) \in Nat
<1>1. PerShare(p, PoolReward(b, p, d)) \in Nat
  <2>1. PoolReward(b, p, d) \in Nat
    BY BlockAmounts DEF PoolReward
  <2> QED BY <2>1, PerShareNat
<1> QED BY <1>1, ExternalNat DEF NewPerShare

-----------------------------------------------------------------------------
(***************************************************************************)
(* The ledger of an account.                                               *)
(***************************************************************************)
LEMMA LedgerInts ==
  ASSUME TypeOK, NEW p \in Pools, NEW u \in Users, NEW d \in Denoms, NEW change \in Int
  PROVE  /\ Earned(p, u, d, change) \in Int
         /\ Quotient(Earned(p, u, d, change), OneShare) \in Int
         /\ Claimable(p, u, d) \in Nat /\ PendingAfterClaim(p, u, d) \in Int
<1>1. /\ pending[p][u][d] \in Int /\ debt[p][u][d] \in Nat /\ acc[p][d] \in Nat
      /\ shares[p][u] \in Nat /\ OneShare \in Nat \ {0} /\ Prec \in Nat \ {0}
  BY MasterchefAssumption DEF TypeOK, LedgerType
<1>2. \A c \in Int : Earned(p, u, d, c) \in Int
  BY <1>1 DEF Earned, BalanceBefore
<1>3. \A c \in Int : Quotient(Earned(p, u, d, c), OneShare) \in Int
  BY <1>1, <1>2, QuotientInt
<1>4. Claimable(p, u, d) \in Nat
  <2> DEFINE q == Quotient(Earned(p, u, d, 0), OneShare)
  <2>1. q \in Int
    BY <1>3
  <2>2. Claimable(p, u, d) = IF d \in RewardDenoms(p) /\ q > 0 THEN TruncateInt(q, Prec) ELSE 0
    BY DEF Claimable, TruncateInt
  <2> HIDE DEF q
  <2>3. q > 0 => TruncateInt(q, Prec) \in Nat
    BY <1>1, <2>1, TruncateNat
  <2> QED BY <2>2, <2>3
<1>5. PendingAfterClaim(p, u, d) \in Int
  BY <1>3 DEF PendingAfterClaim
<1> QED BY <1>2, <1>3, <1>4, <1>5

\* What an account's earnings are made of, of one pool and denom.
Balance(p, u, d) ==
    OneShare * (Prec * paid[p][u][d] + pending[p][u][d]) + dust[p][u][d]
    + acc[p][d] * shares[p][u] - debt[p][u][d]

(***************************************************************************)
(* A deposit or a withdrawal settles what the old shares earned and starts *)
(* the new ones from the present: the balance stays.  Where the pool does  *)
(* not reward the denom now, nothing was earned unless the ledger is one   *)
(* that missed a change before.                                            *)
(***************************************************************************)
LEMMA SettleStep ==
  ASSUME TypeOK, RewardsExact, NEW p \in Pools, NEW u \in Users, NEW change \in Int,
         shares[p][u] + change \in Nat, Settle(p, u, change),
         shares' = [shares EXCEPT ![p][u] = shares[p][u] + change],
         UNCHANGED <<acc, paid, granted>>
  PROVE  /\ shares' \in [Pools -> [Users -> Nat]]
         /\ debt' \in LedgerType(Nat) /\ pending' \in LedgerType(Int)
         /\ dust' \in LedgerType(Int) /\ stale' \in [Pools -> SUBSET Denoms]
         /\ RewardsExact'
<1> DEFINE balance == shares[p][u] + change
           Due0(d) == d \in RewardDenoms(p)
           Q(d) == Quotient(Earned(p, u, d, change), OneShare)
<1>1. /\ shares \in [Pools -> [Users -> Nat]] /\ acc \in [Pools -> [Denoms -> Nat]]
      /\ debt \in [Pools -> [Users -> [Denoms -> Nat]]]
      /\ pending \in [Pools -> [Users -> [Denoms -> Int]]]
      /\ dust \in [Pools -> [Users -> [Denoms -> Int]]]
      /\ stale \in [Pools -> SUBSET Denoms] /\ balance \in Nat
      /\ OneShare \in Nat \ {0} /\ Prec \in Nat \ {0}
  BY MasterchefAssumption DEF TypeOK, LedgerType
<1>2. \A d \in Denoms : /\ Earned(p, u, d, change) \in Int /\ Q(d) \in Int
                        /\ DebtAt(p, u, d, balance) \in Nat
  <2>1. TAKE d \in Denoms
  <2>2. acc[p][d] \in Nat
    BY <1>1
  <2>3. acc[p][d] * balance \in Nat
    BY <1>1, <2>2, ProductNat
  <2> QED BY <2>3, LedgerInts DEF DebtAt
<1> DEFINE newPending == [d \in Denoms |-> IF Due0(d) THEN Q(d) ELSE pending[p][u][d]]
           newDebt == [d \in Denoms |-> IF Due0(d) THEN DebtAt(p, u, d, balance)
                                                   ELSE debt[p][u][d]]
           newDust == [d \in Denoms |->
                         IF Due0(d) THEN dust[p][u][d] + Earned(p, u, d, change)
                                         - OneShare * Q(d)
                                    ELSE dust[p][u][d]]
<1>3. /\ newPending \in [Denoms -> Int] /\ newDebt \in [Denoms -> Nat]
      /\ newDust \in [Denoms -> Int]
  <2>1. \A d \in Denoms : OneShare * Q(d) \in Int
    BY <1>1, <1>2
  <2>2. newDust \in [Denoms -> Int]
    BY <1>1, <1>2, <2>1
  <2>3. newPending \in [Denoms -> Int] /\ newDebt \in [Denoms -> Nat]
    BY <1>1, <1>2
  <2> QED BY <2>2, <2>3
<1>4. /\ pending' = [pending EXCEPT ![p][u] = newPending]
      /\ debt' = [debt EXCEPT ![p][u] = newDebt]
      /\ dust' = [dust EXCEPT ![p][u] = newDust]
      /\ stale' = [stale EXCEPT ![p] =
            @ \cup {d \in Denoms \ RewardDenoms(p) : acc[p][d] # 0}]
  BY DEF Settle
<1>5. \A d \in Denoms \ stale'[p] :
        OneShare * (Prec * paid[p][u][d] + newPending[d]) + newDust[d]
        + acc[p][d] * balance - newDebt[d] = granted[p][u][d]
  <2> TAKE d \in Denoms \ stale'[p]
  <2>1. d \notin stale[p] /\ (Due0(d) \/ acc[p][d] = 0)
    BY <1>1, <1>4
  <2>2. Balance(p, u, d) = granted[p][u][d]
    BY <2>1 DEF RewardsExact, Balance
  <2>3. /\ paid[p][u][d] \in Nat /\ pending[p][u][d] \in Int /\ debt[p][u][d] \in Nat
        /\ dust[p][u][d] \in Int /\ acc[p][d] \in Nat /\ shares[p][u] \in Nat
        /\ granted[p][u][d] \in Nat
    BY <1>1 DEF TypeOK, LedgerType
  <2>4. CASE Due0(d)
    <3>1. /\ newPending[d] = Q(d) /\ newDebt[d] = acc[p][d] * balance
          /\ newDust[d] = dust[p][u][d] + Earned(p, u, d, change) - OneShare * Q(d)
      BY <2>4 DEF DebtAt
    <3>2. Earned(p, u, d, change) = OneShare * pending[p][u][d]
                                    + acc[p][d] * shares[p][u] - debt[p][u][d]
      BY DEF Earned, BalanceBefore
    <3>3. Q(d) \in Int
      BY <1>2
    <3> HIDE DEF newPending, newDebt, newDust, Q, balance
    <3>4. OneShare * (Prec * paid[p][u][d] + newPending[d])
            = OneShare * (Prec * paid[p][u][d]) + OneShare * Q(d)
      BY <1>1, <2>3, <3>1, <3>3
    <3>5. OneShare * (Prec * paid[p][u][d] + pending[p][u][d])
            = OneShare * (Prec * paid[p][u][d]) + OneShare * pending[p][u][d]
      BY <1>1, <2>3
    <3>6. /\ OneShare * (Prec * paid[p][u][d]) \in Int /\ OneShare * Q(d) \in Int
          /\ OneShare * pending[p][u][d] \in Int /\ acc[p][d] * shares[p][u] \in Int
          /\ acc[p][d] * balance \in Int
      BY <1>1, <2>3, <3>3
    <3> QED BY <2>2, <2>3, <3>1, <3>2, <3>4, <3>5, <3>6 DEF Balance
  <2>5. CASE ~ Due0(d)
    <3>1. acc[p][d] = 0
      BY <2>1, <2>5
    <3>2. acc[p][d] * balance = 0 /\ acc[p][d] * shares[p][u] = 0
      BY <1>1, <2>3, <3>1
    <3>3. newPending[d] = pending[p][u][d] /\ newDebt[d] = debt[p][u][d]
          /\ newDust[d] = dust[p][u][d]
      BY <2>5
    <3> HIDE DEF newPending, newDebt, newDust, balance
    <3> QED BY <2>2, <3>2, <3>3 DEF Balance
  <2> QED BY <2>4, <2>5
<1> HIDE DEF newPending, newDebt, newDust, Q, Due0
<1>6. /\ pending'[p][u] = newPending /\ debt'[p][u] = newDebt /\ dust'[p][u] = newDust
      /\ shares'[p][u] = balance
      /\ \A q \in Pools, v \in Users : (q # p \/ v # u) =>
            /\ pending'[q][v] = pending[q][v] /\ debt'[q][v] = debt[q][v]
            /\ dust'[q][v] = dust[q][v] /\ shares'[q][v] = shares[q][v]
  BY <1>1, <1>4
<1>7. \A q \in Pools : stale[q] \subseteq stale'[q]
  BY <1>1, <1>4
<1>8. RewardsExact'
  <2> SUFFICES ASSUME NEW q \in Pools, NEW v \in Users, NEW d \in Denoms \ stale'[q]
               PROVE  OneShare * (Prec * paid[q][v][d] + pending'[q][v][d]) + dust'[q][v][d]
                      + acc[q][d] * shares'[q][v] - debt'[q][v][d] = granted[q][v][d]
    BY DEF RewardsExact
  <2>1. CASE q = p /\ v = u
    BY <1>5, <1>6, <2>1
  <2>2. CASE q # p \/ v # u
    BY <1>6, <1>7, <2>2 DEF RewardsExact
  <2> QED BY <2>1, <2>2
<1>9. /\ debt' \in LedgerType(Nat) /\ pending' \in LedgerType(Int) /\ dust' \in LedgerType(Int)
  BY <1>1, <1>3, <1>4 DEF LedgerType
<1>10. shares' \in [Pools -> [Users -> Nat]] /\ stale' \in [Pools -> SUBSET Denoms]
  BY <1>1, <1>4
<1> QED BY <1>8, <1>9, <1>10

(***************************************************************************)
(* The incentives' schedule, for the induction: indices are used in order, *)
(* those not used yet are blank, and the pool of one added on time stays.  *)
(***************************************************************************)
Scheduled ==
    \A i \in Incentives :
        /\ i > lastIndex => i \notin live /\ slots[i] = 0 /\ incentives[i].onTime = "no"
        /\ i \in live => /\ incentives[i].denom \in ExternalDenoms
                         /\ incentives[i].from < incentives[i].to
        /\ incentives[i].onTime = "yes" =>
              incentives[i].pool \in created /\ incentives[i].from < incentives[i].to

IInv == TypeOK /\ RewardsExact /\ Scheduled /\ IncentivesRunInFull

LEMMA InitIInv == Init => IInv
<1> SUFFICES ASSUME Init PROVE IInv
  OBVIOUS
<1> USE MasterchefAssumption
<1>1. TypeOK
  <2>1. 1 \in Pools
    BY DEF Pools
  <2>2. NoIncentive \in [pool : Pools, denom : ExternalDenoms \cup {"none"}, from : Nat,
                         to : Nat, perBlock : Nat, onTime : {"yes", "no"}]
    BY <2>1 DEF NoIncentive
  <2>3. ZeroLedger \in LedgerType(Nat) /\ ZeroLedger \in LedgerType(Int)
    BY DEF ZeroLedger, LedgerType
  <2> QED BY <2>2, <2>3 DEF Init, TypeOK
<1>2. RewardsExact
  <2> SUFFICES ASSUME NEW p \in Pools, NEW u \in Users, NEW d \in Denoms
               PROVE  OneShare * (Prec * paid[p][u][d] + pending[p][u][d]) + dust[p][u][d]
                      + acc[p][d] * shares[p][u] - debt[p][u][d] = granted[p][u][d]
    BY DEF RewardsExact
  <2>1. /\ paid[p][u][d] = 0 /\ pending[p][u][d] = 0 /\ dust[p][u][d] = 0 /\ acc[p][d] = 0
        /\ shares[p][u] = 0 /\ debt[p][u][d] = 0 /\ granted[p][u][d] = 0
    BY DEF Init, ZeroLedger
  <2>2. Prec * 0 = 0 /\ OneShare * 0 = 0 /\ 0 * 0 = 0
    OBVIOUS
  <2> QED BY <2>1, <2>2
<1>3. Scheduled /\ IncentivesRunInFull
  BY DEF Init, Scheduled, IncentivesRunInFull, NoIncentive
<1> QED BY <1>1, <1>2, <1>3 DEF IInv

(***************************************************************************)
(* The parts of the invariant that speak of incentives only.               *)
(***************************************************************************)
LEMMA IncentivesUntouched ==
  ASSUME Scheduled, IncentivesRunInFull, created \subseteq created',
         UNCHANGED <<height, incentives, live, lastIndex, slots>>
  PROVE  Scheduled' /\ IncentivesRunInFull'
BY DEF Scheduled, IncentivesRunInFull, MaxOf

LEMMA DepositStep ==
  ASSUME IInv, NEW u \in Users, NEW p \in Pools, NEW amount \in ShareAmounts,
         Deposit(u, p, amount)
  PROVE  IInv'
<1>1. amount \in Int /\ shares[p][u] + amount \in Nat
  BY MasterchefAssumption DEF IInv, TypeOK
<1>2. /\ shares' \in [Pools -> [Users -> Nat]] /\ debt' \in LedgerType(Nat)
      /\ pending' \in LedgerType(Int) /\ dust' \in LedgerType(Int)
      /\ stale' \in [Pools -> SUBSET Denoms] /\ RewardsExact'
  <2>1. Settle(p, u, amount) /\ UNCHANGED <<acc, paid, granted>>
        /\ shares' = [shares EXCEPT ![p][u] = shares[p][u] + amount]
    BY DEF Deposit
  <2> QED BY <1>1, <2>1, SettleStep DEF IInv
<1>3. TypeOK'
  <2>1. moves' \in Nat
    BY DEF Deposit, IInv, TypeOK
  <2> QED BY <1>2, <2>1 DEF Deposit, poolState, program, IInv, TypeOK
<1>4. Scheduled' /\ IncentivesRunInFull'
  BY IncentivesUntouched DEF Deposit, poolState, program, IInv
<1> QED BY <1>2, <1>3, <1>4 DEF IInv

LEMMA WithdrawStep ==
  ASSUME IInv, NEW u \in Users, NEW p \in Pools, NEW amount \in ShareAmounts,
         Withdraw(u, p, amount)
  PROVE  IInv'
<1>1. /\ - amount \in Int /\ shares[p][u] + (- amount) \in Nat
      /\ shares[p][u] - amount = shares[p][u] + (- amount)
  BY MasterchefAssumption DEF IInv, TypeOK, Withdraw, CanDeduct
<1>2. /\ shares' \in [Pools -> [Users -> Nat]] /\ debt' \in LedgerType(Nat)
      /\ pending' \in LedgerType(Int) /\ dust' \in LedgerType(Int)
      /\ stale' \in [Pools -> SUBSET Denoms] /\ RewardsExact'
  <2>1. Settle(p, u, - amount) /\ UNCHANGED <<acc, paid, granted>>
        /\ shares' = [shares EXCEPT ![p][u] = shares[p][u] + (- amount)]
    BY <1>1 DEF Withdraw
  <2> QED BY <1>1, <2>1, SettleStep DEF IInv
<1>3. TypeOK'
  <2>1. moves' \in Nat
    BY DEF Withdraw, IInv, TypeOK
  <2> QED BY <1>2, <2>1 DEF Withdraw, poolState, program, IInv, TypeOK
<1>4. Scheduled' /\ IncentivesRunInFull'
  BY IncentivesUntouched DEF Withdraw, poolState, program, IInv
<1> QED BY <1>2, <1>3, <1>4 DEF IInv

(***************************************************************************)
(* A claim turns what was pending into coins and a fraction that is lost.  *)
(***************************************************************************)
LEMMA ClaimStep ==
  ASSUME IInv, NEW u \in Users, NEW P \in SUBSET Pools, ClaimRewards(u, P)
  PROVE  IInv'
<1> USE DEF IInv
<1>1. /\ shares \in [Pools -> [Users -> Nat]] /\ acc \in [Pools -> [Denoms -> Nat]]
      /\ debt \in [Pools -> [Users -> [Denoms -> Nat]]]
      /\ pending \in [Pools -> [Users -> [Denoms -> Int]]]
      /\ paid \in [Pools -> [Users -> [Denoms -> Nat]]]
      /\ dust \in [Pools -> [Users -> [Denoms -> Int]]]
      /\ granted \in [Pools -> [Users -> [Denoms -> Nat]]]
      /\ OneShare \in Nat \ {0} /\ Prec \in Nat \ {0}
  BY MasterchefAssumption DEF TypeOK, LedgerType
<1> DEFINE C(p, d) == Claimable(p, u, d)
           A(p, d) == PendingAfterClaim(p, u, d)
           Paying(p, d) == p \in P /\ d \in RewardDenoms(p)
           E(p, d) == Earned(p, u, d, 0)
<1>2. \A p \in Pools, d \in Denoms :
        /\ C(p, d) \in Nat /\ A(p, d) \in Int /\ E(p, d) \in Int
        /\ DebtAt(p, u, d, shares[p][u]) \in Nat
        /\ OneShare * (Prec * C(p, d) + A(p, d)) \in Int
        /\ d \notin RewardDenoms(p) => C(p, d) = 0
  <2>1. TAKE p \in Pools, d \in Denoms
  <2>2. C(p, d) \in Nat /\ A(p, d) \in Int /\ E(p, d) \in Int
    BY LedgerInts
  <2>3. DebtAt(p, u, d, shares[p][u]) \in Nat
    BY <1>1, ProductNat DEF DebtAt
  <2>4. d \notin RewardDenoms(p) => C(p, d) = 0
    BY DEF Claimable
  <2>5. OneShare * (Prec * C(p, d) + A(p, d)) \in Int
    BY <1>1, <2>2
  <2> QED BY <2>2, <2>3, <2>4, <2>5
<1>3. /\ pending' = [p \in Pools |-> [pending[p] EXCEPT ![u] = [d \in Denoms |->
            IF Paying(p, d) THEN A(p, d) ELSE pending[p][u][d]]]]
      /\ debt' = [p \in Pools |-> [debt[p] EXCEPT ![u] = [d \in Denoms |->
            IF Paying(p, d) THEN DebtAt(p, u, d, shares[p][u]) ELSE debt[p][u][d]]]]
      /\ paid' = [p \in Pools |-> [paid[p] EXCEPT ![u] = [d \in Denoms |->
            paid[p][u][d] + (IF p \in P THEN C(p, d) ELSE 0)]]]
      /\ dust' = [p \in Pools |-> [dust[p] EXCEPT ![u] = [d \in Denoms |->
            IF Paying(p, d)
            THEN dust[p][u][d] + E(p, d) - OneShare * (Prec * C(p, d) + A(p, d))
            ELSE dust[p][u][d]]]]
  BY DEF ClaimRewards
<1>4. \A d \in Denoms : ClaimedCoins(u, P, d) \in Nat
  <2>1. TAKE d \in Denoms
  <2> DEFINE g == [p \in Pools |-> IF p \in P THEN C(p, d) ELSE 0]
  <2>2. g \in [1 .. NumPools -> Nat]
    BY <1>2 DEF Pools
  <2>3. ClaimedCoins(u, P, d) = Sum(g, NumPools)
    BY DEF ClaimedCoins
  <2> HIDE DEF g
  <2> QED BY <2>2, <2>3, SumBound, MasterchefAssumption
<1> HIDE DEF C, A, E
<1>5. TypeOK'
  <2>1. bank' \in [Denoms -> Nat]
    BY <1>4 DEF ClaimRewards, TypeOK
  <2>2. pending' \in LedgerType(Int)
    BY <1>1, <1>2, <1>3 DEF LedgerType
  <2>3. debt' \in LedgerType(Nat)
    BY <1>1, <1>2, <1>3 DEF LedgerType
  <2>4. paid' \in LedgerType(Nat)
    BY <1>1, <1>2, <1>3 DEF LedgerType
  <2>5. dust' \in LedgerType(Int)
    BY <1>1, <1>2, <1>3 DEF LedgerType
  <2>6. moves' \in Nat
    BY DEF ClaimRewards, TypeOK
  <2> QED BY <2>1, <2>2, <2>3, <2>4, <2>5, <2>6 DEF ClaimRewards, poolState, program, TypeOK
<1>6. RewardsExact'
  <2>1. UNCHANGED <<acc, shares, granted, stale>>
    BY DEF ClaimRewards
  <2> SUFFICES ASSUME NEW p \in Pools, NEW v \in Users, NEW d \in Denoms \ stale[p]
               PROVE  OneShare * (Prec * paid'[p][v][d] + pending'[p][v][d]) + dust'[p][v][d]
                      + acc[p][d] * shares[p][v] - debt'[p][v][d] = granted[p][v][d]
    BY <2>1 DEF RewardsExact
  <2>2. OneShare * (Prec * paid[p][v][d] + pending[p][v][d]) + dust[p][v][d]
        + acc[p][d] * shares[p][v] - debt[p][v][d] = granted[p][v][d]
    BY DEF RewardsExact
  <2>3. CASE v # u
    <3>1. /\ paid'[p][v] = paid[p][v] /\ pending'[p][v] = pending[p][v]
          /\ dust'[p][v] = dust[p][v] /\ debt'[p][v] = debt[p][v]
      BY <1>1, <1>3, <2>3
    <3> QED BY <2>2, <3>1
  <2>4. CASE v = u /\ ~ Paying(p, d)
    <3>1. p \in P => C(p, d) = 0
      BY <1>2, <2>4
    <3>2. /\ pending'[p][u][d] = pending[p][u][d] /\ debt'[p][u][d] = debt[p][u][d]
          /\ dust'[p][u][d] = dust[p][u][d]
          /\ paid'[p][u][d] = paid[p][u][d] + (IF p \in P THEN C(p, d) ELSE 0)
      BY <1>1, <1>3, <2>4
    <3>3. paid'[p][u][d] = paid[p][u][d]
      BY <1>1, <3>1, <3>2
    <3> QED BY <2>2, <2>4, <3>2, <3>3
  <2>5. CASE v = u /\ Paying(p, d)
    <3>1. /\ pending'[p][u][d] = A(p, d) /\ debt'[p][u][d] = acc[p][d] * shares[p][u]
          /\ dust'[p][u][d] = dust[p][u][d] + E(p, d) - OneShare * (Prec * C(p, d) + A(p, d))
          /\ paid'[p][u][d] = paid[p][u][d] + C(p, d)
      BY <1>1, <1>3, <2>5 DEF DebtAt
    <3>2. E(p, d) = OneShare * pending[p][u][d] + acc[p][d] * shares[p][u] - debt[p][u][d]
      BY DEF E, Earned, BalanceBefore
    <3> DEFINE a == A(p, d)
               c == C(p, d)
               x == paid[p][u][d]
               y == pending[p][u][d]
    <3>3. /\ a \in Int /\ c \in Nat /\ x \in Nat /\ y \in Int /\ E(p, d) \in Int
          /\ dust[p][u][d] \in Int /\ debt[p][u][d] \in Nat /\ granted[p][u][d] \in Nat
          /\ acc[p][d] * shares[p][u] \in Int
      BY <1>1, <1>2
    <3> HIDE DEF a, c, x, y
    <3>4. Prec * (x + c) = Prec * x + Prec * c
      BY <1>1, <3>3
    <3>5. /\ OneShare * (Prec * (x + c) + a) = OneShare * (Prec * x) + OneShare * (Prec * c + a)
          /\ OneShare * (Prec * x + y) = OneShare * (Prec * x) + OneShare * y
      BY <1>1, <3>3, <3>4
    <3>6. /\ OneShare * (Prec * x) \in Int /\ OneShare * (Prec * c + a) \in Int
          /\ OneShare * y \in Int
      BY <1>1, <3>3
    <3>7. OneShare * (Prec * x + y) + dust[p][u][d]
          + acc[p][d] * shares[p][u] - debt[p][u][d] = granted[p][u][d]
      BY <2>2, <2>5 DEF x, y
    <3>8. E(p, d) = OneShare * y + acc[p][d] * shares[p][u] - debt[p][u][d]
      BY <3>2 DEF y
    <3>9. OneShare * (Prec * (x + c) + a)
          + (dust[p][u][d] + E(p, d) - OneShare * (Prec * c + a))
          + acc[p][d] * shares[p][u] - acc[p][d] * shares[p][u] = granted[p][u][d]
      BY <3>3, <3>5, <3>6, <3>7, <3>8
    <3> QED BY <2>5, <3>1, <3>9 DEF a, c, x, y
  <2> QED BY <2>3, <2>4, <2>5
<1>7. Scheduled' /\ IncentivesRunInFull'
  BY IncentivesUntouched DEF ClaimRewards, poolState, program
<1> QED BY <1>5, <1>6, <1>7

(***************************************************************************)
(* Pools and governance touch no ledger.                                   *)
(***************************************************************************)
LEMMA GovernanceStep ==
  ASSUME IInv,
         \/ \E p \in Pools : CreatePool(p)
         \/ \E p \in Pools, enable \in BOOLEAN : TogglePoolEdenRewards(p, enable)
         \/ \E d \in ExternalDenoms, isSupported \in BOOLEAN :
               AddExternalRewardDenom(d, isSupported)
  PROVE  IInv'
<1> USE DEF IInv, poolState, ledger, program, history, counts
<1>1. ASSUME NEW p \in Pools, CreatePool(p) PROVE IInv'
  <2>1. TypeOK'
    BY <1>1 DEF CreatePool, TypeOK
  <2>2. RewardsExact'
    BY <1>1 DEF CreatePool, RewardsExact
  <2>3. Scheduled' /\ IncentivesRunInFull'
    BY <1>1, IncentivesUntouched DEF CreatePool
  <2> QED BY <2>1, <2>2, <2>3
<1>2. ASSUME NEW p \in Pools, NEW enable \in BOOLEAN, TogglePoolEdenRewards(p, enable)
      PROVE  IInv'
  <2>1. TypeOK'
    BY <1>2 DEF TogglePoolEdenRewards, TypeOK
  <2>2. RewardsExact'
    BY <1>2 DEF TogglePoolEdenRewards, RewardsExact
  <2>3. Scheduled' /\ IncentivesRunInFull'
    BY <1>2, IncentivesUntouched DEF TogglePoolEdenRewards
  <2> QED BY <2>1, <2>2, <2>3
<1>3. ASSUME NEW d \in ExternalDenoms, NEW isSupported \in BOOLEAN,
             AddExternalRewardDenom(d, isSupported)
      PROVE  IInv'
  <2>1. TypeOK'
    BY <1>3 DEF AddExternalRewardDenom, TypeOK
  <2>2. RewardsExact'
    BY <1>3 DEF AddExternalRewardDenom, RewardsExact
  <2>3. Scheduled' /\ IncentivesRunInFull'
    BY <1>3, IncentivesUntouched DEF AddExternalRewardDenom
  <2> QED BY <2>1, <2>2, <2>3
<1> QED BY <1>1, <1>2, <1>3

(***************************************************************************)
(* A new incentive takes a blank index, and starts no earlier than now.    *)
(***************************************************************************)
LEMMA IncentiveStep ==
  ASSUME IInv, NEW p \in Pools, NEW d \in ExternalDenoms,
         NEW from \in 1 .. MaxHeight, NEW to \in 1 .. MaxHeight,
         NEW perBlock \in IncentiveAmounts, AddExternalIncentive(p, d, from, to, perBlock)
  PROVE  IInv'
<1> USE MasterchefAssumption DEF IInv, poolState, ledger, program, history, counts
<1> DEFINE n == lastIndex + 1
           new == [pool |-> p, denom |-> d, from |-> from, to |-> to, perBlock |-> perBlock,
                   onTime |-> IF p \in created THEN "yes" ELSE "no"]
<1>1. /\ from \in Nat /\ to \in Nat /\ perBlock \in Nat /\ from < to /\ from >= height
      /\ lastIndex \in Nat /\ n \in Incentives /\ height \in Nat
  BY DEF AddExternalIncentive, TypeOK, Incentives
<1>2. /\ lastIndex' = n /\ live' = live \cup {n} /\ slots' = slots /\ height' = height
      /\ created' = created /\ incentives' = [incentives EXCEPT ![n] = new]
      /\ bank' = [bank EXCEPT ![d] = bank[d] + perBlock * BlocksFunded(from, to)]
  BY DEF AddExternalIncentive
<1>3. incentives'[n] = new /\ \A i \in Incentives : i # n => incentives'[i] = incentives[i]
  BY <1>1, <1>2 DEF TypeOK
<1>4. TypeOK'
  <2>1. d \in Denoms /\ perBlock * BlocksFunded(from, to) \in Nat
    <3>1. BlocksFunded(from, to) \in Nat
      BY <1>1 DEF BlocksFunded
    <3> QED BY <1>1, <3>1, ProductNat DEF Denoms
  <2>2. bank' \in [Denoms -> Nat]
    <3> DEFINE x == perBlock * BlocksFunded(from, to)
    <3>1. x \in Nat /\ bank' = [bank EXCEPT ![d] = bank[d] + x]
      BY <1>2, <2>1
    <3> HIDE DEF x
    <3> QED BY <2>1, <3>1 DEF TypeOK
  <2>3. new \in [pool : Pools, denom : ExternalDenoms \cup {"none"}, from : Nat, to : Nat,
                 perBlock : Nat, onTime : {"yes", "no"}]
    BY <1>1
  <2> HIDE DEF new
  <2>4. incentives' \in [Incentives -> [pool : Pools, denom : ExternalDenoms \cup {"none"},
                 from : Nat, to : Nat, perBlock : Nat, onTime : {"yes", "no"}]]
    BY <1>1, <1>2, <2>3 DEF TypeOK
  <2>5. live' \subseteq Incentives /\ lastIndex' \in 0 .. MaxIncentives
    BY <1>1, <1>2 DEF TypeOK, Incentives
  <2> QED BY <2>2, <2>4, <2>5 DEF AddExternalIncentive, TypeOK
<1>5. RewardsExact'
  BY DEF AddExternalIncentive, RewardsExact
<1>6. Scheduled'
  <2> SUFFICES ASSUME NEW i \in Incentives
               PROVE  /\ i > n => i \notin live' /\ slots[i] = 0 /\ incentives'[i].onTime = "no"
                      /\ i \in live' => /\ incentives'[i].denom \in ExternalDenoms
                                        /\ incentives'[i].from < incentives'[i].to
                      /\ incentives'[i].onTime = "yes" =>
                           incentives'[i].pool \in created /\ incentives'[i].from < incentives'[i].to
    BY <1>2 DEF Scheduled
  <2>1. CASE i = n
    BY <1>1, <1>3, <2>1
  <2>2. CASE i # n
    BY <1>1, <1>2, <1>3, <2>2 DEF Scheduled, Incentives
  <2> QED BY <2>1, <2>2
<1>7. IncentivesRunInFull'
  <2> SUFFICES ASSUME NEW i \in Incentives, incentives'[i].onTime = "yes"
               PROVE  IF i \in live'
                      THEN /\ height <= incentives'[i].to
                           /\ slots[i] = MaxOf(0, height - 1 - incentives'[i].from)
                      ELSE slots[i] = incentives'[i].to - incentives'[i].from
    BY <1>2 DEF IncentivesRunInFull
  <2>1. CASE i = n
    <3>1. i \in live' /\ incentives'[i].from = from /\ incentives'[i].to = to
      BY <1>2, <1>3, <2>1
    <3>2. slots[i] = 0
      BY <1>1, <2>1 DEF Scheduled
    <3> QED BY <1>1, <3>1, <3>2 DEF MaxOf
  <2>2. CASE i # n
    BY <1>2, <1>3, <2>2 DEF IncentivesRunInFull
  <2> QED BY <2>1, <2>2
<1> QED BY <1>4, <1>5, <1>6, <1>7

(***************************************************************************)
(* A block adds to the earnings of the shares there are, and pays every    *)
(* incentive whose range it is in.                                         *)
(***************************************************************************)
LEMMA EndBlockStep ==
  ASSUME IInv, NEW b \in BlockRewards, EndBlocker(b)
  PROVE  IInv'
<1> USE DEF IInv
<1>1. /\ height' = height + 1
      /\ acc' = [p \in Pools |-> [d \in Denoms |-> acc[p][d] + NewPerShare(b, p, d)]]
      /\ granted' = [p \in Pools |-> [u \in Users |-> [d \in Denoms |->
            granted[p][u][d] + NewPerShare(b, p, d) * shares[p][u]]]]
      /\ live' = {i \in live : ~ Ended(i)}
      /\ slots' = [i \in Incentives |-> slots[i] + (IF Due(i) THEN 1 ELSE 0)]
      /\ UNCHANGED <<created, edenOn, shares, debt, pending, supported, incentives, lastIndex,
                     paid, dust, stale, counts>>
  BY DEF EndBlocker
<1>2. /\ \A p \in Pools, d \in Denoms : NewPerShare(b, p, d) \in Nat
      /\ \A p \in Pools, u \in Users, d \in Denoms : NewPerShare(b, p, d) * shares[p][u] \in Nat
  <2>1. \A p \in Pools, u \in Users : shares[p][u] \in Nat
    BY DEF TypeOK
  <2> QED BY <2>1, NewPerShareNat, ProductNat
<1>3. TypeOK'
  <2>1. acc' \in [Pools -> [Denoms -> Nat]]
    BY <1>1, <1>2 DEF TypeOK
  <2>2. granted' \in LedgerType(Nat)
    BY <1>1, <1>2 DEF TypeOK, LedgerType
  <2>3. bank' \in [Denoms -> Nat]
    <3> DEFINE r == [p \in Pools |-> RevenueKept(b, p)]
               e == [p \in Pools |-> EdenFor(b, p)]
    <3>1. r \in [1 .. NumPools -> Nat] /\ e \in [1 .. NumPools -> Nat]
      BY BlockAmounts DEF Pools
    <3>2. USDCCollected(b) = GasCollected(b) + Sum(r, NumPools)
      BY DEF USDCCollected
    <3>3. bank' = [bank EXCEPT !["USDC"] = bank["USDC"] + USDCCollected(b),
                               !["Eden"] = bank["Eden"] + Sum(e, NumPools)]
      BY DEF EndBlocker
    <3> HIDE DEF r, e
    <3>4. Sum(r, NumPools) \in Nat /\ Sum(e, NumPools) \in Nat
      BY <3>1, SumBound, MasterchefAssumption
    <3>5. GasCollected(b) \in Nat
      <4>1. UsdcVault \in Pools
        BY MasterchefAssumption
      <4> QED BY <4>1, BlockAmounts
    <3>6. USDCCollected(b) \in Nat
      BY <3>2, <3>4, <3>5
    <3>7. /\ bank \in [Denoms -> Nat] /\ "USDC" \in Denoms /\ "Eden" \in Denoms
          /\ bank["USDC"] + USDCCollected(b) \in Nat /\ bank["Eden"] + Sum(e, NumPools) \in Nat
      BY <3>4, <3>6 DEF TypeOK, Denoms
    <3> QED BY <3>3, <3>7
  <2>4. poolInfos' \subseteq Pools
    BY MasterchefAssumption DEF EndBlocker, InfosAtEnd, TypeOK
  <2>5. listed' \in [Pools -> SUBSET ExternalDenoms]
    <3>1. listed' = [p \in Pools |-> listed[p] \cup
            {incentives[i].denom : i \in {j \in live : Due(j) /\ incentives[j].pool = p}}]
      BY DEF EndBlocker
    <3>2. \A i \in live : Due(i) => incentives[i].denom \in ExternalDenoms
      BY DEF TypeOK, Scheduled
    <3> QED BY <3>1, <3>2 DEF TypeOK
  <2>6. slots' \in [Incentives -> Nat] /\ height' \in Nat /\ live' \subseteq Incentives
    BY <1>1 DEF TypeOK
  <2> QED BY <1>1, <2>1, <2>2, <2>3, <2>4, <2>5, <2>6 DEF TypeOK, counts
<1>4. RewardsExact'
  <2> SUFFICES ASSUME NEW p \in Pools, NEW u \in Users, NEW d \in Denoms \ stale[p]
               PROVE  OneShare * (Prec * paid[p][u][d] + pending[p][u][d]) + dust[p][u][d]
                      + acc'[p][d] * shares[p][u] - debt[p][u][d] = granted'[p][u][d]
    BY <1>1 DEF RewardsExact
  <2> DEFINE N == NewPerShare(b, p, d)
  <2>1. /\ acc'[p][d] = acc[p][d] + N
        /\ granted'[p][u][d] = granted[p][u][d] + N * shares[p][u]
    BY <1>1
  <2>2. OneShare * (Prec * paid[p][u][d] + pending[p][u][d]) + dust[p][u][d]
        + acc[p][d] * shares[p][u] - debt[p][u][d] = granted[p][u][d]
    BY DEF RewardsExact
  <2>3. /\ OneShare * (Prec * paid[p][u][d] + pending[p][u][d]) \in Int
        /\ dust[p][u][d] \in Int /\ debt[p][u][d] \in Int /\ acc[p][d] \in Nat
        /\ shares[p][u] \in Nat /\ N \in Nat
    BY <1>2, MasterchefAssumption DEF TypeOK, LedgerType
  <2> HIDE DEF N
  <2>4. (acc[p][d] + N) * shares[p][u] = acc[p][d] * shares[p][u] + N * shares[p][u]
    BY <2>3
  <2>5. acc[p][d] * shares[p][u] \in Int /\ N * shares[p][u] \in Int
    BY <2>3
  <2> QED BY <2>1, <2>2, <2>3, <2>4, <2>5
<1>5. Scheduled'
  BY <1>1 DEF Scheduled, Due, TypeOK
<1>6. IncentivesRunInFull'
  <2> SUFFICES ASSUME NEW i \in Incentives, incentives[i].onTime = "yes"
               PROVE  IF i \in live'
                      THEN /\ height' <= incentives[i].to
                           /\ slots'[i] = MaxOf(0, height' - 1 - incentives[i].from)
                      ELSE slots'[i] = incentives[i].to - incentives[i].from
    BY <1>1 DEF IncentivesRunInFull, MaxOf
  <2>1. /\ incentives[i].pool \in InfosAtEnd /\ incentives[i].from < incentives[i].to
        /\ incentives[i].from \in Nat /\ incentives[i].to \in Nat
        /\ height \in Nat /\ slots[i] \in Nat
    BY DEF Scheduled, InfosAtEnd, TypeOK
  <2>2. IF i \in live
        THEN height <= incentives[i].to /\ slots[i] = MaxOf(0, height - 1 - incentives[i].from)
        ELSE slots[i] = incentives[i].to - incentives[i].from
    BY DEF IncentivesRunInFull
  <2>3. slots'[i] = slots[i] + (IF Due(i) THEN 1 ELSE 0)
    BY <1>1
  <2> DEFINE f == incentives[i].from
             t == incentives[i].to
  <2>4. /\ height' = height + 1 /\ f \in Nat /\ t \in Nat /\ f < t
    BY <1>1, <2>1
  <2>5. CASE i \notin live
    <3>1. ~ Due(i) /\ i \notin live'
      BY <1>1, <2>5 DEF Due
    <3> QED BY <2>1, <2>2, <2>3, <2>5, <3>1
  <2>6. CASE i \in live /\ height < incentives[i].to
    <3>1. i \in live' /\ (Due(i) <=> incentives[i].from < height)
      BY <1>1, <2>1, <2>6 DEF Due, Ended
    <3>2. slots[i] = (IF 0 >= height - 1 - f THEN 0 ELSE height - 1 - f) /\ height < t
      BY <2>2, <2>6 DEF MaxOf
    <3>3. slots'[i] = slots[i] + (IF f < height THEN 1 ELSE 0)
      BY <2>3, <3>1
    <3> HIDE DEF f, t
    <3>4. height' <= t /\ slots'[i] = MaxOf(0, height' - 1 - f)
      BY <2>1, <2>4, <3>2, <3>3 DEF MaxOf
    <3> QED BY <3>1, <3>4 DEF f, t
  <2>7. CASE i \in live /\ height = incentives[i].to
    <3>1. i \notin live' /\ Due(i)
      BY <1>1, <2>1, <2>7 DEF Due, Ended
    <3>2. slots[i] = (IF 0 >= height - 1 - f THEN 0 ELSE height - 1 - f) /\ height = t
      BY <2>2, <2>7 DEF MaxOf
    <3>3. slots'[i] = slots[i] + 1
      BY <2>3, <3>1
    <3> HIDE DEF f, t
    <3>4. slots'[i] = t - f
      BY <2>1, <2>4, <3>2, <3>3
    <3> QED BY <3>1, <3>4 DEF f, t
  <2> QED BY <2>1, <2>2, <2>5, <2>6, <2>7
<1> QED BY <1>3, <1>4, <1>5, <1>6

\* Every step keeps the invariant.
LEMMA StepIInv == IInv /\ [Next]_vars => IInv'
<1> SUFFICES ASSUME IInv, [Next]_vars PROVE IInv'
  OBVIOUS
<1>1. ASSUME NEW u \in Users, NEW p \in Pools, NEW amount \in ShareAmounts,
             Deposit(u, p, amount) \/ Withdraw(u, p, amount)
      PROVE  IInv'
  BY <1>1, DepositStep, WithdrawStep
<1>2. ASSUME NEW u \in Users, NEW P \in (SUBSET Pools) \ {{}}, ClaimRewards(u, P)
      PROVE  IInv'
  BY <1>2, ClaimStep
<1>3. ASSUME \/ \E p \in Pools : CreatePool(p)
             \/ \E p \in Pools, enable \in BOOLEAN : TogglePoolEdenRewards(p, enable)
             \/ \E d \in ExternalDenoms, isSupported \in BOOLEAN :
                   AddExternalRewardDenom(d, isSupported)
      PROVE  IInv'
  BY <1>3, GovernanceStep
<1>4. ASSUME NEW p \in Pools, NEW d \in ExternalDenoms,
             NEW from \in 1 .. MaxHeight, NEW to \in 1 .. MaxHeight,
             NEW perBlock \in IncentiveAmounts, AddExternalIncentive(p, d, from, to, perBlock)
      PROVE  IInv'
  BY <1>4, IncentiveStep
<1>5. ASSUME NEW b \in BlockRewards, EndBlocker(b) PROVE IInv'
  BY <1>5, EndBlockStep
<1>6. CASE UNCHANGED vars
  <2> USE <1>6 DEF vars, poolState, ledger, program, history, counts, IInv
  <2>1. TypeOK'
    BY DEF TypeOK
  <2>2. RewardsExact'
    BY DEF RewardsExact
  <2>3. Scheduled' /\ IncentivesRunInFull'
    BY IncentivesUntouched
  <2> QED BY <2>1, <2>2, <2>3
<1> QED BY <1>1, <1>2, <1>3, <1>4, <1>5, <1>6 DEF Next

(***************************************************************************)
(* The invariant holds in every reachable state.                           *)
(***************************************************************************)
LEMMA Invariance == Spec => []IInv
<1>1. Init => IInv
  BY InitIInv
<1>2. IInv /\ [Next]_vars => IInv'
  BY StepIInv
<1> QED BY <1>1, <1>2, PTL DEF Spec

(***************************************************************************)
(* The reward ledgers are well typed: no debt, balance of the module       *)
(* account or committed share ever goes negative.                          *)
(***************************************************************************)
THEOREM MasterchefTypeCorrect == Spec => []TypeOK
<1>1. IInv => TypeOK
  BY DEF IInv
<1> QED BY <1>1, Invariance, PTL

(***************************************************************************)
(* AfterDeposit, AfterWithdraw, ClaimRewards and EndBlocker together keep  *)
(* every account's rewards exact, whatever the precision of the decimals.  *)
(***************************************************************************)
THEOREM RewardsExactHolds == Spec => []RewardsExact
<1>1. IInv => RewardsExact
  BY DEF IInv
<1> QED BY <1>1, Invariance, PTL

(***************************************************************************)
(* ProcessExternalRewardsDistribution pays an incentive for exactly the    *)
(* blocks that AddExternalIncentive took the coins for.                    *)
(***************************************************************************)
THEOREM IncentivesRunInFullHolds == Spec => []IncentivesRunInFull
<1>1. IInv => IncentivesRunInFull
  BY DEF IInv
<1> QED BY <1>1, Invariance, PTL

-----------------------------------------------------------------------------
(***************************************************************************)
(* The module account of x/masterchef can always pay: whatever accounts    *)
(* have earned so far, settled or not, and whatever running incentives     *)
(* still have to pay is in its balances.  The invariant compares what is   *)
(* owed in units of 1/(OneShare * Prec) coin, before any rounding.         *)
(***************************************************************************)

Unit == OneShare * Prec

\* What a ledger is worth: Earned without a change of shares.
X(p, u, d) == OneShare * pending[p][u][d] + acc[p][d] * shares[p][u] - debt[p][u][d]

Owed(d) == [p \in Pools |-> [u \in Users |-> X(p, u, d)]]

Total(x) == Sum([p \in Pools |-> Sum(x[p], NumUsers)], NumPools)

Current(d) == \A p \in Pools : d \notin stale[p]

(***************************************************************************)
(* In a ledger that missed no change of shares nothing is negative.        *)
(***************************************************************************)
Positive ==
    \A p \in Pools, u \in Users : \A d \in Denoms \ stale[p] :
        pending[p][u][d] >= 0 /\ debt[p][u][d] <= acc[p][d] * shares[p][u]

Funded == \A d \in Denoms : Current(d) => Total(Owed(d)) + Unit * Unspent(d) <= Unit * bank[d]

FInv == IInv /\ Positive /\ Funded

-----------------------------------------------------------------------------
(***************************************************************************)
(* Arithmetic.                                                             *)
(***************************************************************************)
LEMMA UnitNat == Unit \in Nat \ {0} /\ OneShare \in Nat \ {0} /\ Prec \in Nat \ {0}
<1>1. OneShare \in Nat \ {0} /\ Prec \in Nat \ {0}
  BY MasterchefAssumption
<1>2. OneShare * Prec \in Nat \ {0}
  BY <1>1
<1> QED BY <1>1, <1>2 DEF Unit

-----------------------------------------------------------------------------
(***************************************************************************)
(* Totals over pools and accounts.                                         *)
(***************************************************************************)
LEMMA TotalInt ==
  ASSUME NEW x \in [Pools -> [Users -> Int]]
  PROVE  /\ \A p \in Pools : Sum(x[p], NumUsers) \in Int
         /\ [p \in Pools |-> Sum(x[p], NumUsers)] \in [1 .. NumPools -> Int]
         /\ Total(x) \in Int
<1>1. \A p \in Pools : Sum(x[p], NumUsers) \in Int
  <2> TAKE p \in Pools
  <2>1. x[p] \in [1 .. NumUsers -> Int]
    BY DEF Users
  <2> QED BY <2>1, SumInt, MasterchefAssumption
<1>2. [p \in Pools |-> Sum(x[p], NumUsers)] \in [1 .. NumPools -> Int]
  BY <1>1 DEF Pools
<1> QED BY <1>1, <1>2, SumInt, MasterchefAssumption DEF Total

\* When every pool's total grows by at most k * c, so does the whole.
LEMMA TotalRows ==
  ASSUME NEW x \in [Pools -> [Users -> Int]], NEW y \in [Pools -> [Users -> Int]],
         NEW c \in [1 .. NumPools -> Int], NEW k \in Int,
         \A p \in Pools : Sum(y[p], NumUsers) <= Sum(x[p], NumUsers) + k * c[p]
  PROVE  Total(y) <= Total(x) + k * Sum(c, NumPools)
<1> DEFINE f == [p \in Pools |-> Sum(y[p], NumUsers)]
           g == [p \in Pools |-> Sum(x[p], NumUsers)]
<1>1. f \in [1 .. NumPools -> Int] /\ g \in [1 .. NumPools -> Int]
  BY TotalInt
<1>2. \A p \in 1 .. NumPools : f[p] <= g[p] + k * c[p]
  BY DEF Pools
<1>3. Total(y) = Sum(f, NumPools) /\ Total(x) = Sum(g, NumPools)
  BY DEF Total
<1> HIDE DEF f, g
<1>4. NumPools \in Nat
  BY MasterchefAssumption
<1>5. Sum(f, NumPools) <= Sum(g, NumPools) + k * Sum(c, NumPools)
  BY <1>1, <1>2, <1>4, SumGrow, Zenon
<1> QED BY <1>3, <1>5

\* One account's ledgers change.
LEMMA TotalOfAccount ==
  ASSUME NEW x \in [Pools -> [Users -> Int]], NEW y \in [Pools -> [Users -> Int]],
         NEW c \in [1 .. NumPools -> Int], NEW k \in Int, NEW u \in Users,
         \A p \in Pools, v \in Users : v # u => y[p][v] = x[p][v],
         \A p \in Pools : y[p][u] <= x[p][u] + k * c[p]
  PROVE  Total(y) <= Total(x) + k * Sum(c, NumPools)
<1>1. ASSUME NEW p \in Pools
      PROVE  Sum(y[p], NumUsers) <= Sum(x[p], NumUsers) + k * c[p]
  <2>1. x[p] \in [1 .. NumUsers -> Int] /\ y[p] \in [1 .. NumUsers -> Int] /\ u \in 1 .. NumUsers
    BY DEF Users
  <2>2. \A v \in 1 .. NumUsers : v # u => y[p][v] = x[p][v]
    BY DEF Users
  <2> DEFINE g == x[p]
             h == y[p]
  <2>3. g \in [1 .. NumUsers -> Int] /\ h \in [1 .. NumUsers -> Int]
        /\ \A v \in 1 .. NumUsers : v # u => h[v] = g[v]
    BY <2>1, <2>2
  <2>4. h[u] <= g[u] + k * c[p]
    OBVIOUS
  <2> HIDE DEF g, h
  <2>5. Sum(h, NumUsers) = Sum(g, NumUsers) + h[u] - g[u]
    <3>1. NumUsers \in Nat
      BY MasterchefAssumption
    <3> QED BY <2>1, <2>3, <3>1, SumUpdate, Zenon
  <2>6. Sum(g, NumUsers) \in Int /\ h[u] \in Int /\ g[u] \in Int /\ k * c[p] \in Int
    <3>1. Sum(g, NumUsers) \in Int
      BY <2>3, SumInt, MasterchefAssumption
    <3>2. c[p] \in Int
      BY DEF Pools
    <3> QED BY <2>1, <2>3, <3>1, <3>2
  <2>7. Sum(h, NumUsers) <= Sum(g, NumUsers) + k * c[p]
    BY <2>4, <2>5, <2>6
  <2> QED BY <2>7 DEF g, h
<1> QED BY <1>1, TotalRows

\* Every account earns n per share, of a payment that covers all shares.
LEMMA TotalOfPayment ==
  ASSUME NEW x \in [Pools -> [Users -> Int]], NEW y \in [Pools -> [Users -> Int]],
         NEW s \in [Pools -> [Users -> Nat]], NEW n \in [Pools -> Nat],
         NEW r \in [1 .. NumPools -> Int], NEW k \in Int,
         \A p \in Pools, v \in Users : y[p][v] = x[p][v] + n[p] * s[p][v],
         \A p \in Pools : n[p] * Sum(s[p], NumUsers) <= k * r[p]
  PROVE  Total(y) <= Total(x) + k * Sum(r, NumPools)
<1>1. ASSUME NEW p \in Pools
      PROVE  Sum(y[p], NumUsers) <= Sum(x[p], NumUsers) + k * r[p]
  <2> DEFINE f == y[p]
             g == x[p]
             h == s[p]
  <2>1. /\ f \in [1 .. NumUsers -> Int] /\ g \in [1 .. NumUsers -> Int]
        /\ h \in [1 .. NumUsers -> Int] /\ n[p] \in Nat
        /\ \A v \in 1 .. NumUsers : f[v] = g[v] + n[p] * h[v]
    BY DEF Users
  <2>2. n[p] * Sum(h, NumUsers) <= k * r[p]
    OBVIOUS
  <2> HIDE DEF f, g, h
  <2>3. \A v \in 1 .. NumUsers : f[v] <= g[v] + n[p] * h[v]
    <3> TAKE v \in 1 .. NumUsers
    <3>1. f[v] \in Int /\ f[v] = g[v] + n[p] * h[v]
      BY <2>1
    <3> QED BY <3>1
  <2>4. Sum(f, NumUsers) <= Sum(g, NumUsers) + n[p] * Sum(h, NumUsers)
    <3>1. n[p] \in Int /\ NumUsers \in Nat
      BY <2>1, MasterchefAssumption
    <3> QED BY <2>1, <2>3, <3>1, SumGrow, Zenon
  <2>5. /\ Sum(f, NumUsers) \in Int /\ Sum(g, NumUsers) \in Int /\ Sum(h, NumUsers) \in Int
    BY <2>1, SumInt, MasterchefAssumption
  <2>6. n[p] * Sum(h, NumUsers) \in Int /\ k * r[p] \in Int
    <3>1. r[p] \in Int
      BY DEF Pools
    <3> QED BY <2>1, <2>5, <3>1
  <2>7. Sum(f, NumUsers) <= Sum(g, NumUsers) + k * r[p]
    BY <2>2, <2>4, <2>5, <2>6
  <2> QED BY <2>7 DEF f, g
<1> QED BY <1>1, TotalRows

-----------------------------------------------------------------------------
(***************************************************************************)
(* Types of what is owed and unspent.                                      *)
(***************************************************************************)
LEMMA OwedInts ==
  ASSUME TypeOK, NEW d \in Denoms
  PROVE  /\ Owed(d) \in [Pools -> [Users -> Int]] /\ Total(Owed(d)) \in Int
         /\ \A p \in Pools, u \in Users : X(p, u, d) \in Int /\ Owed(d)[p][u] = X(p, u, d)
<1>1. \A p \in Pools, u \in Users : X(p, u, d) \in Int
  <2> TAKE p \in Pools, u \in Users
  <2>1. /\ pending[p][u][d] \in Int /\ acc[p][d] \in Nat /\ shares[p][u] \in Nat
        /\ debt[p][u][d] \in Nat /\ OneShare \in Nat
    BY MasterchefAssumption DEF TypeOK, LedgerType
  <2> QED BY <2>1 DEF X
<1>2. Owed(d) \in [Pools -> [Users -> Int]]
  BY <1>1 DEF Owed
<1>3. \A p \in Pools, u \in Users : Owed(d)[p][u] = X(p, u, d)
  BY DEF Owed
<1> QED BY <1>1, <1>2, <1>3, TotalInt

LEMMA UnspentNat ==
  ASSUME IInv, NEW d \in Denoms
  PROVE  /\ \A i \in Incentives : BlocksLeft(i) \in Nat
         /\ [i \in Incentives |-> IF incentives[i].denom = d
               THEN incentives[i].perBlock * BlocksLeft(i) ELSE 0] \in [1 .. MaxIncentives -> Nat]
         /\ Unspent(d) \in Nat
<1>1. \A i \in Incentives : BlocksLeft(i) \in Nat
  <2> TAKE i \in Incentives
  <2>1. /\ incentives[i].from \in Nat /\ incentives[i].to \in Nat /\ height \in Nat
        /\ i \in live => incentives[i].from < incentives[i].to
    BY DEF IInv, TypeOK, Scheduled
  <2> QED BY <2>1 DEF BlocksLeft, MaxOf
<1> DEFINE g == [i \in Incentives |-> IF incentives[i].denom = d
               THEN incentives[i].perBlock * BlocksLeft(i) ELSE 0]
<1>2. g \in [1 .. MaxIncentives -> Nat]
  <2>1. \A i \in Incentives : incentives[i].perBlock * BlocksLeft(i) \in Nat
    <3>1. \A i \in Incentives : incentives[i].perBlock \in Nat
      BY DEF IInv, TypeOK
    <3> QED BY <1>1, <3>1, ProductNat
  <2> QED BY <2>1 DEF Incentives
<1>3. Unspent(d) = Sum(g, MaxIncentives)
  BY DEF Unspent
<1> HIDE DEF g
<1>4. Unspent(d) \in Nat
  BY <1>2, <1>3, SumBound, MasterchefAssumption
<1> QED BY <1>1, <1>2, <1>4 DEF g

LEMMA UnspentNatNext ==
  ASSUME IInv', NEW d \in Denoms
  PROVE  Unspent(d)' \in Nat
<1> DEFINE g == [i \in Incentives |-> IF incentives'[i].denom = d
                   THEN incentives'[i].perBlock * (BlocksLeft(i)') ELSE 0]
<1>1. \A i \in Incentives : BlocksLeft(i)' \in Nat
  <2> TAKE i \in Incentives
  <2>1. /\ height' \in Nat /\ incentives'[i].to \in Nat /\ incentives'[i].from \in Nat
        /\ i \in live' => incentives'[i].from < incentives'[i].to
    BY DEF IInv, TypeOK, Scheduled
  <2>2. BlocksLeft(i)' = IF i \in live' /\ height' <= incentives'[i].to
            THEN incentives'[i].to - MaxOf(incentives'[i].from, height' - 1) ELSE 0
    BY DEF BlocksLeft
  <2> QED BY <2>1, <2>2 DEF MaxOf
<1>2. \A i \in Incentives : incentives'[i].perBlock * (BlocksLeft(i)') \in Nat
  <2>1. \A i \in Incentives : incentives'[i].perBlock \in Nat
    BY DEF IInv, TypeOK
  <2> QED BY <1>1, <2>1, ProductNat
<1>3. g \in [1 .. MaxIncentives -> Nat]
  BY <1>2 DEF Incentives
<1>4. Unspent(d)' = Sum(g, MaxIncentives)
  BY DEF Unspent
<1> HIDE DEF g
<1> QED BY <1>3, <1>4, SumBound, MasterchefAssumption

LEMMA OwedIntsNext ==
  ASSUME TypeOK', NEW d \in Denoms
  PROVE  /\ Owed(d)' \in [Pools -> [Users -> Int]] /\ Total(Owed(d)') \in Int
         /\ \A p \in Pools, u \in Users : X(p, u, d)' \in Int /\ Owed(d)'[p][u] = X(p, u, d)'
<1>1. \A p \in Pools, u \in Users : X(p, u, d)' \in Int
  <2> TAKE p \in Pools, u \in Users
  <2>1. /\ pending'[p][u][d] \in Int /\ acc'[p][d] \in Nat /\ shares'[p][u] \in Nat
        /\ debt'[p][u][d] \in Nat /\ OneShare \in Nat
    BY MasterchefAssumption DEF TypeOK, LedgerType
  <2> QED BY <2>1 DEF X
<1>2. Owed(d)' \in [Pools -> [Users -> Int]]
  BY <1>1 DEF Owed
<1>3. \A p \in Pools, u \in Users : Owed(d)'[p][u] = X(p, u, d)'
  BY DEF Owed
<1> QED BY <1>1, <1>2, <1>3, TotalInt

LEMMA WorthPositive ==
  ASSUME TypeOK, Positive, NEW p \in Pools, NEW u \in Users, NEW d \in Denoms \ stale[p]
  PROVE  /\ X(p, u, d) \in Nat /\ Earned(p, u, d, 0) = X(p, u, d)
         /\ \A change \in Int : Earned(p, u, d, change) = X(p, u, d)
<1>1. /\ pending[p][u][d] \in Nat /\ acc[p][d] \in Nat /\ shares[p][u] \in Nat
      /\ debt[p][u][d] \in Nat /\ debt[p][u][d] <= acc[p][d] * shares[p][u]
      /\ OneShare \in Nat
  BY MasterchefAssumption DEF TypeOK, LedgerType, Positive
<1>2. OneShare * pending[p][u][d] \in Nat /\ acc[p][d] * shares[p][u] \in Nat
  BY <1>1, ProductNat
<1>3. X(p, u, d) \in Nat
  BY <1>1, <1>2 DEF X
<1>4. Earned(p, u, d, 0) = X(p, u, d)
      /\ \A change \in Int : Earned(p, u, d, change) = X(p, u, d)
  BY DEF X, Earned, BalanceBefore
<1> QED BY <1>3, <1>4

LEMMA QuotientNat ==
  ASSUME NEW n \in Nat, NEW d \in Nat \ {0}
  PROVE  Quotient(n, d) \in Nat /\ d * Quotient(n, d) <= n
<1>1. Quotient(n, d) = TruncateInt(n, d)
  BY DEF Quotient, TruncateInt
<1>2. TruncateInt(n, d) \in Nat /\ TruncateInt(n, d) * d <= n
  BY TruncateNat
<1> HIDE DEF TruncateInt
<1> QED BY <1>1, <1>2

-----------------------------------------------------------------------------
(***************************************************************************)
(* Deposits and withdrawals: settling a ledger rounds its worth down.      *)
(***************************************************************************)
LEMMA SettleFunded ==
  ASSUME FInv, TypeOK', NEW p \in Pools, NEW u \in Users, NEW change \in Int,
         shares[p][u] + change \in Nat, Settle(p, u, change),
         shares' = [shares EXCEPT ![p][u] = shares[p][u] + change],
         UNCHANGED <<height, acc, bank, incentives, live>>
  PROVE  Positive' /\ Funded'
<1> USE DEF FInv, IInv
<1> DEFINE balance == shares[p][u] + change
           Q(d) == Quotient(Earned(p, u, d, change), OneShare)
<1>1. /\ shares \in [Pools -> [Users -> Nat]] /\ acc \in [Pools -> [Denoms -> Nat]]
      /\ debt \in [Pools -> [Users -> [Denoms -> Nat]]]
      /\ pending \in [Pools -> [Users -> [Denoms -> Int]]]
      /\ stale \in [Pools -> SUBSET Denoms] /\ balance \in Nat /\ OneShare \in Nat \ {0}
  BY MasterchefAssumption DEF TypeOK, LedgerType
<1>2. /\ \A d \in Denoms : /\ pending'[p][u][d] = IF d \in RewardDenoms(p) THEN Q(d)
                                                   ELSE pending[p][u][d]
                           /\ debt'[p][u][d] = IF d \in RewardDenoms(p) THEN acc[p][d] * balance
                                                ELSE debt[p][u][d]
      /\ shares'[p][u] = balance /\ acc' = acc
      /\ \A q \in Pools, v \in Users : (q # p \/ v # u) =>
            /\ pending'[q][v] = pending[q][v] /\ debt'[q][v] = debt[q][v]
            /\ shares'[q][v] = shares[q][v]
  BY <1>1 DEF Settle, DebtAt
<1>3. /\ \A q \in Pools : stale[q] \subseteq stale'[q]
      /\ \A d \in Denoms \ stale'[p] : d \in RewardDenoms(p) \/ acc[p][d] = 0
  BY <1>1 DEF Settle
<1>4. ASSUME NEW d \in Denoms \ stale'[p]
      PROVE  /\ pending'[p][u][d] >= 0 /\ debt'[p][u][d] <= acc[p][d] * shares'[p][u]
             /\ X(p, u, d)' <= X(p, u, d)
  <2>1. /\ X(p, u, d) \in Nat /\ Earned(p, u, d, change) = X(p, u, d)
        /\ pending[p][u][d] >= 0 /\ debt[p][u][d] <= acc[p][d] * shares[p][u]
    BY <1>3, WorthPositive DEF Positive
  <2>2. /\ pending[p][u][d] \in Int /\ debt[p][u][d] \in Nat /\ acc[p][d] \in Nat
        /\ shares[p][u] \in Nat
    BY <1>1
  <2>3. CASE d \in RewardDenoms(p)
    <3>1. Q(d) \in Nat /\ OneShare * Q(d) <= X(p, u, d)
      BY <1>1, <2>1, QuotientNat
    <3>2. pending'[p][u][d] = Q(d) /\ debt'[p][u][d] = acc[p][d] * balance
      BY <1>2, <2>3
    <3>3. X(p, u, d)' = OneShare * Q(d) + acc[p][d] * balance - acc[p][d] * balance
      BY <1>2, <3>2 DEF X
    <3> HIDE DEF Q, balance
    <3>4. OneShare * Q(d) \in Int /\ acc[p][d] * balance \in Int
      BY <1>1, <2>2, <3>1
    <3> QED BY <1>2, <2>1, <3>1, <3>2, <3>3, <3>4
  <2>4. CASE d \notin RewardDenoms(p)
    <3>1. acc[p][d] = 0
      BY <1>3, <2>4
    <3>2. acc[p][d] * shares[p][u] = 0 /\ acc[p][d] * balance = 0
      BY <1>1, <2>2, <3>1
    <3>3. pending'[p][u][d] = pending[p][u][d] /\ debt'[p][u][d] = debt[p][u][d]
      BY <1>2, <2>4
    <3>4. X(p, u, d)' = X(p, u, d)
      BY <1>2, <3>2, <3>3 DEF X
    <3> HIDE DEF balance
    <3> QED BY <1>2, <2>1, <3>2, <3>3, <3>4
  <2> QED BY <2>3, <2>4
<1> HIDE DEF Q, balance
<1>5. Positive'
  <2> SUFFICES ASSUME NEW q \in Pools, NEW v \in Users, NEW d \in Denoms \ stale'[q]
               PROVE  pending'[q][v][d] >= 0 /\ debt'[q][v][d] <= acc[q][d] * shares'[q][v]
    BY <1>2 DEF Positive
  <2>1. CASE q = p /\ v = u
    BY <1>4, <2>1
  <2>2. CASE q # p \/ v # u
    BY <1>2, <1>3, <2>2 DEF Positive
  <2> QED BY <2>1, <2>2
<1>6. ASSUME NEW d \in Denoms, Current(d)'
      PROVE  Total(Owed(d)') + Unit * Unspent(d)' <= Unit * bank'[d]
  <2>1. d \notin stale'[p] /\ Current(d)
    BY <1>3, <1>6 DEF Current
  <2> DEFINE x == Owed(d)
             y == Owed(d)'
             c == [i \in 1 .. NumPools |-> 0]
  <2>2. x \in [Pools -> [Users -> Int]] /\ y \in [Pools -> [Users -> Int]]
        /\ Total(x) \in Int /\ Total(y) \in Int
    BY OwedInts, OwedIntsNext
  <2>3. c \in [1 .. NumPools -> Int] /\ 0 \in Int
    OBVIOUS
  <2>4. \A q \in Pools, v \in Users : (q # p \/ v # u) => y[q][v] = x[q][v]
    <3> TAKE q \in Pools, v \in Users
    <3>1. (q # p \/ v # u) => X(q, v, d)' = X(q, v, d)
      BY <1>2 DEF X
    <3> QED BY <3>1, OwedInts, OwedIntsNext
  <2>5. y[p][u] <= x[p][u]
    BY <1>4, <2>1, OwedInts, OwedIntsNext
  <2> HIDE DEF x, y
  <2>6. \A q \in Pools : y[q][u] <= x[q][u] + 0 * c[q]
    <3> TAKE q \in Pools
    <3>1. x[q][u] \in Int /\ y[q][u] \in Int /\ 0 * c[q] = 0
      BY <2>2 DEF Pools
    <3> QED BY <2>4, <2>5, <3>1
  <2> HIDE DEF c
  <2>7. Total(y) <= Total(x) + 0 * Sum(c, NumPools)
    BY <2>2, <2>3, <2>4, <2>6, TotalOfAccount, Zenon
  <2>8. 0 * Sum(c, NumPools) = 0
    <3>1. NumPools \in Nat
      BY MasterchefAssumption
    <3>2. Sum(c, NumPools) \in Int
      BY <2>3, <3>1, SumInt, Zenon
    <3> QED BY <3>2
  <2>9. Unspent(d)' = Unspent(d) /\ bank' = bank
    BY DEF Unspent, BlocksLeft
  <2>10. Total(x) + Unit * Unspent(d) <= Unit * bank[d]
    BY <2>1 DEF Funded, x
  <2>11. Unit * Unspent(d) \in Int /\ Unit * bank[d] \in Int
    <3>1. Unspent(d) \in Nat /\ bank[d] \in Nat /\ Unit \in Nat
      BY UnspentNat, UnitNat DEF TypeOK
    <3> QED BY <3>1
  <2>12. Total(y) + Unit * Unspent(d) <= Unit * bank[d]
    BY <2>2, <2>7, <2>8, <2>10, <2>11
  <2> QED BY <2>9, <2>12 DEF y
<1> QED BY <1>5, <1>6 DEF Funded, Total

(***************************************************************************)
(* A claim pays no more than the ledgers are worth.                        *)
(***************************************************************************)
LEMMA ClaimableWorth ==
  ASSUME TypeOK, Positive, NEW p \in Pools, NEW u \in Users, NEW d \in Denoms \ stale[p]
  PROVE  /\ Claimable(p, u, d) \in Nat
         /\ Unit * Claimable(p, u, d) <= X(p, u, d)
         /\ PendingAfterClaim(p, u, d) = 0
<1> DEFINE q == Quotient(Earned(p, u, d, 0), OneShare)
           C == Claimable(p, u, d)
<1>1. X(p, u, d) \in Nat /\ Earned(p, u, d, 0) = X(p, u, d)
  BY WorthPositive
<1>2. q \in Nat /\ OneShare * q <= X(p, u, d)
  BY <1>1, UnitNat, QuotientNat
<1>3. C = IF d \in RewardDenoms(p) /\ q > 0 THEN TruncateInt(q, Prec) ELSE 0
  BY DEF Claimable, TruncateInt
<1>4. PendingAfterClaim(p, u, d) = IF q > 0 THEN 0 ELSE q
  BY DEF PendingAfterClaim
<1> HIDE DEF q, C
<1>5. C \in Nat /\ C * Prec <= q
  <2>1. TruncateInt(q, Prec) \in Nat /\ TruncateInt(q, Prec) * Prec <= q
    BY <1>2, UnitNat, TruncateNat
  <2>2. 0 * Prec = 0
    BY UnitNat
  <2> HIDE DEF TruncateInt
  <2> QED BY <1>2, <1>3, <2>1, <2>2
<1>6. OneShare * (C * Prec) <= OneShare * q
  <2>1. C * Prec \in Int /\ q \in Int /\ OneShare \in Nat
    BY <1>2, <1>5, UnitNat
  <2> QED BY <1>5, <2>1, ProductMonotone
<1>7. Unit * C = OneShare * (C * Prec)
  BY <1>5, UnitNat DEF Unit
<1>8. Unit * C <= X(p, u, d)
  <2>1. OneShare * (C * Prec) \in Int /\ OneShare * q \in Int
    BY <1>2, <1>5, UnitNat
  <2> QED BY <1>1, <1>2, <1>6, <1>7, <2>1
<1> QED BY <1>2, <1>4, <1>5, <1>8 DEF C

LEMMA ClaimFunded ==
  ASSUME FInv, TypeOK', NEW u \in Users, NEW P \in SUBSET Pools, ClaimRewards(u, P)
  PROVE  Positive' /\ Funded'
<1> USE DEF FInv, IInv
<1> DEFINE Paying(p, d) == p \in P /\ d \in RewardDenoms(p)
           coins(p, d) == IF p \in P THEN Claimable(p, u, d) ELSE 0
<1>1. /\ debt \in [Pools -> [Users -> [Denoms -> Nat]]]
      /\ pending \in [Pools -> [Users -> [Denoms -> Int]]]
      /\ shares \in [Pools -> [Users -> Nat]] /\ acc \in [Pools -> [Denoms -> Nat]]
  BY DEF TypeOK, LedgerType
<1>2. /\ \A p \in Pools, d \in Denoms :
            /\ pending'[p][u][d] = IF Paying(p, d) THEN PendingAfterClaim(p, u, d)
                                                  ELSE pending[p][u][d]
            /\ debt'[p][u][d] = IF Paying(p, d) THEN acc[p][d] * shares[p][u]
                                               ELSE debt[p][u][d]
      /\ \A p \in Pools, v \in Users : v # u =>
            pending'[p][v] = pending[p][v] /\ debt'[p][v] = debt[p][v]
      /\ UNCHANGED <<shares, acc, stale, height, incentives, live>>
      /\ bank' = [d \in Denoms |-> bank[d] - ClaimedCoins(u, P, d)]
  BY <1>1 DEF ClaimRewards, DebtAt, program
<1>3. ASSUME NEW p \in Pools, NEW d \in Denoms \ stale[p]
      PROVE  /\ pending'[p][u][d] >= 0 /\ debt'[p][u][d] <= acc[p][d] * shares[p][u]
             /\ coins(p, d) \in Nat /\ X(p, u, d)' <= X(p, u, d) + (- Unit) * coins(p, d)
  <2>1. /\ Claimable(p, u, d) \in Nat /\ Unit * Claimable(p, u, d) <= X(p, u, d)
        /\ PendingAfterClaim(p, u, d) = 0 /\ X(p, u, d) \in Nat
        /\ pending[p][u][d] >= 0 /\ debt[p][u][d] <= acc[p][d] * shares[p][u]
    BY ClaimableWorth, WorthPositive DEF Positive
  <2>2. /\ acc[p][d] \in Nat /\ shares[p][u] \in Nat
        /\ acc[p][d] * shares[p][u] \in Nat /\ Unit \in Nat /\ OneShare \in Nat
    BY <1>1, UnitNat, ProductNat
  <2>3. CASE Paying(p, d)
    <3>1. pending'[p][u][d] = 0 /\ debt'[p][u][d] = acc[p][d] * shares[p][u]
      BY <1>2, <2>1, <2>3
    <3>2. X(p, u, d)' = 0
      <4>1. X(p, u, d)' = OneShare * 0 + acc[p][d] * shares[p][u] - acc[p][d] * shares[p][u]
        BY <1>2, <3>1 DEF X
      <4> QED BY <2>2, <4>1
    <3>3. coins(p, d) = Claimable(p, u, d)
      BY <2>3
    <3>4. (- Unit) * Claimable(p, u, d) = - (Unit * Claimable(p, u, d))
          /\ Unit * Claimable(p, u, d) \in Int
      BY <2>1, <2>2
    <3> HIDE DEF coins
    <3> QED BY <2>1, <2>2, <3>1, <3>2, <3>3, <3>4
  <2>4. CASE ~ Paying(p, d)
    <3>1. coins(p, d) = 0
      BY <2>4 DEF Claimable
    <3>2. pending'[p][u][d] = pending[p][u][d] /\ debt'[p][u][d] = debt[p][u][d]
      BY <1>2, <2>4
    <3>3. X(p, u, d)' = X(p, u, d)
      BY <1>2, <3>2 DEF X
    <3> HIDE DEF coins
    <3>4. (- Unit) * 0 = 0
      BY <2>2
    <3> QED BY <2>1, <3>1, <3>2, <3>3, <3>4
  <2> QED BY <2>3, <2>4
<1>4. Positive'
  <2> SUFFICES ASSUME NEW q \in Pools, NEW v \in Users, NEW d \in Denoms \ stale[q]
               PROVE  pending'[q][v][d] >= 0 /\ debt'[q][v][d] <= acc[q][d] * shares[q][v]
    BY <1>2 DEF Positive
  <2>1. CASE v = u
    BY <1>3, <2>1
  <2>2. CASE v # u
    BY <1>2, <2>2 DEF Positive
  <2> QED BY <2>1, <2>2
<1>5. ASSUME NEW d \in Denoms, Current(d)'
      PROVE  Total(Owed(d)') + Unit * Unspent(d)' <= Unit * bank'[d]
  <2>1. Current(d) /\ \A p \in Pools : d \notin stale[p]
    BY <1>2, <1>5 DEF Current
  <2> DEFINE x == Owed(d)
             y == Owed(d)'
             c == [p \in Pools |-> coins(p, d)]
             k == - Unit
  <2>2. x \in [Pools -> [Users -> Int]] /\ y \in [Pools -> [Users -> Int]]
        /\ Total(x) \in Int /\ Total(y) \in Int
    BY OwedInts, OwedIntsNext
  <2>3. c \in [1 .. NumPools -> Int] /\ k \in Int
    <3>1. \A p \in Pools : coins(p, d) \in Int
      BY <1>3, <2>1
    <3> HIDE DEF coins
    <3> QED BY <3>1, UnitNat DEF Pools
  <2>4. \A p \in Pools, v \in Users : v # u => y[p][v] = x[p][v]
    <3> TAKE p \in Pools, v \in Users
    <3>1. v # u => X(p, v, d)' = X(p, v, d)
      BY <1>2 DEF X
    <3> QED BY <3>1, OwedInts, OwedIntsNext
  <2>5. \A p \in Pools : y[p][u] <= x[p][u] + k * c[p]
    <3> TAKE p \in Pools
    <3>1. X(p, u, d)' <= X(p, u, d) + k * coins(p, d)
      BY <1>3, <2>1
    <3>2. x[p][u] = X(p, u, d) /\ y[p][u] = X(p, u, d)' /\ c[p] = coins(p, d)
      BY OwedInts, OwedIntsNext
    <3> QED BY <3>1, <3>2
  <2>6. ClaimedCoins(u, P, d) = Sum(c, NumPools)
    BY DEF ClaimedCoins
  <2> HIDE DEF x, y, c, k
  <2>7. Total(y) <= Total(x) + k * Sum(c, NumPools)
    BY <2>2, <2>3, <2>4, <2>5, TotalOfAccount, Zenon
  <2>8. Sum(c, NumPools) \in Int
    <3>1. NumPools \in Nat
      BY MasterchefAssumption
    <3> QED BY <2>3, <3>1, SumInt, Zenon
  <2>9. Unspent(d)' = Unspent(d) /\ bank'[d] = bank[d] - Sum(c, NumPools)
    <3>1. Unspent(d)' = Unspent(d)
      BY <1>2 DEF Unspent, BlocksLeft
    <3>2. bank'[d] = bank[d] - ClaimedCoins(u, P, d)
      BY <1>2
    <3> QED BY <2>6, <3>1, <3>2
  <2>10. Total(x) + Unit * Unspent(d) <= Unit * bank[d]
    BY <2>1 DEF Funded, x
  <2>11. Unspent(d) \in Nat /\ bank[d] \in Nat /\ Unit \in Nat
    BY UnspentNat, UnitNat DEF TypeOK
  <2> DEFINE S == Sum(c, NumPools)
             b == bank[d]
  <2>12. k * S = - (Unit * S) /\ Unit * (b - S) = Unit * b - Unit * S
        /\ Unit * S \in Int /\ Unit * b \in Int
    <3>1. S \in Int /\ b \in Int
      BY <2>8, <2>11
    <3> HIDE DEF S, b
    <3> QED BY <2>11, <3>1 DEF k
  <2>13. Unit * Unspent(d) \in Int
    BY <2>11
  <2>14. Total(y) + Unit * Unspent(d) <= Unit * (b - S)
    <3> HIDE DEF S, b
    <3>1. Total(y) <= Total(x) + k * S /\ Total(x) + Unit * Unspent(d) <= Unit * b
      BY <2>7, <2>10 DEF S, b
    <3> QED BY <2>2, <2>12, <2>13, <3>1
  <2> QED BY <2>9, <2>14 DEF y
<1> QED BY <1>4, <1>5 DEF Funded, Total

-----------------------------------------------------------------------------
(***************************************************************************)
(* What a block pays per share is covered by what it pays to the pool.     *)
(***************************************************************************)
LEMMA PerShareCovered ==
  ASSUME TypeOK, NEW p \in Pools, NEW amount \in Nat
  PROVE  /\ TotalCommit(p) \in Nat
         /\ TotalCommit(p) * PerShare(p, amount) <= Unit * amount
<1> DEFINE T == TotalCommit(p)
           n == amount * OneShare * Prec
<1>1. T \in Nat
  <2>1. shares[p] \in [1 .. NumUsers -> Nat]
    BY DEF TypeOK, Users
  <2> QED BY <2>1, SumBound, MasterchefAssumption DEF TotalCommit
<1>2. n \in Nat /\ n = Unit * amount
  BY UnitNat, ProductNat DEF Unit
<1>3. PerShare(p, amount) = IF T = 0 THEN 0 ELSE TruncateInt(n, T)
  BY DEF PerShare
<1> HIDE DEF T, n
<1>4. T # 0 => TruncateInt(n, T) \in Nat /\ TruncateInt(n, T) * T <= n
  BY <1>1, <1>2, TruncateNat
<1> HIDE DEF TruncateInt
<1>5. T * PerShare(p, amount) <= n
  <2>1. CASE T = 0
    BY <1>2, <1>3, <2>1
  <2>2. CASE T # 0
    <3>1. TruncateInt(n, T) * T = T * TruncateInt(n, T)
      BY <1>1, <1>4, <2>2
    <3> QED BY <1>3, <1>4, <2>2, <3>1
  <2> QED BY <2>1, <2>2
<1> QED BY <1>1, <1>2, <1>5 DEF T

\* What the incentives that are due pay in a denom, each, and to a pool.
Payment(i, d) == IF Due(i) /\ incentives[i].denom = d THEN incentives[i].perBlock ELSE 0

PaymentTo(p, d) ==
    Sum([i \in Incentives |->
            IF incentives[i].pool = p THEN Payment(i, d) ELSE 0], MaxIncentives)

LEMMA PaymentsNat ==
  ASSUME TypeOK, NEW d \in Denoms
  PROVE  /\ [i \in Incentives |-> Payment(i, d)] \in [1 .. MaxIncentives -> Nat]
         /\ \A p \in Pools :
              /\ [i \in Incentives |-> IF incentives[i].pool = p THEN Payment(i, d) ELSE 0]
                   \in [1 .. MaxIncentives -> Nat]
              /\ PaymentTo(p, d) \in Nat
<1>1. \A i \in Incentives : Payment(i, d) \in Nat
  BY DEF TypeOK, Payment
<1>2. [i \in Incentives |-> Payment(i, d)] \in [1 .. MaxIncentives -> Nat]
  BY <1>1 DEF Incentives
<1>3. ASSUME NEW p \in Pools
      PROVE  [i \in Incentives |-> IF incentives[i].pool = p THEN Payment(i, d) ELSE 0]
               \in [1 .. MaxIncentives -> Nat]
  BY <1>1 DEF Incentives
<1>4. \A p \in Pools : PaymentTo(p, d) \in Nat
  <2> TAKE p \in Pools
  <2> DEFINE g == [i \in Incentives |-> IF incentives[i].pool = p THEN Payment(i, d) ELSE 0]
  <2>1. g \in [1 .. MaxIncentives -> Nat] /\ PaymentTo(p, d) = Sum(g, MaxIncentives)
    BY <1>3 DEF PaymentTo
  <2> HIDE DEF g
  <2> QED BY <2>1, SumBound, MasterchefAssumption
<1> QED BY <1>2, <1>3, <1>4

\* Each incentive's part per share, added up.
LEMMA ExternalCovered ==
  ASSUME TypeOK, NEW p \in Pools, NEW d \in Denoms
  PROVE  TotalCommit(p) * ExternalPerShare(p, d) <= Unit * PaymentTo(p, d)
<1> DEFINE f == [i \in Incentives |->
               IF Due(i) /\ incentives[i].pool = p /\ incentives[i].denom = d
               THEN PerShare(p, incentives[i].perBlock) ELSE 0]
           g == [i \in Incentives |-> IF incentives[i].pool = p THEN Payment(i, d) ELSE 0]
           T == TotalCommit(p)
<1>1. \A i \in Incentives : incentives[i].perBlock \in Nat
  BY DEF TypeOK
<1>2. \A i \in Incentives : /\ PerShare(p, incentives[i].perBlock) \in Nat
                            /\ T * PerShare(p, incentives[i].perBlock)
                                 <= Unit * incentives[i].perBlock
  BY <1>1, PerShareNat, PerShareCovered
<1>3. T \in Nat
  BY PerShareCovered
<1>4. f \in [1 .. MaxIncentives -> Int]
  BY <1>2 DEF Incentives
<1>5. g \in [1 .. MaxIncentives -> Int]
  BY PaymentsNat
<1>6. \A i \in 1 .. MaxIncentives : T * f[i] <= Unit * g[i] + 0 * g[i]
  <2> TAKE i \in 1 .. MaxIncentives
  <2>1. i \in Incentives
    BY DEF Incentives
  <2> DEFINE pays == Due(i) /\ incentives[i].pool = p /\ incentives[i].denom = d
  <2>2. /\ f[i] = IF pays THEN PerShare(p, incentives[i].perBlock) ELSE 0
        /\ g[i] = IF pays THEN incentives[i].perBlock ELSE 0
    BY <2>1 DEF Payment
  <2>3. /\ T * PerShare(p, incentives[i].perBlock) <= Unit * incentives[i].perBlock
        /\ PerShare(p, incentives[i].perBlock) \in Nat /\ incentives[i].perBlock \in Nat
    BY <1>1, <1>2, <2>1
  <2> HIDE DEF pays, f, g, T
  <2>4. CASE pays
    <3>1. f[i] = PerShare(p, incentives[i].perBlock) /\ g[i] = incentives[i].perBlock
      BY <2>2, <2>4
    <3>2. 0 * g[i] = 0 /\ Unit * g[i] \in Int
      BY <2>3, <3>1, UnitNat
    <3>3. T * f[i] <= Unit * g[i]
      BY <2>3, <3>1
    <3>4. Unit * g[i] + 0 * g[i] = Unit * g[i]
      BY <3>2
    <3> QED BY <3>3, <3>4
  <2>5. CASE ~ pays
    <3>1. f[i] = 0 /\ g[i] = 0
      BY <2>2, <2>5
    <3>2. T * 0 = 0 /\ Unit * 0 + 0 * 0 = 0
      BY <1>3, UnitNat
    <3> QED BY <3>1, <3>2
  <2> QED BY <2>4, <2>5
<1>7. ExternalPerShare(p, d) = Sum(f, MaxIncentives) /\ PaymentTo(p, d) = Sum(g, MaxIncentives)
  BY DEF ExternalPerShare, PaymentTo
<1>8. MaxIncentives \in Nat /\ T \in Int /\ Unit \in Int /\ 0 \in Int
  BY <1>3, UnitNat, MasterchefAssumption
<1> HIDE DEF f, g, T
<1>9. T * Sum(f, MaxIncentives) <= Unit * Sum(g, MaxIncentives) + 0 * Sum(g, MaxIncentives)
  BY <1>4, <1>5, <1>6, <1>8, SumCombine, Zenon
<1>10. Sum(g, MaxIncentives) \in Int
  BY <1>5, <1>8, SumInt, Zenon
<1> DEFINE G == Sum(g, MaxIncentives)
<1>11. Unit * G + 0 * G = Unit * G
  <2>1. G \in Int
    BY <1>10
  <2> HIDE DEF G
  <2> QED BY <2>1, UnitNat
<1> QED BY <1>7, <1>9, <1>11 DEF G, T

\* Every incentive pays to one pool.
LEMMA PaymentsTotal ==
  ASSUME TypeOK, NEW d \in Denoms
  PROVE  Sum([p \in Pools |-> PaymentTo(p, d)], NumPools)
           = Sum([i \in Incentives |-> Payment(i, d)], MaxIncentives)
<1> DEFINE w == [i \in Incentives |-> Payment(i, d)]
           at == [i \in Incentives |-> incentives[i].pool]
<1>1. w \in [1 .. MaxIncentives -> Int]
  BY PaymentsNat
<1>2. at \in [1 .. MaxIncentives -> 1 .. NumPools]
  BY DEF TypeOK, Incentives, Pools
<1>3. [p \in Pools |-> PaymentTo(p, d)]
        = [p \in 1 .. NumPools |->
             Sum([i \in 1 .. MaxIncentives |-> IF at[i] = p THEN w[i] ELSE 0], MaxIncentives)]
  <2>1. \A p \in Pools : PaymentTo(p, d)
          = Sum([i \in 1 .. MaxIncentives |-> IF at[i] = p THEN w[i] ELSE 0], MaxIncentives)
    <3> TAKE p \in Pools
    <3>1. [i \in Incentives |-> IF incentives[i].pool = p THEN Payment(i, d) ELSE 0]
            = [i \in 1 .. MaxIncentives |-> IF at[i] = p THEN w[i] ELSE 0]
      BY DEF Incentives
    <3> QED BY <3>1 DEF PaymentTo
  <2> HIDE DEF w, at
  <2> QED BY <2>1 DEF Pools
<1>4. NumPools \in Nat /\ MaxIncentives \in Nat
  BY MasterchefAssumption
<1> HIDE DEF w, at
<1>5. Sum([p \in 1 .. NumPools |->
             Sum([i \in 1 .. MaxIncentives |-> IF at[i] = p THEN w[i] ELSE 0], MaxIncentives)],
          NumPools) = Sum(w, MaxIncentives)
  BY <1>1, <1>2, <1>4, SumPartition, Zenon
<1> QED BY <1>3, <1>5 DEF w

(***************************************************************************)
(* What a block pays of an incentive is no longer unspent.                 *)
(***************************************************************************)
LEMMA UnspentShrinks ==
  ASSUME IInv, TypeOK', IInv', NEW d \in Denoms, NEW b \in BlockRewards, EndBlocker(b)
  PROVE  Unspent(d)' + Sum([i \in Incentives |-> Payment(i, d)], MaxIncentives) <= Unspent(d)
<1> DEFINE f == [i \in Incentives |-> IF incentives[i].denom = d
                   THEN incentives[i].perBlock * (BlocksLeft(i)') ELSE 0]
           g == [i \in Incentives |-> IF incentives[i].denom = d
                   THEN incentives[i].perBlock * BlocksLeft(i) ELSE 0]
           w == [i \in Incentives |-> Payment(i, d)]
<1>1. height' = height + 1 /\ incentives' = incentives /\ live' \subseteq live
  BY DEF EndBlocker
<1>2. \A i \in Incentives : BlocksLeft(i) \in Nat /\ BlocksLeft(i)' \in Nat
  <2>1. \A i \in Incentives : BlocksLeft(i) \in Nat
    BY UnspentNat
  <2>2. \A i \in Incentives : BlocksLeft(i)' \in Nat
    <3> TAKE i \in Incentives
    <3>1. /\ height \in Nat /\ incentives[i].to \in Nat /\ incentives[i].from \in Nat
          /\ i \in live => incentives[i].from < incentives[i].to
      BY DEF IInv, TypeOK, Scheduled
    <3>2. BlocksLeft(i)' = IF i \in live' /\ height' <= incentives[i].to
                THEN incentives[i].to - MaxOf(incentives[i].from, height' - 1) ELSE 0
      BY <1>1 DEF BlocksLeft
    <3> QED BY <1>1, <3>1, <3>2 DEF MaxOf
  <2> QED BY <2>1, <2>2
<1>3. \A i \in Incentives : BlocksLeft(i)' + (IF Due(i) THEN 1 ELSE 0) <= BlocksLeft(i)
  <2> TAKE i \in Incentives
  <2>1. /\ height \in Nat /\ incentives[i].to \in Nat /\ incentives[i].from \in Nat
    BY DEF IInv, TypeOK
  <2>2. BlocksLeft(i)' = IF i \in live' /\ height' <= incentives[i].to
                THEN incentives[i].to - MaxOf(incentives[i].from, height' - 1) ELSE 0
    BY <1>1 DEF BlocksLeft
  <2>3. BlocksLeft(i) = IF i \in live /\ height <= incentives[i].to
                THEN incentives[i].to - MaxOf(incentives[i].from, height - 1) ELSE 0
    BY DEF BlocksLeft
  <2>4. Due(i) => i \in live /\ incentives[i].from < height /\ height <= incentives[i].to
    BY DEF Due
  <2>5. BlocksLeft(i) \in Nat
    BY <1>2
  <2>6. CASE Due(i)
    <3>1. BlocksLeft(i) = incentives[i].to - (height - 1)
      BY <2>1, <2>3, <2>4, <2>6 DEF MaxOf
    <3>2. BlocksLeft(i)' \in {0, incentives[i].to - height}
      BY <1>1, <2>1, <2>2, <2>4, <2>6 DEF MaxOf
    <3> QED BY <2>1, <2>4, <2>6, <3>1, <3>2
  <2>7. CASE ~ Due(i)
    <3>1. CASE BlocksLeft(i)' = 0
      BY <2>5, <2>7, <3>1
    <3>2. CASE i \in live' /\ height' <= incentives[i].to
      <4>1. BlocksLeft(i)' = incentives[i].to - MaxOf(incentives[i].from, height)
        BY <1>1, <2>1, <2>2, <3>2
      <4>2. BlocksLeft(i) = incentives[i].to - MaxOf(incentives[i].from, height - 1)
        BY <1>1, <2>1, <2>3, <3>2
      <4> QED BY <2>1, <2>7, <4>1, <4>2 DEF MaxOf
    <3> QED BY <2>2, <3>1, <3>2
  <2> QED BY <2>6, <2>7
<1>4. f \in [1 .. MaxIncentives -> Int] /\ g \in [1 .. MaxIncentives -> Int]
      /\ w \in [1 .. MaxIncentives -> Int]
  <2>1. \A i \in Incentives : incentives[i].perBlock \in Nat
    BY DEF IInv, TypeOK
  <2>2. \A i \in Incentives : incentives[i].perBlock * (BlocksLeft(i)') \in Int
    BY <1>2, <2>1, ProductNat
  <2>3. g \in [1 .. MaxIncentives -> Int] /\ w \in [1 .. MaxIncentives -> Int]
    BY UnspentNat, PaymentsNat DEF IInv
  <2>4. f \in [1 .. MaxIncentives -> Int]
    BY <2>2 DEF Incentives
  <2> QED BY <2>3, <2>4
<1>5. \A i \in 1 .. MaxIncentives : f[i] <= g[i] + (-1) * w[i]
  <2> TAKE i \in 1 .. MaxIncentives
  <2> DEFINE a == incentives[i].perBlock
             x == BlocksLeft(i)'
             y == BlocksLeft(i)
             one == IF Due(i) THEN 1 ELSE 0
             mine == incentives[i].denom = d
  <2>1. i \in Incentives
    BY DEF Incentives
  <2>2. a \in Nat /\ x \in Nat /\ y \in Nat /\ one \in {0, 1} /\ x + one <= y
    BY <1>2, <1>3, <2>1 DEF IInv, TypeOK
  <2>3. /\ f[i] = IF mine THEN a * x ELSE 0
        /\ g[i] = IF mine THEN a * y ELSE 0
        /\ w[i] = IF mine /\ one = 1 THEN a ELSE 0
    BY <2>1 DEF Payment
  <2> HIDE DEF a, x, y, one, mine, f, g, w
  <2>4. a * (x + one) <= a * y
    BY <2>2, ProductMonotone
  <2>5. /\ a * (x + 1) = a * x + a /\ a * x \in Int /\ a * y \in Int
        /\ a * (x + 0) = a * x /\ (-1) * a = - a /\ (-1) * 0 = 0
    BY <2>2
  <2>6. CASE one = 1
    BY <2>2, <2>3, <2>4, <2>5, <2>6
  <2>7. CASE one = 0
    BY <2>2, <2>3, <2>4, <2>5, <2>7
  <2> QED BY <2>2, <2>6, <2>7
<1>6. Unspent(d) = Sum(g, MaxIncentives) /\ Unspent(d)' = Sum(f, MaxIncentives)
  BY <1>1 DEF Unspent
<1>7. MaxIncentives \in Nat /\ -1 \in Int
  BY MasterchefAssumption
<1> HIDE DEF f, g
<1> DEFINE W == Sum(w, MaxIncentives)
<1>8. Sum(f, MaxIncentives) <= Sum(g, MaxIncentives) + (-1) * W
  <2> HIDE DEF w
  <2> QED BY <1>4, <1>5, <1>7, SumGrow, Zenon
<1>9. Sum(f, MaxIncentives) \in Int /\ Sum(g, MaxIncentives) \in Int /\ W \in Int
  <2> HIDE DEF w
  <2> QED BY <1>4, <1>7, SumInt, Zenon
<1>10. Sum(f, MaxIncentives) + W <= Sum(g, MaxIncentives)
  <2> HIDE DEF W
  <2>1. (-1) * W = - W
    BY <1>9
  <2> QED BY <1>8, <1>9, <2>1
<1> QED BY <1>6, <1>10 DEF W, w

(***************************************************************************)
(* The pools' USDC is within what was collected: their parts of the gas    *)
(* fees add up to what CollectGasFees took, before truncation, and what    *)
(* CollectDEXRevenue keeps of a pool's revenue is at least the providers'  *)
(* part of it.                                                             *)
(***************************************************************************)
LEMMA RevenueCovers ==
  ASSUME TypeOK, NEW b \in BlockRewards, NEW p \in LpPools(b), p \in Pools \ Vaults
  PROVE  b.revenue[p] * LpPortion <= PortionDen * RevenueKept(b, p)
<1> DEFINE D == PortionDen
           a == b.revenue[p]
           t == D - LpPortion - StakersPortion
           x == Portion(a, StakersPortion)
           y == Portion(a, t)
<1>1. /\ D \in Nat \ {0} /\ LpPortion \in Nat /\ StakersPortion \in Nat /\ a \in Nat /\ t \in Nat
  BY TVLs, MasterchefAssumption DEF BlockRewardsType
<1>2. p \in created \ Vaults
  BY DEF LpPools
<1>3. RevenueKept(b, p) = a - x - y
  BY <1>2 DEF RevenueKept
<1>4. a * StakersPortion \in Nat /\ a * t \in Nat
  BY <1>1, ProductNat
<1>5. x \in Nat /\ y \in Nat /\ x * D <= a * StakersPortion /\ y * D <= a * t
  BY <1>1, <1>4, TruncateNat DEF Portion
<1>6. a * D = a * LpPortion + a * StakersPortion + a * t
  <2>1. D = LpPortion + StakersPortion + t
    BY <1>1
  <2> HIDE DEF D, t
  <2> QED BY <1>1, <2>1
<1> HIDE DEF D, a, t, x, y
<1>7. D * (a - x - y) = a * D - x * D - y * D
  BY <1>1, <1>5
<1>8. a * D \in Int /\ x * D \in Int /\ y * D \in Int /\ a * LpPortion \in Int
  BY <1>1, <1>5
<1>9. a * LpPortion <= D * (a - x - y)
  BY <1>4, <1>5, <1>6, <1>7, <1>8
<1> QED BY <1>3, <1>9 DEF D, a

LEMMA USDCOfPool ==
  ASSUME TypeOK, NEW b \in BlockRewards, NEW p \in Pools, TotalTVL(b) > 0
  PROVE  (PortionDen * TotalTVL(b)) * USDCFor(b, p)
           <= (b.gas * LpPortion) * (IF p \in LpPools(b) THEN b.tvl[p] ELSE 0)
              + (PortionDen * TotalTVL(b)) * RevenueKept(b, p)
<1> DEFINE D == PortionDen
           T == TotalTVL(b)
           U == USDCFor(b, p)
           K == RevenueKept(b, p)
           G == b.gas * LpPortion
           v == b.tvl[p]
           own == IF p \in Vaults THEN 0 ELSE b.revenue[p] * LpPortion * T
<1>1. /\ D \in Nat \ {0} /\ LpPortion \in Nat /\ T \in Nat \ {0} /\ v \in Nat
      /\ b.gas \in Nat /\ b.revenue[p] \in Nat
  BY TVLs, MasterchefAssumption DEF BlockRewardsType
<1>2. U \in Nat /\ K \in Nat /\ G \in Nat
  BY <1>1, BlockAmounts, ProductNat
<1>3. D * T \in Nat \ {0} /\ (D * T) * K \in Nat
  <2>1. D * T \in Nat \ {0}
    BY <1>1
  <2> QED BY <1>2, <2>1, ProductNat
<1>4. CASE p \notin LpPools(b)
  <2>1. U = 0
    BY <1>4 DEF USDCFor
  <2> HIDE DEF D, T, U, K, G
  <2>2. (D * T) * 0 = 0 /\ G * 0 = 0
    BY <1>2, <1>3
  <2>3. (D * T) * U <= G * 0 + (D * T) * K
    BY <1>3, <2>1, <2>2
  <2> QED BY <1>4, <2>3 DEF D, T, U, K, G
<1>5. CASE p \in LpPools(b)
  <2>1. own \in Nat /\ own <= (D * T) * K
    <3>1. CASE p \in Vaults
      BY <1>3, <3>1
    <3>2. CASE p \notin Vaults
      <4> DEFINE a == b.revenue[p] * LpPortion
      <4>1. a <= D * K
        BY <1>5, <3>2, RevenueCovers
      <4>2. a \in Nat /\ D * K \in Nat
        BY <1>1, <1>2, ProductNat
      <4>3. own = a * T
        BY <3>2
      <4> HIDE DEF a, D, T, K, own
      <4>4. T * a <= T * (D * K)
        BY <1>1, <4>1, <4>2, ProductMonotone
      <4>5. T * (D * K) = (D * T) * K /\ T * a = a * T /\ a * T \in Nat
        BY <1>1, <1>2, <4>2, ProductNat
      <4> QED BY <4>3, <4>4, <4>5
    <3> QED BY <3>1, <3>2
  <2>2. U = TruncateInt(G * v + own, D * T)
    BY <1>5 DEF USDCFor
  <2>3. G * v \in Nat
    BY <1>1, <1>2, ProductNat
  <2> HIDE DEF D, T, U, K, G, v, own
  <2>4. G * v + own \in Nat
    BY <2>1, <2>3
  <2>5. U * (D * T) <= G * v + own
    BY <1>3, <2>2, <2>4, TruncateNat
  <2>6. U * (D * T) = (D * T) * U /\ (D * T) * U \in Int
    BY <1>2, <1>3
  <2>7. (D * T) * U <= G * v + (D * T) * K
    BY <1>3, <2>1, <2>3, <2>5, <2>6
  <2> QED BY <1>5, <2>7 DEF D, T, U, K, G, v
<1> QED BY <1>4, <1>5

LEMMA USDCCovered ==
  ASSUME TypeOK, NEW b \in BlockRewards
  PROVE  /\ USDCCollected(b) \in Nat
         /\ Sum([p \in Pools |-> USDCFor(b, p)], NumPools) <= USDCCollected(b)
<1> DEFINE D == PortionDen
           T == TotalTVL(b)
           G == b.gas * LpPortion
           f == [p \in Pools |-> USDCFor(b, p)]
           k == [p \in Pools |-> RevenueKept(b, p)]
           v == [p \in Pools |-> IF p \in LpPools(b) THEN b.tvl[p] ELSE 0]
           SF == Sum(f, NumPools)
           SK == Sum(k, NumPools)
<1>1. /\ D \in Nat \ {0} /\ T \in Nat /\ b.gas \in Nat /\ LpPortion \in Nat
      /\ \A p \in Pools : b.tvl[p] \in Nat
  BY TVLs, MasterchefAssumption DEF BlockRewardsType
<1>2. G \in Nat
  BY <1>1, ProductNat
<1>3. /\ f \in [1 .. NumPools -> Nat] /\ k \in [1 .. NumPools -> Nat]
      /\ v \in [1 .. NumPools -> Nat]
  BY <1>1, BlockAmounts DEF Pools
<1>4. NumPools \in Nat
  BY MasterchefAssumption
<1>5. SF \in Nat /\ SK \in Nat
  <2> HIDE DEF f, k
  <2> QED BY <1>3, <1>4, SumBound
<1>6. T = Sum(v, NumPools)
  BY DEF TotalTVL
<1>7. USDCCollected(b) = TruncateInt(G, D) + SK
  BY DEF USDCCollected, GasCollected, Portion
<1>8. TruncateInt(G, D) \in Nat
  BY <1>1, <1>2, TruncateNat
<1>9. CASE T = 0
  <2>1. \A p \in 1 .. NumPools : f[p] = 0
    <3>1. \A p \in Pools : USDCFor(b, p) = 0
      BY <1>9, TVLs DEF USDCFor
    <3> QED BY <3>1 DEF Pools
  <2>2. SF = 0
    <3> HIDE DEF f
    <3>1. f \in [1 .. NumPools -> Int]
      BY <1>3
    <3> QED BY <1>4, <2>1, <3>1, SumZero, Zenon DEF f
  <2> HIDE DEF SF, SK, TruncateInt, D, G
  <2> QED BY <1>5, <1>7, <1>8, <2>2 DEF SF
<1>10. CASE T > 0
  <2>1. \A p \in 1 .. NumPools : (D * T) * f[p] <= G * v[p] + (D * T) * k[p]
    BY <1>10, USDCOfPool DEF Pools
  <2>2. /\ f \in [1 .. NumPools -> Int] /\ k \in [1 .. NumPools -> Int]
        /\ v \in [1 .. NumPools -> Int]
    BY <1>3
  <2>3. D * T \in Int /\ G \in Int
    BY <1>1, <1>2
  <2>4. (D * T) * SF <= G * T + (D * T) * SK
    <3> HIDE DEF f, k, v, D, T, G
    <3>1. (D * T) * Sum(f, NumPools) <= G * Sum(v, NumPools) + (D * T) * Sum(k, NumPools)
      BY <1>4, <2>1, <2>2, <2>3, SumCombine, Zenon
    <3> QED BY <1>6, <3>1
  <2> HIDE DEF D, T, G, SF, SK
  <2> DEFINE x == SF - SK
  <2>5. T * (D * x) <= T * G
    <3>1. T * (D * x) = (D * T) * SF - (D * T) * SK /\ T * G = G * T
      BY <1>1, <1>2, <1>5
    <3>2. (D * T) * SF \in Int /\ (D * T) * SK \in Int /\ G * T \in Int
      BY <1>1, <1>2, <1>5
    <3> QED BY <2>4, <3>1, <3>2
  <2>6. D * x \in Int /\ x \in Int
    BY <1>1, <1>5
  <2> HIDE DEF x
  <2>7. D * x <= G
    BY <1>1, <1>2, <1>10, <2>5, <2>6, CancelFactor
  <2>8. x <= TruncateInt(G, D)
    BY <1>1, <1>2, <2>6, <2>7, TruncateLargest
  <2> HIDE DEF TruncateInt
  <2> QED BY <1>5, <1>7, <1>8, <2>8 DEF x, SF
<1>11. USDCCollected(b) \in Nat
  <2> HIDE DEF TruncateInt, SK, D, G
  <2> QED BY <1>5, <1>7, <1>8
<1> QED BY <1>1, <1>9, <1>10, <1>11

\* What a block brings of a denom covers what UpdateLPRewards pays of it.
LEMMA RewardsCovered ==
  ASSUME TypeOK, NEW b \in BlockRewards, NEW d \in Denoms, EndBlocker(b)
  PROVE  /\ [p \in Pools |-> PoolReward(b, p, d)] \in [1 .. NumPools -> Nat]
         /\ Sum([p \in Pools |-> PoolReward(b, p, d)], NumPools) \in Nat
         /\ bank[d] + Sum([p \in Pools |-> PoolReward(b, p, d)], NumPools) <= bank'[d]
         /\ bank[d] \in Nat /\ bank'[d] \in Nat
<1> DEFINE r == [p \in Pools |-> PoolReward(b, p, d)]
           e == [p \in Pools |-> EdenFor(b, p)]
           c == [p \in Pools |-> USDCFor(b, p)]
<1>1. /\ r \in [1 .. NumPools -> Nat] /\ e \in [1 .. NumPools -> Nat]
  BY BlockAmounts DEF PoolReward, Pools
<1>2. NumPools \in Nat /\ bank \in [Denoms -> Nat]
  BY MasterchefAssumption DEF TypeOK
<1>3. Sum(r, NumPools) \in Nat /\ Sum(e, NumPools) \in Nat
  <2> HIDE DEF r, e
  <2> QED BY <1>1, <1>2, SumBound
<1>4. bank' = [bank EXCEPT !["USDC"] = bank["USDC"] + USDCCollected(b),
                           !["Eden"] = bank["Eden"] + Sum(e, NumPools)]
  BY DEF EndBlocker
<1>5. USDCCollected(b) \in Nat /\ Sum(c, NumPools) <= USDCCollected(b)
  BY USDCCovered
<1> DEFINE S == Sum(r, NumPools)
           E == Sum(e, NumPools)
           C == Sum(c, NumPools)
<1>6. bank[d] \in Nat /\ S \in Nat /\ E \in Nat /\ C <= USDCCollected(b)
  BY <1>2, <1>3, <1>5
<1>7. bank[d] + S <= bank'[d] /\ bank'[d] \in Nat
  <2>1. CASE d = "USDC"
    <3>1. r = c
      BY <2>1 DEF PoolReward
    <3>2. S = C
      BY <3>1
    <3> HIDE DEF S, E, C
    <3>3. bank'[d] = bank[d] + USDCCollected(b)
      BY <1>2, <1>4, <2>1
    <3> QED BY <1>5, <1>6, <3>2, <3>3
  <2>2. CASE d = "Eden"
    <3>1. r = e
      BY <2>2 DEF PoolReward
    <3>2. S = E
      BY <3>1
    <3> HIDE DEF S, C
    <3>3. bank'[d] = bank[d] + E
      BY <1>2, <1>4, <2>2
    <3> HIDE DEF E
    <3> QED BY <1>6, <3>2, <3>3
  <2>3. CASE d # "USDC" /\ d # "Eden"
    <3>1. \A p \in 1 .. NumPools : r[p] = 0
      BY <2>3 DEF PoolReward, Pools
    <3>2. r \in [1 .. NumPools -> Int]
      BY <1>1
    <3>3. S = 0
      <4> HIDE DEF r
      <4> QED BY <1>2, <3>1, <3>2, SumZero, Zenon
    <3>4. bank'[d] = bank[d]
      BY <1>2, <1>4, <2>3
    <3> HIDE DEF S, E, C
    <3> QED BY <1>6, <3>3, <3>4
  <2> QED BY <2>1, <2>2, <2>3
<1> QED BY <1>1, <1>6, <1>7 DEF S

(***************************************************************************)
(* EndBlocker: what all shares earn is covered by what comes in and by     *)
(* what incentives no longer have to pay.                                  *)
(***************************************************************************)
LEMMA BlockFunded ==
  ASSUME FInv, IInv', NEW b \in BlockRewards, EndBlocker(b)
  PROVE  Positive' /\ Funded'
<1> USE DEF FInv, IInv
<1>1. /\ \A p \in Pools, d \in Denoms : acc'[p][d] = acc[p][d] + NewPerShare(b, p, d)
      /\ UNCHANGED <<shares, debt, pending, stale>>
  BY DEF EndBlocker
<1>2. \A p \in Pools, d \in Denoms : NewPerShare(b, p, d) \in Nat
  BY NewPerShareNat
<1>3. Positive'
  <2> SUFFICES ASSUME NEW p \in Pools, NEW u \in Users, NEW d \in Denoms \ stale[p]
               PROVE  pending[p][u][d] >= 0 /\ debt[p][u][d] <= acc'[p][d] * shares[p][u]
    BY <1>1 DEF Positive
  <2> DEFINE n == NewPerShare(b, p, d)
             s == shares[p][u]
             a == acc[p][d]
  <2>1. /\ n \in Nat /\ s \in Nat /\ a \in Nat /\ debt[p][u][d] \in Nat
        /\ acc'[p][d] = a + n /\ debt[p][u][d] <= a * s /\ pending[p][u][d] >= 0
    BY <1>1, <1>2 DEF Positive, TypeOK, LedgerType
  <2> HIDE DEF n, s, a
  <2>2. (a + n) * s = a * s + n * s /\ n * s \in Nat /\ a * s \in Nat
    BY <2>1, ProductNat
  <2> QED BY <2>1, <2>2 DEF s
<1>4. ASSUME NEW d \in Denoms, Current(d)'
      PROVE  Total(Owed(d)') + Unit * Unspent(d)' <= Unit * bank'[d]
  <2> DEFINE x == Owed(d)
             y == Owed(d)'
             n == [p \in Pools |-> NewPerShare(b, p, d)]
             g == [p \in Pools |-> PoolReward(b, p, d)]
             h == [p \in Pools |-> PaymentTo(p, d)]
             r == [p \in Pools |-> PoolReward(b, p, d) + PaymentTo(p, d)]
             R == Sum(g, NumPools)
             E == Sum(h, NumPools)
  <2>1. Current(d)
    BY <1>1, <1>4 DEF Current
  <2>2. x \in [Pools -> [Users -> Int]] /\ y \in [Pools -> [Users -> Int]]
        /\ Total(x) \in Int /\ Total(y) \in Int
    BY OwedInts, OwedIntsNext
  <2>3. /\ g \in [1 .. NumPools -> Nat] /\ R \in Nat /\ bank[d] + R <= bank'[d]
        /\ bank[d] \in Nat /\ bank'[d] \in Nat
    BY RewardsCovered
  <2>4. \A p \in Pools : PoolReward(b, p, d) \in Nat /\ PaymentTo(p, d) \in Nat
    BY PaymentsNat, BlockAmounts DEF PoolReward
  <2>5. /\ h \in [1 .. NumPools -> Nat] /\ r \in [1 .. NumPools -> Int]
        /\ n \in [Pools -> Nat] /\ shares \in [Pools -> [Users -> Nat]] /\ NumPools \in Nat
    <3>1. h \in [1 .. NumPools -> Nat] /\ r \in [1 .. NumPools -> Int]
      BY <2>4 DEF Pools
    <3>2. n \in [Pools -> Nat]
      BY <1>2
    <3> QED BY <3>1, <3>2, MasterchefAssumption DEF TypeOK
  <2>6. E \in Nat /\ E + Unspent(d)' <= Unspent(d)
    <3> DEFINE W == Sum([i \in Incentives |-> Payment(i, d)], MaxIncentives)
    <3>1. E = W
      BY PaymentsTotal
    <3>2. E \in Nat
      <4> HIDE DEF h
      <4> QED BY <2>5, SumBound
    <3>3. Unspent(d)' + W <= Unspent(d)
      BY UnspentShrinks
    <3>4. Unspent(d) \in Nat /\ Unspent(d)' \in Int
      <4>1. Unspent(d) \in Nat
        BY UnspentNat
      <4>2. Unspent(d)' \in Int
        BY UnspentNatNext
      <4> QED BY <4>1, <4>2
    <3> HIDE DEF E, W
    <3> QED BY <3>1, <3>2, <3>3, <3>4
  <2>7. Sum(r, NumPools) <= R + E
    <3>1. \A p \in 1 .. NumPools : r[p] <= g[p] + 1 * h[p]
      <4> TAKE p \in 1 .. NumPools
      <4>1. g[p] \in Nat /\ h[p] \in Nat /\ r[p] = g[p] + h[p]
        BY <2>4 DEF Pools
      <4> HIDE DEF g, h, r
      <4> QED BY <4>1
    <3>2. g \in [1 .. NumPools -> Int] /\ h \in [1 .. NumPools -> Int] /\ 1 \in Int
      BY <2>3, <2>5
    <3>3. Sum(r, NumPools) <= R + 1 * E
      <4> HIDE DEF g, h, r
      <4> QED BY <2>5, <3>1, <3>2, SumGrow, Zenon
    <3> HIDE DEF R, E
    <3>4. 1 * E = E
      BY <2>6
    <3> QED BY <3>3, <3>4
  <2>8. \A p \in Pools, v \in Users : y[p][v] = x[p][v] + n[p] * shares[p][v]
    <3> TAKE p \in Pools, v \in Users
    <3>1. /\ pending[p][v][d] \in Int /\ acc[p][d] \in Nat /\ shares[p][v] \in Nat
          /\ debt[p][v][d] \in Nat /\ OneShare \in Nat /\ n[p] \in Nat
      BY <2>5, UnitNat DEF TypeOK, LedgerType
    <3>2. acc'[p][d] = acc[p][d] + n[p]
      BY <1>1
    <3>3. X(p, v, d)' = OneShare * pending[p][v][d] + (acc[p][d] + n[p]) * shares[p][v]
                        - debt[p][v][d]
      BY <1>1, <3>2 DEF X
    <3> HIDE DEF n
    <3>4. (acc[p][d] + n[p]) * shares[p][v] = acc[p][d] * shares[p][v] + n[p] * shares[p][v]
          /\ acc[p][d] * shares[p][v] \in Int /\ n[p] * shares[p][v] \in Int
          /\ OneShare * pending[p][v][d] \in Int
      BY <3>1
    <3>5. X(p, v, d)' = X(p, v, d) + n[p] * shares[p][v]
      BY <3>1, <3>3, <3>4 DEF X
    <3> QED BY <3>5, OwedInts, OwedIntsNext
  <2>9. \A p \in Pools : n[p] * Sum(shares[p], NumUsers) <= Unit * r[p]
    <3> TAKE p \in Pools
    <3> DEFINE T == TotalCommit(p)
               a == PoolReward(b, p, d)
               e == PaymentTo(p, d)
               m == PerShare(p, a)
               q == ExternalPerShare(p, d)
    <3>1. a \in Nat /\ e \in Nat /\ T \in Nat
      BY <2>4, PerShareCovered
    <3>2. T * m <= Unit * a /\ T * q <= Unit * e
      BY <2>4, PerShareCovered, ExternalCovered
    <3>3. n[p] = m + q /\ r[p] = a + e /\ T = Sum(shares[p], NumUsers)
      BY DEF NewPerShare, TotalCommit
    <3>4. m \in Nat /\ q \in Nat
      BY <2>4, PerShareNat, ExternalNat
    <3> HIDE DEF T, a, e, m, q, n, r
    <3>5. (m + q) * T = T * m + T * q /\ Unit * (a + e) = Unit * a + Unit * e
      BY <3>1, <3>4, UnitNat
    <3>6. T * m \in Int /\ T * q \in Int /\ Unit * a \in Int /\ Unit * e \in Int
      BY <3>1, <3>4, UnitNat
    <3>7. (m + q) * T <= Unit * (a + e)
      BY <3>2, <3>5, <3>6
    <3> QED BY <3>3, <3>7
  <2>10. Total(y) <= Total(x) + Unit * Sum(r, NumPools)
    <3>1. Unit \in Int
      BY UnitNat
    <3> HIDE DEF x, y, n, r
    <3> QED BY <2>2, <2>5, <2>8, <2>9, <3>1, TotalOfPayment, Zenon
  <2>11. Total(x) + Unit * Unspent(d) <= Unit * bank[d]
    BY <2>1 DEF Funded, x
  <2> DEFINE z == Sum(r, NumPools)
             u == Unspent(d)
             w == Unspent(d)'
             B == bank[d]
             C == bank'[d]
  <2>12. /\ z \in Int /\ u \in Int /\ w \in Int /\ B \in Int /\ C \in Int /\ Unit \in Nat
         /\ z + w + B <= u + C
    <3>1. z \in Int
      <4> HIDE DEF r
      <4> QED BY <2>5, SumInt, Zenon
    <3>2. u \in Int /\ w \in Int
      BY UnspentNat, UnspentNatNext
    <3> HIDE DEF z, u, w, B, C, R, E
    <3>3. z <= R + E /\ E + w <= u /\ B + R <= C /\ R \in Nat /\ E \in Nat
          /\ B \in Nat /\ C \in Nat
      BY <2>3, <2>6, <2>7 DEF z, u, w, B, C
    <3> QED BY <3>1, <3>2, <3>3, UnitNat
  <2> HIDE DEF x, y, z, u, w, B, C, R, E
  <2>13. Unit * (z + w + B) <= Unit * (u + C)
    BY <2>12, ProductMonotone
  <2>14. /\ Unit * (z + w + B) = Unit * z + Unit * w + Unit * B
         /\ Unit * (u + C) = Unit * u + Unit * C
         /\ Unit * z \in Int /\ Unit * w \in Int /\ Unit * B \in Int /\ Unit * u \in Int
         /\ Unit * C \in Int
    BY <2>12
  <2>15. Total(y) <= Total(x) + Unit * z /\ Total(x) + Unit * u <= Unit * B
    BY <2>10, <2>11 DEF z, u, B
  <2>16. Total(y) + Unit * w <= Unit * C
    BY <2>2, <2>13, <2>14, <2>15
  <2> QED BY <2>16 DEF y, w, C
<1> QED BY <1>3, <1>4 DEF Funded, Total

-----------------------------------------------------------------------------
(***************************************************************************)
(* The start, and what touches no ledger.                                  *)
(***************************************************************************)
LEMMA InitFunded == Init => FInv
<1> SUFFICES ASSUME Init PROVE FInv
  OBVIOUS
<1>1. IInv
  BY InitIInv
<1>2. \A p \in Pools, u \in Users, d \in Denoms :
        pending[p][u][d] = 0 /\ debt[p][u][d] = 0 /\ acc[p][d] = 0 /\ shares[p][u] = 0
  BY DEF Init, ZeroLedger
<1>3. Positive
  <2> SUFFICES ASSUME NEW p \in Pools, NEW u \in Users, NEW d \in Denoms
               PROVE  pending[p][u][d] >= 0 /\ debt[p][u][d] <= acc[p][d] * shares[p][u]
    BY DEF Positive
  <2>1. pending[p][u][d] = 0 /\ debt[p][u][d] = 0 /\ acc[p][d] = 0 /\ shares[p][u] = 0
    BY <1>2
  <2> QED BY <2>1
<1>4. Funded
  <2> SUFFICES ASSUME NEW d \in Denoms
               PROVE  Total(Owed(d)) + Unit * Unspent(d) <= Unit * bank[d]
    BY DEF Funded
  <2> DEFINE x == Owed(d)
             f == [p \in Pools |-> Sum(x[p], NumUsers)]
             g == [i \in Incentives |-> IF incentives[i].denom = d
                     THEN incentives[i].perBlock * BlocksLeft(i) ELSE 0]
  <2>1. /\ x \in [Pools -> [Users -> Int]] /\ f \in [1 .. NumPools -> Int]
        /\ \A p \in Pools, u \in Users : x[p][u] = X(p, u, d)
    BY <1>1, OwedInts, TotalInt DEF IInv
  <2>2. \A p \in Pools, u \in Users : x[p][u] = 0
    <3> TAKE p \in Pools, u \in Users
    <3>1. X(p, u, d) = OneShare * 0 + 0 * 0 - 0
      BY <1>2 DEF X
    <3>2. OneShare * 0 = 0
      BY UnitNat
    <3> QED BY <2>1, <3>1, <3>2
  <2>3. NumUsers \in Nat /\ NumPools \in Nat /\ MaxIncentives \in Nat
    BY MasterchefAssumption
  <2> HIDE DEF x
  <2>4. \A p \in 1 .. NumPools : f[p] = 0
    <3> TAKE p \in 1 .. NumPools
    <3> DEFINE h == x[p]
    <3>1. p \in Pools /\ h \in [1 .. NumUsers -> Int] /\ \A u \in 1 .. NumUsers : h[u] = 0
      BY <2>1, <2>2 DEF Pools, Users
    <3> HIDE DEF h
    <3>2. Sum(h, NumUsers) = 0
      BY <2>3, <3>1, SumZero, Zenon
    <3> QED BY <3>1, <3>2 DEF h
  <2>5. Total(x) = Sum(f, NumPools)
    BY DEF Total
  <2> HIDE DEF f
  <2>6. Total(x) = 0
    <3>1. Sum(f, NumPools) = 0
      BY <2>1, <2>3, <2>4, SumZero, Zenon
    <3> QED BY <2>5, <3>1
  <2>7. Unspent(d) = 0
    <3>1. g \in [1 .. MaxIncentives -> Int]
      BY <1>1, UnspentNat
    <3>2. \A i \in 1 .. MaxIncentives : g[i] = 0
      BY DEF Init, BlocksLeft, NoIncentive, Incentives
    <3>3. Unspent(d) = Sum(g, MaxIncentives)
      BY DEF Unspent
    <3> HIDE DEF g
    <3>4. Sum(g, MaxIncentives) = 0
      BY <2>3, <3>1, <3>2, SumZero, Zenon
    <3> QED BY <3>3, <3>4
  <2>8. bank[d] = 0 /\ Unit * 0 = 0
    BY UnitNat DEF Init
  <2> QED BY <2>6, <2>7, <2>8 DEF x
<1> QED BY <1>1, <1>3, <1>4 DEF FInv

\* Nothing changes that Positive and Funded speak of.
LEMMA LedgersUntouched ==
  ASSUME FInv, UNCHANGED <<acc, debt, pending, shares, stale, bank, height, incentives, live>>
  PROVE  Positive' /\ Funded'
<1>1. Positive'
  BY DEF FInv, Positive
<1>2. \A d \in Denoms : Unspent(d)' = Unspent(d) /\ Owed(d)' = Owed(d)
                        /\ Current(d)' = Current(d)
  BY DEF Unspent, BlocksLeft, Owed, X, Current
<1>3. Funded'
  <2> SUFFICES ASSUME NEW d \in Denoms, Current(d)'
               PROVE  Total(Owed(d)') + Unit * Unspent(d)' <= Unit * bank[d]
    BY DEF Funded, Total
  <2> QED BY <1>2 DEF FInv, Funded
<1> QED BY <1>1, <1>3

(***************************************************************************)
(* The sponsor of an incentive pays all that it will pay.                  *)
(***************************************************************************)
LEMMA IncentiveFunded ==
  ASSUME FInv, IInv', NEW p \in Pools, NEW c \in ExternalDenoms,
         NEW from \in 1 .. MaxHeight, NEW to \in 1 .. MaxHeight,
         NEW perBlock \in IncentiveAmounts, AddExternalIncentive(p, c, from, to, perBlock)
  PROVE  Positive' /\ Funded'
<1> USE DEF FInv, IInv
<1> DEFINE cost == perBlock * (to - from)
<1>0. PICK n \in Incentives : n = lastIndex + 1
  BY MasterchefAssumption DEF AddExternalIncentive, TypeOK, Incentives
<1>1. /\ from \in Nat /\ to \in Nat /\ perBlock \in Nat /\ from < to /\ from >= height
      /\ height \in Nat /\ c \in Denoms
  BY MasterchefAssumption DEF AddExternalIncentive, TypeOK, Incentives, Denoms
<1>2. /\ UNCHANGED <<acc, debt, pending, shares, stale, height>>
      /\ live' = live \cup {n}
      /\ bank' = [bank EXCEPT ![c] = bank[c] + cost]
  BY <1>0 DEF AddExternalIncentive, ledger, history, BlocksFunded
<1>3. /\ incentives'[n].denom = c /\ incentives'[n].from = from /\ incentives'[n].to = to
      /\ incentives'[n].perBlock = perBlock
      /\ \A i \in Incentives : i # n => incentives'[i] = incentives[i]
  BY <1>0, <1>1 DEF AddExternalIncentive, TypeOK
<1>4. cost \in Nat
  <2>1. to - from \in Nat
    BY <1>1
  <2> QED BY <1>1, <2>1, ProductNat
<1>5. n \notin live
  BY <1>0 DEF Scheduled, TypeOK
<1>6. Positive'
  BY <1>2 DEF Positive
<1>7. ASSUME NEW d \in Denoms, Current(d)'
      PROVE  Total(Owed(d)') + Unit * Unspent(d)' <= Unit * bank'[d]
  <2> DEFINE x == Owed(d)
             g == [i \in Incentives |-> IF incentives[i].denom = d
                     THEN incentives[i].perBlock * BlocksLeft(i) ELSE 0]
             h == [i \in Incentives |-> IF incentives'[i].denom = d
                     THEN incentives'[i].perBlock * (BlocksLeft(i)') ELSE 0]
             paysNow == IF c = d THEN cost ELSE 0
  <2>1. Current(d) /\ Owed(d)' = x
    BY <1>2, <1>7 DEF Current, Owed, X
  <2>2. Total(x) \in Int /\ Total(x) + Unit * Unspent(d) <= Unit * bank[d]
    BY <2>1, OwedInts DEF Funded, x
  <2>3. g \in [1 .. MaxIncentives -> Int]
    BY UnspentNat
  <2>4. BlocksLeft(n) = 0 /\ BlocksLeft(n)' = to - from
    <3>1. BlocksLeft(n) = 0
      BY <1>5 DEF BlocksLeft
    <3>2. BlocksLeft(n)' = IF n \in live' /\ height' <= incentives'[n].to
              THEN incentives'[n].to - MaxOf(incentives'[n].from, height' - 1) ELSE 0
      BY DEF BlocksLeft
    <3>3. n \in live' /\ height' = height
      BY <1>2
    <3> QED BY <1>1, <1>3, <3>1, <3>2, <3>3 DEF MaxOf
  <2>5. g[n] = 0 /\ h[n] = paysNow
    <3>1. incentives[n].perBlock \in Nat
      BY <1>1 DEF TypeOK
    <3>2. incentives[n].perBlock * 0 = 0
      BY <3>1
    <3> QED BY <1>1, <1>3, <2>4, <3>2
  <2>6. \A i \in 1 .. MaxIncentives : i # n => h[i] = g[i]
    <3> TAKE i \in 1 .. MaxIncentives
    <3>1. i \in Incentives
      BY DEF Incentives
    <3>2. i # n => incentives'[i] = incentives[i] /\ (i \in live' <=> i \in live)
      BY <1>2, <1>3, <3>1
    <3>3. i # n => BlocksLeft(i)' = BlocksLeft(i)
      BY <1>2, <3>2 DEF BlocksLeft
    <3> QED BY <3>1, <3>2, <3>3
  <2>7. h \in [1 .. MaxIncentives -> Int]
    <3>1. \A i \in Incentives : h[i] \in Int
      <4> TAKE i \in Incentives
      <4>1. paysNow \in Int /\ g[i] \in Int
        BY <1>4, <2>3 DEF Incentives
      <4> HIDE DEF h, g, paysNow
      <4> QED BY <2>5, <2>6, <4>1 DEF Incentives
    <3> QED BY <3>1 DEF Incentives
  <2>8. Unspent(d) = Sum(g, MaxIncentives) /\ Unspent(d)' = Sum(h, MaxIncentives)
    BY DEF Unspent
  <2>9. MaxIncentives \in Nat /\ n \in 1 .. MaxIncentives
    BY MasterchefAssumption DEF Incentives
  <2>10. Sum(h, MaxIncentives) = Sum(g, MaxIncentives) + h[n] - g[n]
    <3> HIDE DEF g, h
    <3> QED BY <2>3, <2>6, <2>7, <2>9, SumUpdate, Zenon
  <2>11. Unspent(d)' = Unspent(d) + paysNow /\ Unspent(d) \in Nat /\ paysNow \in Nat
    <3>1. Unspent(d) \in Nat /\ paysNow \in Nat
      BY <1>4, UnspentNat
    <3> HIDE DEF g, h, paysNow
    <3> QED BY <2>5, <2>8, <2>10, <3>1
  <2>12. bank'[d] = bank[d] + paysNow /\ bank[d] \in Nat
    <3>1. bank \in [Denoms -> Nat]
      BY DEF TypeOK
    <3> HIDE DEF cost
    <3> QED BY <1>1, <1>2, <1>4, <3>1
  <2> HIDE DEF x, paysNow
  <2> DEFINE U == Unspent(d)
             B == bank[d]
  <2>13. /\ U \in Nat /\ B \in Nat /\ Unit \in Nat
         /\ Unspent(d)' = U + paysNow /\ bank'[d] = B + paysNow
         /\ Total(x) + Unit * U <= Unit * B
    BY <2>2, <2>11, <2>12, UnitNat
  <2> HIDE DEF U, B
  <2>14. /\ Unit * (U + paysNow) = Unit * U + Unit * paysNow
         /\ Unit * (B + paysNow) = Unit * B + Unit * paysNow
         /\ Unit * U \in Int /\ Unit * B \in Int /\ Unit * paysNow \in Int
    BY <2>11, <2>13
  <2>15. Total(x) + Unit * (U + paysNow) <= Unit * (B + paysNow)
    BY <2>2, <2>13, <2>14
  <2> QED BY <2>1, <2>13, <2>15
<1> QED BY <1>6, <1>7 DEF Funded, Total

(***************************************************************************)
(* Whole coins that may be claimed are no more than what is owed.          *)
(***************************************************************************)
LEMMA FundedClaims == FInv => ClaimsFunded
<1> SUFFICES ASSUME FInv, NEW d \in Denoms, \A p \in Pools : d \notin stale[p]
             PROVE  ClaimableOfAll(d) + Unspent(d) <= bank[d]
  BY DEF ClaimsFunded
<1> USE DEF FInv, IInv
<1> DEFINE x == Owed(d)
           row(p) == [u \in Users |-> Claimable(p, u, d)]
           C(p) == Sum(row(p), NumUsers)
           f == [p \in Pools |-> C(p)]
           g == [p \in Pools |-> Sum(x[p], NumUsers)]
<1>1. Unit \in Nat \ {0} /\ NumUsers \in Nat /\ NumPools \in Nat
  BY UnitNat, MasterchefAssumption
<1>2. x \in [Pools -> [Users -> Int]] /\ Total(x) \in Int
      /\ g \in [1 .. NumPools -> Int] /\ \A p \in Pools : Sum(x[p], NumUsers) \in Int
  BY OwedInts, TotalInt
<1>3. ASSUME NEW p \in Pools
      PROVE  C(p) \in Int /\ Unit * C(p) <= Sum(x[p], NumUsers)
  <2> DEFINE h == x[p]
             r == row(p)
  <2>1. \A u \in Users : Claimable(p, u, d) \in Nat /\ Unit * Claimable(p, u, d) <= x[p][u]
    <3> TAKE u \in Users
    <3>1. Claimable(p, u, d) \in Nat /\ Unit * Claimable(p, u, d) <= X(p, u, d)
      BY ClaimableWorth
    <3> QED BY <3>1, OwedInts
  <2>2. h \in [1 .. NumUsers -> Int] /\ r \in [1 .. NumUsers -> Int]
    BY <1>2, <2>1 DEF Users
  <2>3. \A u \in 1 .. NumUsers : Unit * r[u] <= 1 * h[u] + 0 * h[u]
    <3> TAKE u \in 1 .. NumUsers
    <3>1. Unit * r[u] <= h[u] /\ h[u] \in Int /\ r[u] \in Int
      BY <2>1, <2>2 DEF Users
    <3> HIDE DEF h, r
    <3>2. 1 * h[u] + 0 * h[u] = h[u]
      BY <3>1
    <3> QED BY <3>1, <3>2
  <2>4. 1 \in Int /\ 0 \in Int /\ Unit \in Int
    BY <1>1
  <2> HIDE DEF h, r
  <2>5. Unit * Sum(r, NumUsers) <= 1 * Sum(h, NumUsers) + 0 * Sum(h, NumUsers)
    BY <1>1, <2>2, <2>3, <2>4, SumCombine, Zenon
  <2>6. Sum(r, NumUsers) \in Int /\ Sum(h, NumUsers) \in Int
    BY <1>1, <2>2, SumInt
  <2> DEFINE R == Sum(r, NumUsers)
             H == Sum(h, NumUsers)
  <2>7. R \in Int /\ H \in Int /\ Unit * R <= 1 * H + 0 * H
    BY <2>5, <2>6
  <2> HIDE DEF R, H
  <2>8. 1 * H + 0 * H = H
    BY <2>7
  <2>9. R \in Int /\ Unit * R <= H
    BY <2>7, <2>8
  <2> QED BY <2>9 DEF R, H, r, h
<1> HIDE DEF C
<1>4. f \in [1 .. NumPools -> Int] /\ \A p \in 1 .. NumPools : Unit * f[p] <= 1 * g[p] + 0 * g[p]
  <2>1. f \in [1 .. NumPools -> Int]
    BY <1>3 DEF Pools
  <2>2. ASSUME NEW p \in 1 .. NumPools PROVE Unit * f[p] <= 1 * g[p] + 0 * g[p]
    <3>1. Unit * f[p] <= g[p] /\ g[p] \in Int
      BY <1>2, <1>3 DEF Pools
    <3> HIDE DEF f, g
    <3>2. 1 * g[p] + 0 * g[p] = g[p]
      BY <3>1
    <3> QED BY <3>1, <3>2
  <2> QED BY <2>1, <2>2
<1>5. Unit * Sum(f, NumPools) <= 1 * Sum(g, NumPools) + 0 * Sum(g, NumPools)
  <2>1. 1 \in Int /\ 0 \in Int /\ Unit \in Int
    BY <1>1
  <2> HIDE DEF f, g
  <2> QED BY <1>1, <1>2, <1>4, <2>1, SumCombine, Zenon
<1>6. ClaimableOfAll(d) = Sum(f, NumPools) /\ Total(x) = Sum(g, NumPools)
  BY DEF ClaimableOfAll, Total, C
<1>7. Sum(f, NumPools) \in Int
  <2> HIDE DEF f
  <2> QED BY <1>1, <1>4, SumInt
<1> DEFINE F == ClaimableOfAll(d)
           U == Unspent(d)
           B == bank[d]
<1>8. F \in Int /\ U \in Nat /\ B \in Nat
  BY <1>6, <1>7, UnspentNat DEF TypeOK
<1>9. Unit * F <= 1 * Total(x) + 0 * Total(x)
  <2> HIDE DEF f, g, x
  <2> QED BY <1>5, <1>6
<1>10. Total(x) + Unit * U <= Unit * B
  BY DEF Funded, Current
<1> HIDE DEF F, U, B, x, f, g
<1>11. 1 * Total(x) + 0 * Total(x) = Total(x)
  BY <1>2
<1>12. Unit * (F + U) = Unit * F + Unit * U /\ Unit * F \in Int /\ Unit * U \in Int
       /\ Unit * B \in Int
  BY <1>1, <1>8
<1>13. Unit * (F + U) <= Unit * B
  BY <1>2, <1>9, <1>10, <1>11, <1>12
<1>14. F + U <= B
  BY <1>1, <1>8, <1>13, CancelFactor
<1> QED BY <1>14 DEF F, U, B

LEMMA FInvariance == Spec => []FInv
<1>1. Init => FInv
  BY InitFunded
<1>2. IInv /\ [Next]_vars => IInv'
  BY StepIInv
<1>3. FInv /\ [Next]_vars => FInv'
  <2> SUFFICES ASSUME FInv, [Next]_vars PROVE FInv'
    OBVIOUS
  <2>1. IInv' /\ TypeOK' /\ TypeOK
    BY <1>2 DEF FInv, IInv
  <2>2. Positive' /\ Funded'
    <3>1. ASSUME NEW u \in Users, NEW p \in Pools, NEW amount \in ShareAmounts,
                 Deposit(u, p, amount)
          PROVE  Positive' /\ Funded'
      <4>1. amount \in Int /\ shares[p][u] + amount \in Nat
        BY <2>1, MasterchefAssumption DEF TypeOK
      <4> QED BY <2>1, <3>1, <4>1, SettleFunded DEF Deposit, program
    <3>2. ASSUME NEW u \in Users, NEW p \in Pools, NEW amount \in ShareAmounts,
                 Withdraw(u, p, amount)
          PROVE  Positive' /\ Funded'
      <4>1. /\ shares[p][u] \in Nat /\ amount \in Nat /\ - amount \in Int
            /\ shares[p][u] + (- amount) \in Nat
            /\ shares[p][u] - amount = shares[p][u] + (- amount)
        BY <2>1, <3>2, MasterchefAssumption DEF Withdraw, CanDeduct, TypeOK
      <4> QED BY <2>1, <3>2, <4>1, SettleFunded DEF Withdraw, program
    <3>3. ASSUME NEW u \in Users, NEW P \in (SUBSET Pools) \ {{}}, ClaimRewards(u, P)
          PROVE  Positive' /\ Funded'
      BY <2>1, <3>3, ClaimFunded
    <3>4. ASSUME \/ \E p \in Pools : CreatePool(p)
                 \/ \E p \in Pools, enable \in BOOLEAN : TogglePoolEdenRewards(p, enable)
                 \/ \E d \in ExternalDenoms, isSupported \in BOOLEAN :
                       AddExternalRewardDenom(d, isSupported)
                 \/ UNCHANGED vars
          PROVE  Positive' /\ Funded'
      <4>1. UNCHANGED <<acc, debt, pending, shares, stale, bank, height, incentives, live>>
        BY <3>4 DEF CreatePool, TogglePoolEdenRewards, AddExternalRewardDenom,
                    vars, poolState, ledger, program, history
      <4> QED BY <4>1, LedgersUntouched
    <3>5. ASSUME NEW p \in Pools, NEW d \in ExternalDenoms,
                 NEW from \in 1 .. MaxHeight, NEW to \in 1 .. MaxHeight,
                 NEW perBlock \in IncentiveAmounts, AddExternalIncentive(p, d, from, to, perBlock)
          PROVE  Positive' /\ Funded'
      BY <2>1, <3>5, IncentiveFunded
    <3>6. ASSUME NEW b \in BlockRewards, EndBlocker(b) PROVE Positive' /\ Funded'
      BY <2>1, <3>6, BlockFunded
    <3> QED BY <3>1, <3>2, <3>3, <3>4, <3>5, <3>6 DEF Next
  <2> QED BY <2>1, <2>2 DEF FInv
<1> QED BY <1>1, <1>3, PTL DEF Spec

(***************************************************************************)
(* The module account of x/masterchef has what all accounts may claim and  *)
(* what running incentives still have to pay, for every number of pools,   *)
(* accounts and incentives and whatever the shares of a block round to.    *)
(***************************************************************************)
THEOREM ClaimsFundedHolds == Spec => []ClaimsFunded
BY FInvariance, FundedClaims, PTL
=============================================================================
