---------------------------- MODULE StableStake ----------------------------
(***************************************************************************)
(* The lending vaults of x/stablestake.                                    *)
(*                                                                         *)
(* Depositors bond a stablecoin into a vault and hold shares of it;        *)
(* leveraged-LP positions borrow from the vault and pay interest; the      *)
(* interest rate follows the vault's utilisation, one step per block.  A   *)
(* transaction is one action: a handler that returns an error or panics    *)
(* changes nothing, so its failure is the action not being enabled.        *)
(*                                                                         *)
(* Vault pools are numbered in creation order, position addresses and      *)
(* depositors 1, 2, ...; the bank balances of depositors and positions are *)
(* not kept, a send that their balance would refuse is a step not taken.   *)
(***************************************************************************)
EXTENDS Integers, ElysMath

CONSTANTS
    Denoms,          \* deposit denoms
    NoDenom,         \* the denom of a pool that does not exist
    MaxPools,        \* bound: number of vault pools
    NumBonders,      \* depositors are 1 .. NumBonders
    NumPositions,    \* leveragelp position addresses are 1 .. NumPositions
    AmmPools,        \* AMM pools that positions provide liquidity to
    AmmPoolOf,       \* [Positions -> AmmPools], the AMM pool of a position
    BondAmounts,     \* amounts of MsgBond and MsgUnbond
    LoanAmounts,     \* amounts passed to Borrow and Repay
    PoolParams,      \* parameter records of MsgAddPool and MsgUpdatePool
    MaxBondable,     \* GetMaxBondableAmount, what the AMM pools hold of the denom
    RateOne,         \* 1.0 in units of an interest rate
    RatioOne,        \* 1.0 in units of a ratio
    Year,            \* seconds in 365 days
    BlockGaps,       \* seconds between two blocks
    NumBlocks,       \* numBlocks, how many blocks of interest data are kept
    MaxHeight        \* bound: last block height

PoolIds   == 1 .. MaxPools
Bonders   == 1 .. NumBonders
Positions == 1 .. NumPositions

ASSUME SizesAssumption ==
    /\ MaxPools \in Nat /\ NumBonders \in Nat /\ NumPositions \in Nat
    /\ NumBlocks \in Nat \ {0} /\ MaxHeight \in Nat /\ MaxBondable \in Nat

ASSUME AmountsAssumption ==
    /\ BondAmounts \subseteq Nat \ {0}
    /\ LoanAmounts \subseteq Nat \ {0}

ASSUME UnitsAssumption ==
    /\ RateOne \in Nat \ {0} /\ RatioOne \in Nat \ {0} /\ Year \in Nat \ {0}
    /\ BlockGaps \subseteq Nat

ASSUME NamesAssumption ==
    /\ NoDenom \notin Denoms
    /\ AmmPoolOf \in [Positions -> AmmPools]

(***************************************************************************)
(* What MsgAddPool.ValidateBasic and MsgUpdatePool.ValidateBasic accept.   *)
(***************************************************************************)
ParamRecord ==
    [rate : Nat, rmin : Nat, rmax : Nat, rinc : Nat, rdec : Nat,
     hgf : Nat, mlr : Nat, mwr : Nat]

ASSUME ParamsAssumption ==
    /\ PoolParams \subseteq ParamRecord
    /\ \A prm \in PoolParams : prm.rmin <= prm.rmax

VARIABLES
    height,       \* ctx.BlockHeight()
    time,         \* ctx.BlockTime().Unix()
    pools,        \* types.Pool, by id
    cash,         \* the module account's balance of each denom
    supply,       \* bank supply of each pool's share denom
    shares,       \* committed shares of each depositor
    debts,        \* types.Debt, by position and pool
    interest,     \* types.InterestBlock: cumulative rate, by pool and height
    liabilities,  \* types.AmmPool.TotalLiabilities, by AMM pool and denom
    writtenOff    \* history: debt deleted unpaid by CloseOnUnableToRepay

vars == <<height, time, pools, cash, supply, shares, debts, interest,
          liabilities, writtenOff>>

Pool ==
    [denom : Denoms \cup {NoDenom}, net : Nat, rate : Nat, rmin : Nat,
     rmax : Nat, rinc : Nat, rdec : Nat, hgf : Nat, mlr : Nat, mwr : Nat]

Debt ==
    [borrowed : Nat, stacked : Nat, paid : Nat, lastBlock : Nat, lastTime : Nat]

NoPool ==
    [denom |-> NoDenom, net |-> 0, rate |-> 0, rmin |-> 0, rmax |-> 0,
     rinc |-> 0, rdec |-> 0, hgf |-> 0, mlr |-> 0, mwr |-> 0]

\* No debt is stored for the position: heights start at one, so no stored
\* debt looks like this.
NoDebt ==
    [borrowed |-> 0, stacked |-> 0, paid |-> 0, lastBlock |-> 0, lastTime |-> 0]

HasPool(p) == pools[p].denom # NoDenom

(***************************************************************************)
(* HasPoolByDenom and GetNextPoolId.                                       *)
(***************************************************************************)
HasPoolByDenom(d) == \E p \in PoolIds : pools[p].denom = d

IsNextPoolId(p) ==
    /\ ~ HasPool(p)
    /\ \A q \in PoolIds : HasPool(q) <=> q < p

(***************************************************************************)
(* Debt.GetTotalLiablities.                                                *)
(***************************************************************************)
TotalLiabilities(debt) == debt.borrowed + debt.stacked - debt.paid

Init ==
    /\ height = 1
    /\ time = 0
    /\ pools = [p \in PoolIds |-> NoPool]
    /\ cash = [d \in Denoms |-> 0]
    /\ supply = [p \in PoolIds |-> 0]
    /\ shares = [p \in PoolIds |-> [u \in Bonders |-> 0]]
    /\ debts = [p \in PoolIds |-> [b \in Positions |-> NoDebt]]
    /\ interest = [p \in PoolIds |-> [h \in {} |-> 0]]
    /\ liabilities = [a \in AmmPools |-> [d \in Denoms |-> 0]]
    /\ writtenOff = [p \in PoolIds |-> 0]
-----------------------------------------------------------------------------
(***************************************************************************)
(* Governance.                                                             *)
(***************************************************************************)
AddPool(d, prm) ==
    /\ ~ HasPoolByDenom(d)
    /\ \E p \in PoolIds :
         /\ IsNextPoolId(p)
         /\ pools' = [pools EXCEPT ![p] =
              [denom |-> d, net |-> 0, rate |-> prm.rate, rmin |-> prm.rmin,
               rmax |-> prm.rmax, rinc |-> prm.rinc, rdec |-> prm.rdec,
               hgf |-> prm.hgf, mlr |-> prm.mlr, mwr |-> prm.mwr]]
    /\ UNCHANGED <<height, time, cash, supply, shares, debts, interest,
                   liabilities, writtenOff>>

\* The rate itself and MaxWithdrawRatio are not updated.
UpdatePool(p, prm) ==
    /\ HasPool(p)
    /\ pools' = [pools EXCEPT
         ![p].rmin = prm.rmin, ![p].rmax = prm.rmax, ![p].rinc = prm.rinc,
         ![p].rdec = prm.rdec, ![p].hgf = prm.hgf, ![p].mlr = prm.mlr]
    /\ UNCHANGED <<height, time, cash, supply, shares, debts, interest,
                   liabilities, writtenOff>>
-----------------------------------------------------------------------------
(***************************************************************************)
(* BeginBlocker: every pool's rate moves one step towards the rate its     *)
(* utilisation calls for, and the cumulative rate gets the new block's     *)
(* entry; the entry numBlocks old is dropped.  Debts are not touched.      *)
(***************************************************************************)
TargetRate(pool, balance) ==
    LET maxAllowed == pool.net * (pool.mlr * pool.hgf)
        borrowed   == MinOf((pool.net - balance) * (RatioOne * RatioOne), maxAllowed)
    IN  IF maxAllowed = 0 THEN pool.rmin
        ELSE pool.rmin + (borrowed * (pool.rmax - pool.rmin)) \div maxAllowed

InterestRateComputationForPool(pool, balance) ==
    LET target == TargetRate(pool, balance)
        moved  == MaxOf(MinOf(target, pool.rate + pool.rinc), pool.rate - pool.rdec)
    IN  IF pool.net = 0 THEN pool.rate
        ELSE MaxOf(MinOf(moved, pool.rmax), pool.rmin)

SetInterestForPool(blocks, h, rate) ==
    [k \in DOMAIN blocks \cup {h} |->
        IF k # h THEN blocks[k]
        ELSE IF h - 1 \in DOMAIN blocks THEN rate + blocks[h - 1] ELSE rate]

DeleteInterestForPool(blocks, h) ==
    [k \in DOMAIN blocks \ {h - NumBlocks} |-> blocks[k]]

NewRate(p) == InterestRateComputationForPool(pools[p], cash[pools[p].denom])

BeginBlock(gap) ==
    /\ height < MaxHeight
    /\ height' = height + 1
    /\ time' = time + gap
    /\ pools' = [p \in PoolIds |->
         IF HasPool(p) THEN [pools[p] EXCEPT !.rate = NewRate(p)] ELSE pools[p]]
    /\ interest' = [p \in PoolIds |->
         IF HasPool(p)
         THEN DeleteInterestForPool(
                SetInterestForPool(interest[p], height + 1, NewRate(p)), height + 1)
         ELSE interest[p]]
    /\ UNCHANGED <<cash, supply, shares, debts, liabilities, writtenOff>>
-----------------------------------------------------------------------------
(***************************************************************************)
(* Bond and Unbond.  The redemption rate is net/supply; it is taken as one *)
(* when there are no shares yet or nothing behind them.                    *)
(***************************************************************************)
\* Mutant: one share per coin, whatever a share is worth.
SharesAtPar(p, amount) == {amount}

SharesFor(p, amount) ==
    IF supply[p] = 0 \/ pools[p].net = 0
    THEN {amount}
    ELSE RoundInt(amount * supply[p], pools[p].net)

Bond(u, p, amount) ==
    /\ HasPool(p)
    /\ pools[p].net + amount <= MaxBondable
    /\ \E share \in SharesFor(p, amount) :
         /\ supply' = [supply EXCEPT ![p] = @ + share]
         /\ shares' = [shares EXCEPT ![p][u] = @ + share]
    /\ cash' = [cash EXCEPT ![pools[p].denom] = @ + amount]
    /\ pools' = [pools EXCEPT ![p].net = @ + amount]
    /\ UNCHANGED <<height, time, debts, interest, liabilities, writtenOff>>

RedemptionFor(p, share) == RoundInt(share * pools[p].net, supply[p])

\* What Unbond calls borrowed: the part of the net amount that is not in cash.
Lent(p) == pools[p].net - cash[pools[p].denom]

\* Mutant: nothing checked on the way out.
MayAlwaysWithdraw(p, redemption) == TRUE

\* The checks on the way out; an empty coin cannot be sent.
MayWithdraw(p, redemption) ==
    /\ Lent(p) >= 0
    /\ Lent(p) > 0 =>
         /\ pools[p].net # redemption
         /\ Lent(p) * RatioOne <= pools[p].mwr * (pools[p].net - redemption)
    /\ redemption > 0
    /\ redemption <= cash[pools[p].denom]

Unbond(u, p, share) ==
    /\ HasPool(p)
    /\ share <= shares[p][u]
    /\ \E redemption \in RedemptionFor(p, share) :
         /\ MayWithdraw(p, redemption)
         /\ cash' = [cash EXCEPT ![pools[p].denom] = @ - redemption]
         /\ pools' = [pools EXCEPT ![p].net = @ - redemption]
    /\ supply' = [supply EXCEPT ![p] = @ - share]
    /\ shares' = [shares EXCEPT ![p][u] = @ - share]
    /\ UNCHANGED <<height, time, debts, interest, liabilities, writtenOff>>
-----------------------------------------------------------------------------
(***************************************************************************)
(* Interest.  It accrues lazily: a debt is brought up to date by whichever *)
(* operation touches it next, from the cumulative rates of the block it    *)
(* was last brought up to date in and of the current one.                  *)
(***************************************************************************)
\* Mutant: the rates before the debt's last update are charged again.
InterestSinceFirstBlock(p, start, startTime, borrowed) ==
    IF start # height /\ {start, height} \subseteq DOMAIN interest[p]
    THEN RoundInt(borrowed * (interest[p][height] * (time - startTime)),
                  (height - start) * (RateOne * Year))
    ELSE {0}

GetInterestForPool(p, start, startTime, borrowed) ==
    LET blocks  == interest[p]
        elapsed == time - startTime
    IN  IF start = height THEN {0}
        ELSE IF {start, height} \subseteq DOMAIN blocks
        THEN RoundInt(borrowed * ((blocks[height] - blocks[start]) * elapsed),
                      (height - start) * (RateOne * Year))
        ELSE IF /\ start \notin DOMAIN blocks
                /\ height \in DOMAIN blocks
                /\ \A h \in DOMAIN blocks : h > start
        THEN RoundInt(borrowed * (blocks[height] * elapsed),
                      (height - start + 1) * (RateOne * Year))
        ELSE RoundInt(borrowed * (pools[p].rate * elapsed), RateOne * Year)

getDebt(b, p) ==
    IF debts[p][b] # NoDebt THEN debts[p][b]
    ELSE [NoDebt EXCEPT !.lastBlock = height, !.lastTime = time]

NewInterest(b, p) ==
    GetInterestForPool(p, getDebt(b, p).lastBlock, getDebt(b, p).lastTime,
                       getDebt(b, p).borrowed)

\* The debt with newly accrued interest, as UpdateInterestStacked stores it.
UpdateInterestStacked(b, p, newInterest) ==
    [getDebt(b, p) EXCEPT !.stacked = @ + newInterest, !.lastBlock = height, !.lastTime = time]

\* Mutant: the AMM pool's liabilities miss the new interest.
SetDebtInterestNotLiable(b, p, debt, newInterest, delta) ==
    /\ debts' = [debts EXCEPT ![p][b] = debt]
    /\ pools' = [pools EXCEPT ![p].net = @ + newInterest]
    /\ liabilities' = [liabilities EXCEPT ![AmmPoolOf[b]][pools[p].denom] =
                         @ + delta - newInterest]

\* The effect shared by everything that moves a debt: delta is what the AMM
\* pool's liabilities change by, newInterest what the pool's NetAmount gains.
SetDebt(b, p, debt, newInterest, delta) ==
    /\ debts' = [debts EXCEPT ![p][b] = debt]
    /\ pools' = [pools EXCEPT ![p].net = @ + newInterest]
    /\ liabilities[AmmPoolOf[b]][pools[p].denom] + delta >= 0
    /\ liabilities' = [liabilities EXCEPT ![AmmPoolOf[b]][pools[p].denom] = @ + delta]

UpdateInterest(b, p) ==
    /\ HasPool(p)
    /\ \E i \in NewInterest(b, p) :
         SetDebt(b, p, UpdateInterestStacked(b, p, i), i, i)
    /\ UNCHANGED <<height, time, cash, supply, shares, interest, writtenOff>>

(***************************************************************************)
(* Borrow tests the utilisation before it accrues the debt's interest, and *)
(* hands out the coins last.                                               *)
(***************************************************************************)
BelowMaxLeverage(p, amount) ==
    (Lent(p) + amount) * RatioOne <= pools[p].net * pools[p].mlr

Borrow(b, p, amount) ==
    /\ HasPool(p)
    /\ BelowMaxLeverage(p, amount)
    /\ \E i \in NewInterest(b, p) :
         SetDebt(b, p, [UpdateInterestStacked(b, p, i) EXCEPT !.borrowed = @ + amount],
                 i, i + amount)
    /\ amount <= cash[pools[p].denom]
    /\ cash' = [cash EXCEPT ![pools[p].denom] = @ - amount]
    /\ UNCHANGED <<height, time, supply, shares, interest, writtenOff>>

(***************************************************************************)
(* Repay pays the interest first, and deletes a debt whose principal is    *)
(* repaid.                                                                 *)
(***************************************************************************)
\* Mutant: the principal is paid first.
RepaidPrincipalFirst(debt, amount) ==
    LET principal == MinOf(debt.borrowed, amount)
    IN  [debt EXCEPT !.borrowed = @ - principal, !.paid = @ + (amount - principal)]

Repaid(debt, amount) ==
    LET interestPay == MinOf(debt.stacked - debt.paid, amount)
    IN  [debt EXCEPT !.borrowed = @ - (amount - interestPay), !.paid = @ + interestPay]

Repay(b, p, amount) ==
    /\ HasPool(p)
    /\ \E i \in NewInterest(b, p) :
         LET debt == Repaid(UpdateInterestStacked(b, p, i), amount)
         IN  /\ debt.borrowed >= 0
             /\ SetDebt(b, p, IF debt.borrowed = 0 THEN NoDebt ELSE debt, i, i - amount)
    /\ cash' = [cash EXCEPT ![pools[p].denom] = @ + amount]
    /\ UNCHANGED <<height, time, supply, shares, interest, writtenOff>>

(***************************************************************************)
(* CloseOnUnableToRepay deletes what a closed position could not pay.  The *)
(* pool's NetAmount keeps the loss.                                        *)
(***************************************************************************)
CloseOnUnableToRepay(b, p) ==
    /\ HasPool(p)
    /\ \E i \in NewInterest(b, p) :
         LET unpaid == TotalLiabilities(UpdateInterestStacked(b, p, i))
         IN  /\ SetDebt(b, p, NoDebt, i, i - unpaid)
             /\ writtenOff' = [writtenOff EXCEPT ![p] = @ + unpaid]
    /\ UNCHANGED <<height, time, cash, supply, shares, interest>>
-----------------------------------------------------------------------------
Next ==
    \/ \E d \in Denoms, prm \in PoolParams : AddPool(d, prm)
    \/ \E p \in PoolIds, prm \in PoolParams : UpdatePool(p, prm)
    \/ \E gap \in BlockGaps : BeginBlock(gap)
    \/ \E u \in Bonders, p \in PoolIds, amount \in BondAmounts : Bond(u, p, amount)
    \/ \E u \in Bonders, p \in PoolIds, share \in BondAmounts : Unbond(u, p, share)
    \/ \E b \in Positions, p \in PoolIds : UpdateInterest(b, p)
    \/ \E b \in Positions, p \in PoolIds, amount \in LoanAmounts : Borrow(b, p, amount)
    \/ \E b \in Positions, p \in PoolIds, amount \in LoanAmounts : Repay(b, p, amount)
    \/ \E b \in Positions, p \in PoolIds : CloseOnUnableToRepay(b, p)

Spec == Init /\ [][Next]_vars
-----------------------------------------------------------------------------
(***************************************************************************)
(* Type correctness.                                                       *)
(***************************************************************************)
TypeOK ==
    /\ height \in Nat
    /\ time \in Nat
    /\ pools \in [PoolIds -> Pool]
    /\ cash \in [Denoms -> Nat]
    /\ supply \in [PoolIds -> Nat]
    /\ shares \in [PoolIds -> [Bonders -> Nat]]
    /\ debts \in [PoolIds -> [Positions -> Debt]]
    /\ DOMAIN interest = PoolIds
    /\ \A p \in PoolIds : interest[p] \in [DOMAIN interest[p] -> Nat]
    /\ \A p \in PoolIds : DOMAIN interest[p] \subseteq Nat
    /\ liabilities \in [AmmPools -> [Denoms -> Nat]]
    /\ writtenOff \in [PoolIds -> Nat]

(***************************************************************************)
(* What the positions owe a vault, and what those of one AMM pool owe it.  *)
(***************************************************************************)
Owed(p) ==
    [b \in Positions |-> TotalLiabilities(debts[p][b])]

OwedThrough(p, a) ==
    [b \in Positions |-> IF AmmPoolOf[b] = a THEN TotalLiabilities(debts[p][b]) ELSE 0]

(***************************************************************************)
(* A vault's NetAmount, on which share prices, the borrowing limit and the *)
(* interest rate are computed, is its cash plus every debt owed to it plus *)
(* the debts written off: each of Bond, Unbond, Borrow, Repay and every    *)
(* lazy accrual updates it separately (msg_server_bond.go, debt.go).       *)
(***************************************************************************)
VaultAccounting ==
    \A p \in PoolIds : HasPool(p) =>
        pools[p].net = cash[pools[p].denom] + Sum(Owed(p), NumPositions) + writtenOff[p]

(***************************************************************************)
(* The liabilities x/stablestake keeps per AMM pool (amm_pool.go), from    *)
(* which the AMM values that pool, are those of the positions in it; so    *)
(* SubLiabilities never subtracts more than there is, which would panic.   *)
(***************************************************************************)
LiabilitiesMatchDebts ==
    \A p \in PoolIds, a \in AmmPools : HasPool(p) =>
        liabilities[a][pools[p].denom] = Sum(OwedThrough(p, a), NumPositions)

(***************************************************************************)
(* A vault never has more cash than NetAmount: the "negative borrowed      *)
(* amount" error of Unbond cannot happen, and the utilisation that drives  *)
(* the interest rate is never negative.                                    *)
(***************************************************************************)
NetCoversCash ==
    \A p \in PoolIds : HasPool(p) => cash[pools[p].denom] <= pools[p].net

(***************************************************************************)
(* Two vaults never share a deposit denom: the module account's balance of *)
(* a denom is then the cash of exactly one vault (AddPool, HasPoolByDenom).*)
(***************************************************************************)
OneVaultPerDenom ==
    \A p, q \in PoolIds : HasPool(p) /\ pools[p].denom = pools[q].denom => p = q

(***************************************************************************)
(* A stored debt is consistent: no more interest is paid than accrued, and *)
(* a debt without principal owes nothing, so that Repay, which deletes a   *)
(* debt when its principal reaches zero, forgives no interest.             *)
(***************************************************************************)
DebtConsistent ==
    \A p \in PoolIds, b \in Positions :
        LET debt == debts[p][b]
        IN  /\ debt.paid <= debt.stacked
            /\ debt.borrowed = 0 => debt.stacked = debt.paid
            /\ debt.lastBlock <= height /\ debt.lastTime <= time

(***************************************************************************)
(* The cumulative rate never decreases with the height, pruned or not:     *)
(* the difference that GetInterestForPool charges is never negative, which *)
(* would panic in NewCoin and lock the position's debt.                    *)
(***************************************************************************)
CumulativeRateMonotone ==
    \A p \in PoolIds : \A h, k \in DOMAIN interest[p] :
        h <= k => interest[p][h] <= interest[p][k] /\ k <= height

(***************************************************************************)
(* The share supply of a vault is what the depositors hold.                *)
(***************************************************************************)
SharesMatchSupply ==
    \A p \in PoolIds : supply[p] = Sum(shares[p], NumBonders)

(***************************************************************************)
(* No step lowers the value of a share, net/supply, by more than rounding: *)
(* a bond leaves the others at most half a share short, an unbond at most  *)
(* half a coin, and no borrower's operation lowers it at all.              *)
(***************************************************************************)
ShareValueKept(p) ==
    /\ pools[p].net <= pools'[p].net \/ supply'[p] < supply[p]
    /\ 2 * (pools[p].net * supply'[p] - pools'[p].net * supply[p])
         <= IF supply'[p] > supply[p] THEN pools[p].net
            ELSE IF supply'[p] < supply[p] THEN supply[p] ELSE 0

SharePriceFair ==
    [][\A p \in PoolIds : HasPool(p) /\ supply[p] > 0 => ShareValueKept(p)]_vars

(***************************************************************************)
(* Interest is never charged at more than the highest rate the vault may   *)
(* be set to, over the time since the debt was last brought up to date     *)
(* (half a coin of rounding aside).                                        *)
(***************************************************************************)
Charge(p, b) ==
    LET before == debts[p][b]
        after  == debts'[p][b]
    IN  NoDebt \notin {before, after} =>
          \E prm \in PoolParams :
             2 * (after.stacked - before.stacked) * (RateOne * Year)
               <= 2 * before.borrowed * (prm.rmax * (time - before.lastTime)) + RateOne * Year

InterestWithinMaxRate ==
    [][\A p \in PoolIds, b \in Positions : Charge(p, b)]_vars

-----------------------------------------------------------------------------
(***************************************************************************)
(* The vaults seen from outside, as LendingFund describes them.            *)
(***************************************************************************)
CashOf(p) == IF HasPool(p) THEN cash[pools[p].denom] ELSE 0
BookOf(p) == IF HasPool(p) THEN pools[p].net ELSE 0

Fund == INSTANCE LendingFund WITH
    Vaults <- PoolIds, Depositors <- Bonders, Borrowers <- Positions,
    cash <- [p \in PoolIds |-> CashOf(p)],
    book <- [p \in PoolIds |-> BookOf(p)],
    owed <- [p \in PoolIds |-> Owed(p)],
    lost <- writtenOff, supply <- supply, held <- shares

(***************************************************************************)
(* Whatever governance, the rates and the pruning of interest data do, the *)
(* vaults are funds: a block or a reconfiguration moves nobody's money, a  *)
(* debt falls by what is paid, and only interest and deposits add to what  *)
(* the depositors own (all of msg_server_bond.go, msg_server_unbond.go and *)
(* debt.go).                                                               *)
(***************************************************************************)
ImplementsFund == Fund!Spec
=============================================================================
