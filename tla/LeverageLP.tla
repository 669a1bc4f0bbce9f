----------------------------- MODULE LeverageLP -----------------------------
(***************************************************************************)
(* The leveraged liquidity positions of x/leveragelp.                      *)
(*                                                                         *)
(* A position joins an AMM pool with its owner's collateral and a loan     *)
(* from a lending vault (module StableStake), and owes the loan with       *)
(* interest.  Its owner, a liquidation bot or the sweep that every block   *)
(* begins with closes it: enough of its LP shares are sold to repay the    *)
(* loan, the rest goes to the owner.                                       *)
(*                                                                         *)
(* The vault and the AMM are external here.  debt is what the position     *)
(* owes with the interest up to now; the value of an LP share moves        *)
(* freely.  The vault may refuse a loan and the AMM may refuse an exit     *)
(* (its reserves too low, the shares still locked): the step is then not   *)
(* taken, or the sweep leaves the position as it is.  The collateral's     *)
(* amount, and the health and liabilities stored with a position, are read *)
(* by queries only and left out.                                           *)
(***************************************************************************)
EXTENDS Integers, FiniteSets, ElysMath

CONSTANTS
    NumIds,          \* bound: number of positions ever opened
    NumOwners,       \* owners are 1 .. NumOwners, in the order of their addresses
    Candidates,      \* the owners governance may whitelist
    AmmPools,        \* oracle AMM pools
    Collaterals,     \* collateral amounts of MsgOpen
    Leverages,       \* leverages of MsgOpen, in units of 1/RatioOne
    StopLossPrices,  \* stop-loss prices, 0 for none
    CloseAmounts,    \* LP amounts of MsgClose
    PoolParams,      \* parameters of MsgAddPool and MsgUpdatePool
    ParamSets,       \* what governance may set the module's parameters to
    Prices,          \* values of an LP share, in units of 1/PriceOne coin
    PriceOne,
    RatioOne,        \* 1.0 in units of a leverage, a ratio or the safety factor
    OtherShares,     \* LP shares of ordinary providers, the values they move between
    MaxDebt,         \* bound: interest stops when a debt is this large
    AmmMayRefuse     \* whether the AMM may refuse the exit of a closed position

Ids    == 1 .. NumIds
Owners == 1 .. NumOwners

ASSUME SizesAssumption ==
    /\ NumIds \in Nat /\ NumOwners \in Nat /\ MaxDebt \in Nat
    /\ Candidates \subseteq Owners /\ AmmMayRefuse \in BOOLEAN

ASSUME AmountsAssumption ==
    /\ Collaterals \subseteq Nat \ {0} /\ Leverages \subseteq Nat
    /\ StopLossPrices \subseteq Nat /\ CloseAmounts \subseteq Nat \ {0}
    /\ Prices \subseteq Nat \ {0} /\ PriceOne \in Nat \ {0} /\ Prices # {}
    /\ RatioOne \in Nat \ {0}
    /\ OtherShares \subseteq Nat \ {0} /\ OtherShares # {}
    /\ \A lev \in Leverages : lev >= RatioOne

\* What ValidateBasic and Params.Validate accept: a pool's limit may be more
\* than the whole pool, and the exit buffer may be negative.  numberPerBlock 0
\* reads pages of the store's default size and stands here as that size.
ASSUME ParamsAssumption ==
    /\ PoolParams \subseteq [leverageMax : Nat, maxRatio : Nat]
    /\ \A prm \in PoolParams : prm.leverageMax > RatioOne
    /\ ParamSets \subseteq
         [safetyFactor : Nat \ {0}, numberPerBlock : Nat \ {0}, epochLength : Nat \ {0},
          maxOpenPositions : Nat, exitBuffer : Int,
          flags : SUBSET {"fallback", "stopLoss", "whitelisting"}]
    /\ ParamSets # {}

VARIABLES
    positions,      \* types.Position, by id
    positionCount,  \* PositionCount: ids given out so far
    openCount,      \* OpenPositionCount
    debt,           \* what the position's address owes its vault
    writtenOff,     \* history: what its vault lost on the position
    pools,          \* types.Pool, by AMM pool
    enabledPools,   \* Params.EnabledPools
    whitelist,      \* whitelisted addresses
    params,         \* types.Params
    epochPosition,  \* ctx.BlockHeight() modulo the epoch length
    offset,         \* Offset of the sweep, 0 when it is not stored
    price,          \* value of one LP share of each AMM pool
    others          \* LP shares that are not of positions

vars == <<positions, positionCount, openCount, debt, writtenOff, pools, enabledPools,
          whitelist, params, epochPosition, offset, price, others>>

market == <<price, others>>
governed == <<enabledPools, whitelist, params>>
sweep == <<epochPosition, offset>>

NoPosition == [owner |-> 0, pool |-> "none", lp |-> 0, stopLoss |-> 0]

Position ==
    [owner : Owners \cup {0}, pool : AmmPools \cup {"none"}, lp : Nat, stopLoss : Nat]

NoPool == [leveraged |-> 0, leverageMax |-> 0, maxRatio |-> 0]

IsOpen(id)  == positions[id].owner # 0
OpenIds     == {id \in Ids : IsOpen(id)}
HasPool(a)  == pools[a] # NoPool

TotalShares(a) == pools[a].leveraged + others[a]

Init ==
    /\ positions = [id \in Ids |-> NoPosition]
    /\ positionCount = 0
    /\ openCount = 0
    /\ debt = [id \in Ids |-> 0]
    /\ writtenOff = [id \in Ids |-> 0]
    /\ pools = [a \in AmmPools |-> NoPool]
    /\ enabledPools = {}
    /\ whitelist = {}
    /\ params \in ParamSets
    /\ epochPosition = 0
    /\ offset = 0
    /\ price \in [AmmPools -> Prices]
    /\ others \in [AmmPools -> OtherShares]
-----------------------------------------------------------------------------
(***************************************************************************)
(* GetPositionHealth: the position's value over its debt.  Without a debt  *)
(* it is as large as a decimal can be.                                     *)
(***************************************************************************)
\* The value of an amount of LP shares, in units of 1/PriceOne.
ValueOf(a, lp) == lp * price[a]

\* health <= SafetyFactor, of a position with that many shares and that debt.
BelowSafety(a, lp, owed) ==
    owed > 0 /\ ValueOf(a, lp) * RatioOne <= params.safetyFactor * (owed * PriceOne)

Unhealthy(id) == BelowSafety(positions[id].pool, positions[id].lp, debt[id])

StopLossReached(id) == price[positions[id].pool] <= positions[id].stopLoss
-----------------------------------------------------------------------------
(***************************************************************************)
(* Open.  A second position of the same owner in the same AMM pool is      *)
(* added to the first.                                                     *)
(***************************************************************************)
CheckSamePosition(u, a) ==
    {id \in OpenIds : positions[id].owner = u /\ positions[id].pool = a}

CheckUserAuthorization(u) == "whitelisting" \in params.flags => u \in whitelist

CheckMaxOpenPositions == openCount < params.maxOpenPositions

CheckMaxLeverageRatio(a, leveraged) ==
    leveraged * RatioOne < pools[a].maxRatio * (leveraged + others[a])

\* JoinPoolNoSwap, external: what the coins are worth or, after fees, a
\* little less, and at least one share.
JoinShares(a, amount) ==
    LET n == TruncateInt(amount * PriceOne, price[a])
    IN  {s \in {n - 1, n} : s > 0}

ProcessOpenLong(id, u, a, collateral, leverage, stopLoss) ==
    LET leveragedAmount == TruncateInt(collateral * MinOf(leverage, pools[a].leverageMax), RatioOne)
        owed == debt[id] + (leveragedAmount - collateral)
    IN  \E shares \in JoinShares(a, leveragedAmount) :
          /\ ~ BelowSafety(a, positions[id].lp + shares, owed)
          /\ CheckMaxLeverageRatio(a, pools[a].leveraged + shares)
          /\ positions' = [positions EXCEPT ![id] =
               [owner |-> u, pool |-> a, lp |-> positions[id].lp + shares,
                stopLoss |-> IF "stopLoss" \in params.flags THEN stopLoss ELSE 0]]
          /\ debt' = [debt EXCEPT ![id] = owed]
          /\ pools' = [pools EXCEPT ![a].leveraged = @ + shares]

OpenConsolidate(id, u, a, collateral, leverage, stopLoss) ==
    /\ ProcessOpenLong(id, u, a, collateral, leverage, stopLoss)
    /\ UNCHANGED <<positionCount, openCount>>

OpenLong(u, a, collateral, leverage, stopLoss) ==
    /\ leverage > RatioOne
    /\ positionCount + 1 \in Ids
    /\ positionCount' = positionCount + 1
    /\ openCount' = openCount + 1
    /\ ProcessOpenLong(positionCount + 1, u, a, collateral, leverage, stopLoss)

Open(u, a, collateral, leverage, stopLoss) ==
    /\ a \in enabledPools
    /\ CheckUserAuthorization(u)
    /\ HasPool(a)
    /\ \/ \E id \in CheckSamePosition(u, a) :
            OpenConsolidate(id, u, a, collateral, leverage, stopLoss)
       \/ /\ CheckSamePosition(u, a) = {}
          /\ CheckMaxOpenPositions
          /\ OpenLong(u, a, collateral, leverage, stopLoss)
    /\ UNCHANGED <<writtenOff, governed, sweep, market>>
-----------------------------------------------------------------------------
(***************************************************************************)
(* CheckHealthStopLossThenRepayAndClose.                                   *)
(***************************************************************************)
\* Mutant: the shares to sell for the loan rounded down.
LpSharesForRepayDown(a, repay) == TruncateInt(repay * PriceOne, price[a])

LpSharesForRepay(a, repay) == CeilInt(repay * PriceOne, price[a])

\* ExitPool without fees, external: what the AMM pays for shares.
Payout(a, shares) == RoundInt(ValueOf(a, shares), PriceOne)

\* A close that sells everything: the shares sold to repay the loan, and what
\* the AMM may pay for them.
SoldForDebt(id) ==
    MinOf(LpSharesForRepay(positions[id].pool, debt[id]), positions[id].lp)

FullPayout(id) == Payout(positions[id].pool, SoldForDebt(id))

\* The pool must still be there; exits of no shares or of all shares of the
\* AMM pool are refused.
Closable(id) ==
    /\ HasPool(positions[id].pool)
    /\ SoldForDebt(id) > 0
    /\ positions[id].lp < TotalShares(positions[id].pool)

LpOf(S, a) == [id \in Ids |-> IF id \in S /\ positions[id].pool = a THEN positions[id].lp ELSE 0]

\* Mutant: the position is counted as closed twice.
DestroyPositionsTwice(S) ==
    /\ positions' = [id \in Ids |-> IF id \in S THEN NoPosition ELSE positions[id]]
    /\ openCount' = openCount - 2 * Cardinality(S)

DestroyPositions(S) ==
    /\ positions' = [id \in Ids |-> IF id \in S THEN NoPosition ELSE positions[id]]
    /\ openCount' = openCount - Cardinality(S)

\* Mutant: the debts of the closed positions stay.
SettleDebtsNone(S, got) ==
    /\ writtenOff' = [id \in Ids |->
         IF id \in S THEN debt[id] - MinOf(debt[id], got[id]) ELSE writtenOff[id]]
    /\ debt' = [id \in Ids |-> IF id \in S THEN debt[id] - MinOf(debt[id], got[id]) ELSE debt[id]]

\* Repay, and CloseOnUnableToRepay for what the position could not pay.
SettleDebts(S, got) ==
    /\ writtenOff' = [id \in Ids |->
         IF id \in S THEN debt[id] - MinOf(debt[id], got[id]) ELSE writtenOff[id]]
    /\ debt' = [id \in Ids |-> IF id \in S THEN 0 ELSE debt[id]]

\* Mutant: only the shares sold for the debt are taken off the pool.
ReleaseSharesSold(S) ==
    pools' = [a \in AmmPools |->
      IF HasPool(a)
      THEN [pools[a] EXCEPT !.leveraged = @ - Sum([id \in Ids |->
              IF id \in S /\ positions[id].pool = a THEN SoldForDebt(id) ELSE 0], NumIds)]
      ELSE pools[a]]

ReleaseShares(S) ==
    pools' = [a \in AmmPools |->
      IF HasPool(a) THEN [pools[a] EXCEPT !.leveraged = @ - Sum(LpOf(S, a), NumIds)] ELSE pools[a]]

CloseFully(S) ==
    /\ \E got \in [S -> UNION {FullPayout(id) : id \in S}] :
         /\ \A id \in S : got[id] \in FullPayout(id)
         /\ SettleDebts(S, got)
    /\ DestroyPositions(S)
    /\ ReleaseShares(S)

CloseInPart(id, total, repay) ==
    LET a == positions[id].pool
    IN  /\ HasPool(a)
        /\ total > 0 /\ LpSharesForRepay(a, repay) > 0
        /\ total < TotalShares(a)
        /\ \E got \in Payout(a, LpSharesForRepay(a, repay)) :
             debt' = [debt EXCEPT ![id] = @ - MinOf(repay, got)]
        /\ positions' = [positions EXCEPT ![id].lp = @ - total]
        /\ pools' = [pools EXCEPT ![a].leveraged = @ - total]
        /\ UNCHANGED <<openCount, writtenOff>>

\* The owner's message.  An unhealthy position, one at its stop loss, and one
\* whose closed part is not worth its part of the loan, is closed entirely.
Close(u, id, amount) ==
    /\ IsOpen(id) /\ positions[id].owner = u
    /\ amount <= positions[id].lp
    /\ IF Unhealthy(id) \/ StopLossReached(id) \/ amount = positions[id].lp
       THEN Closable(id) /\ CloseFully({id})
       ELSE \E total \in TruncatedPart(positions[id].lp, amount, positions[id].lp),
               repay \in TruncatedPart(debt[id], amount, positions[id].lp) :
              IF LpSharesForRepay(positions[id].pool, repay) > total
              THEN Closable(id) /\ CloseFully({id})
              ELSE CloseInPart(id, total, repay)
    /\ UNCHANGED <<positionCount, governed, sweep, market>>

(***************************************************************************)
(* CheckAndLiquidateUnhealthyPosition and CheckAndCloseAtStopLoss, for a   *)
(* set of positions: each is closed on its own, and one that is neither    *)
(* unhealthy nor at its stop loss, or whose close fails, stays as it is.   *)
(***************************************************************************)
\* Mutant: whether a position has to be closed is not checked.
DueUnchecked(S) == {id \in S \cap OpenIds : Closable(id)}

Due(S) == {id \in S \cap OpenIds : Closable(id) /\ (Unhealthy(id) \/ StopLossReached(id))}

CloseDue(S) ==
    \E refused \in IF AmmMayRefuse THEN SUBSET Due(S) ELSE {{}} : CloseFully(Due(S) \ refused)

\* Anyone may name the positions to liquidate and to close at their stop loss.
ClosePositions(S) ==
    /\ CloseDue(S)
    /\ UNCHANGED <<positionCount, governed, sweep, market>>

\* The new stop loss is stored, and the position closed if it is unhealthy.
UpdateStopLoss(u, id, stopLoss) ==
    /\ "stopLoss" \in params.flags
    /\ IsOpen(id) /\ positions[id].owner = u /\ HasPool(positions[id].pool)
    /\ IF Unhealthy(id)
       THEN Closable(id) /\ CloseFully({id})
       ELSE /\ positions' = [positions EXCEPT ![id].stopLoss = stopLoss]
            /\ UNCHANGED <<openCount, debt, writtenOff, pools>>
    /\ UNCHANGED <<positionCount, governed, sweep, market>>

(***************************************************************************)
(* BeginBlocker: the fallback sweep looks at the next numberPerBlock open  *)
(* positions in the order of their store keys, the owner's address and the *)
(* id, and closes those that are due.  Its offset is moved first.          *)
(***************************************************************************)
KeyBefore(id, jd) ==
    \/ positions[id].owner < positions[jd].owner
    \/ positions[id].owner = positions[jd].owner /\ id < jd

Rank(id) == Cardinality({jd \in OpenIds : KeyBefore(jd, id)})

\* Mutant: the sweep never gets past its first page.
NewOffsetStuck == 0

NewOffset == IF offset + params.numberPerBlock >= openCount THEN 0
             ELSE offset + params.numberPerBlock

Page == {id \in OpenIds : Rank(id) \in offset .. (offset + params.numberPerBlock - 1)}

Sweeps == epochPosition' = 0 /\ "fallback" \in params.flags

BeginBlock ==
    /\ epochPosition' = (epochPosition + 1) % params.epochLength
    /\ IF Sweeps
       THEN offset' = NewOffset /\ CloseDue(Page)
       ELSE UNCHANGED <<offset, positions, openCount, debt, writtenOff, pools>>
    /\ UNCHANGED <<positionCount, governed, market>>
-----------------------------------------------------------------------------
(***************************************************************************)
(* Governance.                                                             *)
(***************************************************************************)
AddPool(a, prm) ==
    /\ ~ HasPool(a)
    /\ pools' = [pools EXCEPT ![a] =
         [leveraged |-> 0, leverageMax |-> prm.leverageMax, maxRatio |-> prm.maxRatio]]
    /\ UNCHANGED <<positions, positionCount, openCount, debt, writtenOff, governed, sweep, market>>

UpdatePool(a, prm) ==
    /\ HasPool(a)
    /\ pools' = [pools EXCEPT ![a].leverageMax = prm.leverageMax, ![a].maxRatio = prm.maxRatio]
    /\ UNCHANGED <<positions, positionCount, openCount, debt, writtenOff, governed, sweep, market>>

MayRemove(a) == pools[a].leveraged = 0

RemovePool(a) ==
    /\ HasPool(a)
    /\ MayRemove(a)
    /\ pools' = [pools EXCEPT ![a] = NoPool]
    /\ UNCHANGED <<positions, positionCount, openCount, debt, writtenOff, governed, sweep, market>>

UpdateEnabledPools(added, removed) ==
    /\ enabledPools' = (enabledPools \cup added) \ removed
    /\ UNCHANGED <<positions, positionCount, openCount, debt, writtenOff, pools, whitelist,
                   params, sweep, market>>

Whitelist(u) ==
    /\ whitelist' = whitelist \cup {u}
    /\ UNCHANGED <<positions, positionCount, openCount, debt, writtenOff, pools, enabledPools,
                   params, sweep, market>>

Dewhitelist(u) ==
    /\ whitelist' = whitelist \ {u}
    /\ UNCHANGED <<positions, positionCount, openCount, debt, writtenOff, pools, enabledPools,
                   params, sweep, market>>

\* The block height has any remainder modulo a new epoch length.
UpdateParams(prms, enabled) ==
    /\ params' = prms
    /\ enabledPools' = enabled
    /\ epochPosition' \in IF prms.epochLength = params.epochLength THEN {epochPosition}
                         ELSE 0 .. prms.epochLength - 1
    /\ UNCHANGED <<positions, positionCount, openCount, debt, writtenOff, pools, whitelist,
                   offset, market>>
-----------------------------------------------------------------------------
(***************************************************************************)
(* The rest of the chain: interest accrues, LP shares change their value,  *)
(* ordinary providers come and go.  A provider may not leave if the        *)
(* positions' part of the pool became too large (CheckAmmPoolBalance).     *)
(***************************************************************************)
Interest(id) ==
    /\ debt[id] > 0 /\ debt[id] < MaxDebt
    /\ debt' = [debt EXCEPT ![id] = @ + 1]
    /\ UNCHANGED <<positions, positionCount, openCount, writtenOff, pools, governed, sweep, market>>

SetPrice(a, p) ==
    /\ price' = [price EXCEPT ![a] = p]
    /\ UNCHANGED <<positions, positionCount, openCount, debt, writtenOff, pools, governed, sweep,
                   others>>

\* Mutant: the hook looks at the pool before the exit.
CheckAmmPoolBalanceBefore(a, n) ==
    HasPool(a) =>
      pools[a].leveraged * RatioOne <= (pools[a].maxRatio + params.exitBuffer) * TotalShares(a)

CheckAmmPoolBalance(a, n) ==
    HasPool(a) =>
      pools[a].leveraged * RatioOne
        <= (pools[a].maxRatio + params.exitBuffer) * (pools[a].leveraged + n)

Provide(a, n) ==
    /\ n < others[a] => CheckAmmPoolBalance(a, n)
    /\ others' = [others EXCEPT ![a] = n]
    /\ UNCHANGED <<positions, positionCount, openCount, debt, writtenOff, pools, governed, sweep,
                   price>>

\* Everything but the beginning of a block.
BetweenBlocks ==
    \/ \E u \in Owners, a \in AmmPools, c \in Collaterals, lev \in Leverages,
          s \in StopLossPrices : Open(u, a, c, lev, s)
    \/ \E u \in Owners, id \in Ids, n \in CloseAmounts : Close(u, id, n)
    \/ \E S \in SUBSET Ids : ClosePositions(S)
    \/ \E u \in Owners, id \in Ids, s \in StopLossPrices : UpdateStopLoss(u, id, s)
    \/ \E a \in AmmPools, prm \in PoolParams : AddPool(a, prm) \/ UpdatePool(a, prm)
    \/ \E a \in AmmPools : RemovePool(a)
    \/ \E S, T \in SUBSET AmmPools : UpdateEnabledPools(S, T)
    \/ \E u \in Candidates : Whitelist(u) \/ Dewhitelist(u)
    \/ \E prms \in ParamSets, S \in SUBSET AmmPools : UpdateParams(prms, S)
    \/ \E id \in Ids : Interest(id)
    \/ \E a \in AmmPools, p \in Prices : SetPrice(a, p)
    \/ \E a \in AmmPools, n \in OtherShares : Provide(a, n)

Next == BeginBlock \/ BetweenBlocks

Spec == Init /\ [][Next]_vars

(***************************************************************************)
(* Blocks keep coming.                                                     *)
(***************************************************************************)
FairSpec == Spec /\ WF_vars(BeginBlock)
-----------------------------------------------------------------------------
(***************************************************************************)
(* Type correctness.                                                       *)
(***************************************************************************)
TypeOK ==
    /\ positions \in [Ids -> Position]
    /\ positionCount \in 0 .. NumIds
    /\ openCount \in Nat
    /\ debt \in [Ids -> Nat]
    /\ writtenOff \in [Ids -> Nat]
    /\ pools \in [AmmPools -> [leveraged : Nat, leverageMax : Nat, maxRatio : Nat]]
    /\ enabledPools \subseteq AmmPools
    /\ whitelist \subseteq Owners
    /\ params \in ParamSets
    /\ epochPosition \in 0 .. params.epochLength - 1
    /\ offset \in Nat
    /\ price \in [AmmPools -> Prices]
    /\ others \in [AmmPools -> OtherShares]

(***************************************************************************)
(* The running totals follow the positions.  OpenPositionCount, which      *)
(* bounds the positions and ends the sweep, is the number of stored        *)
(* positions: DestroyPosition's guard against decrementing zero never      *)
(* applies.  The pool's LeveragedLpAmount, from which                      *)
(* CheckMaxLeverageRatio and the AMM hooks judge the pool, is the sum of   *)
(* its positions' shares, although a close takes it off in two steps       *)
(* (position_close.go).                                                    *)
(***************************************************************************)
TotalsFollowPositions ==
    /\ openCount = Cardinality(OpenIds)
    /\ \A a \in AmmPools : pools[a].leveraged = Sum(LpOf(OpenIds, a), NumIds)

(***************************************************************************)
(* Governance cannot remove a pool under a position: without its pool a    *)
(* position could neither be closed nor liquidated.  A debt always has a   *)
(* position whose shares back it.                                          *)
(***************************************************************************)
PositionsBacked ==
    \A id \in Ids :
        /\ IsOpen(id) => HasPool(positions[id].pool) /\ positions[id].lp > 0
        /\ debt[id] > 0 => IsOpen(id)

(***************************************************************************)
(* Ordinary providers cannot leave a pool to the positions alone.  The     *)
(* positions hold at most the pool's own MaxLeveragelpRatio and the exit   *)
(* buffer of it; only governance, by lowering one of the two, brings a     *)
(* pool beyond that, and then no provider leaves and no position grows     *)
(* before the pool is within its limit again (CheckMaxLeverageRatio on the *)
(* one side, CheckAmmPoolBalance in the hooks of the AMM on the other).    *)
(***************************************************************************)
WithinLimit(a) ==
    pools[a].leveraged * RatioOne
      <= (pools[a].maxRatio + MaxOf(params.exitBuffer, 0)) * TotalShares(a)

ProvidersRemain ==
    [][\A a \in AmmPools :
         \/ WithinLimit(a)'
         \/ \E prm \in PoolParams : UpdatePool(a, prm)
         \/ \E prms \in ParamSets, S \in SUBSET AmmPools : UpdateParams(prms, S)
         \/ /\ ~ WithinLimit(a)
            /\ pools'[a].leveraged <= pools[a].leveraged
            /\ others'[a] >= others[a]]_vars

(***************************************************************************)
(* A vault loses on a position only if the position was not worth its debt *)
(* any more ("can happen only if bot fails to close and position health    *)
(* goes below 1", position_close.go): the shares sold for the debt are     *)
(* rounded up, so they always pay it otherwise.                            *)
(***************************************************************************)
LossOnlyUnderwater ==
    [][\A id \in Ids : writtenOff'[id] # writtenOff[id] =>
         ValueOf(positions[id].pool, positions[id].lp) < debt[id] * PriceOne]_vars

(***************************************************************************)
(* A position that is neither unhealthy nor at its stop loss is reduced by *)
(* its owner's MsgClose only, whoever sends ClosePositions and whatever    *)
(* the sweep looks at.                                                     *)
(***************************************************************************)
OthersCloseOnlyDue ==
    [][\A id \in OpenIds : positions'[id].lp < positions[id].lp =>
         \/ Unhealthy(id) \/ StopLossReached(id)
         \/ \E n \in CloseAmounts : Close(positions[id].owner, id, n)]_vars

(***************************************************************************)
(* A position that is unhealthy is liquidated by the sweep in the end, or  *)
(* becomes healthy, even if no bot ever acts: the pages reach every        *)
(* position although closes move the positions behind them forward, once   *)
(* no more positions are opened (the bound on Ids).                        *)
(***************************************************************************)
UnhealthyLiquidated ==
    \A id \in Ids : (IsOpen(id) /\ Unhealthy(id)) ~> ~ (IsOpen(id) /\ Unhealthy(id))
=============================================================================
