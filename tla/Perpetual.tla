------------------------------ MODULE Perpetual ------------------------------
(***************************************************************************)
(* x/perpetual over one oracle pool of x/amm, with the x/accountedpool     *)
(* entry of that pool.  A position (MTP) of a long side holds the trading  *)
(* asset and owes the base currency; a short holds the base currency and   *)
(* owes the trading asset.  What a position holds (custody) and what it    *)
(* owes (liabilities) stay in the balances of the pool.                    *)
(*                                                                         *)
(* A message is an operator from the chain's state to the set of states it *)
(* may leave: the empty set is an error, which reverts the message.  Swap  *)
(* estimates are made at the oracle price, without slippage; a decimal is  *)
(* a number of 1/One, and a block is the unit of time of the rates.        *)
(***************************************************************************)
EXTENDS ElysMath, FiniteSets, Sequences

CONSTANTS
    Traders,
    Prices,            \* prices of the trading asset, in base units
    Collaterals,       \* collateral of a MsgOpen or a MsgAddCollateral
    Leverages,         \* MsgOpen.Leverage of a new position, at most LeverageMax
    CloseAmounts,      \* MsgClose.Amount
    Targets,           \* take-profit and stop-loss prices of the messages
    Liquidity,         \* what the pool holds at first, of both denoms
    Flows,             \* changes of both balances by a swap, a join or an exit
    One,               \* the precision of a LegacyDec
    PerpFee, TakerFee, \* PerpetualSwapFee and TakerFees
    InsuranceShare,    \* BorrowInterestPaymentFundPercentage
    BorrowRates,       \* borrow interest of a block
    FundingRate,       \* FixedFundingRate, per block
    SafetyNum, SafetyDen, \* SafetyFactor, a fraction
    MinLiability,      \* LongMinimumLiabilityAmount
    MaxOpen,           \* MaxOpenPositions
    MaxPositions,      \* bound: positions ever opened
    MaxHeight,         \* bound: last block
    MaxShocks          \* bound: price changes, swaps, joins and exits

Denoms == {"base", "trading"}
Sides == {"long", "short"}
Ids == 1 .. MaxPositions
None == 0              \* no stop-loss or take-profit price

ASSUME PerpetualAssumption ==
    /\ Prices \subseteq Nat \ {0} /\ Collaterals \subseteq Nat \ {0}
    /\ Leverages \subseteq Nat \ {0, 1} /\ CloseAmounts \subseteq Nat \ {0}
    /\ Targets \subseteq Nat \ {0}
    /\ Liquidity \in [Denoms -> Nat] /\ Flows \subseteq [Denoms -> Int]
    /\ One \in Nat \ {0} /\ PerpFee \in Nat /\ TakerFee \in Nat
    /\ PerpFee + TakerFee <= One
    /\ InsuranceShare \in 0 .. One
    /\ BorrowRates \subseteq Nat /\ FundingRate \in Nat
    /\ SafetyNum \in Nat \ {0} /\ SafetyDen \in Nat \ {0}
    /\ MinLiability \in Nat \ {0} /\ MaxOpen \in Nat
    /\ MaxPositions \in Nat /\ MaxHeight \in Nat /\ MaxShocks \in Nat

VARIABLES
    price,             \* oracle price of the trading asset
    rates,             \* InterestBlock and FundingRateBlock of every block
    mtps,              \* the positions, by id
    open,              \* ids of those in the store
    counter,           \* PerpetualCounter
    pool,              \* the perpetual pool: totals of every side
    amm,               \* balances in the record of the AMM pool
    bank,              \* balances of the AMM pool's address
    insurance,         \* balances of the insurance fund
    accounted,         \* AccountedPool.TotalTokens
    nonAmm,            \* AccountedPool.NonAmmPoolTokens
    flows, moves       \* history: flows of the pool, price changes

chain == <<mtps, open, counter, pool, amm, bank, insurance, accounted, nonAmm>>
vars == <<price, rates, chain, flows, moves>>

NoMTP == [owner |-> "none", side |-> "none", denom |-> "none", collateral |-> 0,
          liabilities |-> 0, custody |-> 0, unpaid |-> 0, stopLoss |-> None,
          takeProfit |-> None, block |-> 1]

Nothing == [d \in Denoms |-> 0]

Init ==
    /\ price \in Prices
    /\ rates = << [borrow |-> 0, long |-> 0, short |-> 0,
                   toShorts |-> 0, toLongs |-> 0] >>
    /\ mtps = [id \in Ids |-> NoMTP] /\ open = {}
    /\ counter = [last |-> 0, totalOpen |-> 0]
    /\ pool = [side \in Sides |-> [custody |-> 0, liabilities |-> 0, collateral |-> Nothing]]
    /\ amm = Liquidity /\ bank = Liquidity /\ insurance = Nothing
    /\ accounted = Liquidity /\ nonAmm = Nothing
    /\ flows = 0 /\ moves = 0

\* The part of the state a message may change, as a record.  held is the copy
\* of the AMM pool that its handler has in memory.
Chain == [mtps |-> mtps, open |-> open, counter |-> counter, pool |-> pool, amm |-> amm,
          held |-> amm, bank |-> bank, insurance |-> insurance,
          accounted |-> accounted, nonAmm |-> nonAmm]

Become(s) ==
    /\ mtps' = s.mtps /\ open' = s.open /\ counter' = s.counter /\ pool' = s.pool
    /\ amm' = s.amm /\ bank' = s.bank /\ insurance' = s.insurance
    /\ accounted' = s.accounted /\ nonAmm' = s.nonAmm

-----------------------------------------------------------------------------
(***************************************************************************)
(* Decimals, and the totals of the pool.                                   *)
(***************************************************************************)
\* LegacyDec.Quo of naturals, and LegacyDec.MulInt followed by TruncateInt.
Quo(n, d) == (2 * n * One + d) \div (2 * d)
Times(dec, n) == (dec * n) \div One

Abs(n) == IF n < 0 THEN - n ELSE n

CustodyDenom(side) == IF side = "long" THEN "trading" ELSE "base"
LiabilitiesDenom(side) == IF side = "long" THEN "base" ELSE "trading"
Holders(d) == IF d = "trading" THEN "long" ELSE "short"
Borrowers(d) == IF d = "base" THEN "long" ELSE "short"

TotalCustody(s, d) == s.pool[Holders(d)].custody
TotalLiabilities(s, d) == s.pool[Borrowers(d)].liabilities

\* UpdateCustody, UpdateLiabilities and UpdateCollateral of a side.
ChangeTotals(s, side, d, custody, liabilities, collateral) ==
    LET row == s.pool[side]
    IN  [s EXCEPT !.pool[side] =
            [custody |-> row.custody + custody, liabilities |-> row.liabilities + liabilities,
             collateral |-> [row.collateral EXCEPT ![d] = @ + collateral]]]

\* GetTotalLongOpenInterest and GetTotalShortOpenInterest.
LongOpenInterest ==
    IF pool["long"].custody = 0 THEN 0
    ELSE pool["long"].custody - pool["long"].collateral["trading"]
ShortOpenInterest == pool["short"].liabilities

-----------------------------------------------------------------------------
(***************************************************************************)
(* Swap estimates against the accounted balances, and coins that move      *)
(* between the AMM pool and an account.                                    *)
(***************************************************************************)
Worth(d) == IF d = "trading" THEN price ELSE 1
Other(d) == IF d = "trading" THEN "base" ELSE "trading"

\* GetPoolWithAccountedBalance.
Depth(s, d) == IF s.accounted[d] > 0 THEN s.accounted[d] ELSE s.amm[d]

\* What comes out for an amount of d; none, if it is too small or too large.
EstimateSwapGivenIn(s, d, amount) ==
    {q \in {(amount * Worth(d)) \div Worth(Other(d))} :
       amount > 0 /\ q > 0 /\ q <= Depth(s, Other(d))}

\* What has to go in for an amount of d, rounded up.
EstimateSwapGivenOut(s, d, amount) ==
    {q \in {CeilInt(amount * Worth(d), Worth(Other(d)))} : amount > 0 /\ amount <= Depth(s, d)}

\* A handler reads the pool once.  What it adds or removes changes its copy,
\* and the copy is stored over the record.
GetAmmPool(s) == [s EXCEPT !.held = s.amm]

Moved(s, d, n) ==
    LET copy == [s.held EXCEPT ![d] = @ + n]
    IN  [s EXCEPT !.held = copy, !.amm = copy, !.bank[d] = @ + n]

Receive(s, d, n) == Moved(s, d, n)

SendFromAmmPool(s, d, n) == IF n <= s.bank[d] /\ n <= s.held[d] THEN {Moved(s, d, - n)} ELSE {}

CheckMinimumCustodyAmt(s) == \A d \in Denoms : TotalCustody(s, d) <= s.amm[d]

\* UpdateAccountedPoolOnAmmChange.
AmmChanged(s) == [s EXCEPT !.accounted = [d \in Denoms |-> s.amm[d] + s.nonAmm[d]]]

\* The hook of a message that changed a position is given the handler's copy;
\* a coin cannot be negative.
PerpetualUpdates(s) ==
    LET net(d) == TotalLiabilities(s, d) - TotalCustody(s, d)
    IN  IF \A d \in Denoms : s.held[d] + net(d) >= 0
        THEN {[s EXCEPT !.accounted = [d \in Denoms |-> s.held[d] + net(d)],
                        !.nonAmm = [d \in Denoms |-> net(d)]]}
        ELSE {}

\* What the swap of a fee in the trading asset for q of the base currency
\* leaves.  When the send or a hook refuses it, the cached context is dropped,
\* but the handler's copy, whose list of assets the swap shares, stays changed.
SwapFeesToRevenueToken(s, fee, q) ==
    LET paid == Receive(s, "trading", fee)
        swapped == SendFromAmmPool(paid, "base", q)
    IN  {IF CheckMinimumCustodyAmt(t) THEN AmmChanged(t) ELSE [s EXCEPT !.held = t.held] :
           t \in swapped}
        \cup {t \in {[s EXCEPT !.held = paid.held]} : swapped = {}}

\* OnCollectFee: the pool swaps its revenue to the base currency.  When the
\* estimate fails, the revenue is left as it is.
OnCollectFee(s, d, fee) ==
    IF d = "base" THEN {s}
    ELSE LET estimate == EstimateSwapGivenIn(s, d, fee)
         IN  IF estimate = {} THEN {s}
             ELSE UNION {SwapFeesToRevenueToken(s, fee, q) : q \in estimate}

\* Mutant: the fees may exceed what is left for them.
FeesOnUncapped(amount, limit) ==
    [perp |-> Times(PerpFee, amount), taker |-> Times(TakerFee, amount)]

\* The fees on an amount: revenue of the pool and taker fees, at most limit.
FeesOn(amount, limit) ==
    LET perp == Times(PerpFee, amount)
        taker == Times(TakerFee, amount)
        total == perp + taker
    IN  IF limit > 0 /\ total > limit
        THEN [perp |-> (limit * perp) \div total, taker |-> (limit * taker) \div total]
        ELSE [perp |-> perp, taker |-> taker]

\* The pool's address pays the fees of a close; its record is not told.
PayFees(s, d, fees) ==
    LET collected == OnCollectFee([s EXCEPT !.bank[d] = @ - fees.perp], d, fees.perp)
    IN  IF fees.perp > s.bank[d] THEN {}
        ELSE {[t EXCEPT !.bank[d] = @ - fees.taker] : t \in {r \in collected : fees.taker <= r.bank[d]}}

-----------------------------------------------------------------------------
(***************************************************************************)
(* Positions.                                                              *)
(***************************************************************************)
Now == rates[Len(rates)]
Since(m, field) == Now[field] - rates[m.block][field]

\* GetMTPHealth <= SafetyFactor: what is held is worth too little for the debt.
Unhealthy(m) ==
    LET owed == m.liabilities + m.unpaid IN
    \/ m.custody = 0
    \/ /\ m.liabilities > 0
       /\ SafetyDen * m.custody * Worth(CustodyDenom(m.side))
            <= SafetyNum * owed * Worth(LiabilitiesDenom(m.side))

\* The integer price at which a position that pays nothing more turns unhealthy.
LiquidationPrice(m) ==
    IF m.side = "long"
    THEN IF m.custody = 0 THEN None ELSE (SafetyNum * m.liabilities) \div (SafetyDen * m.custody)
    ELSE IF m.liabilities = 0 THEN None
         ELSE CeilInt(m.custody * SafetyDen, m.liabilities * SafetyNum)

CheckForStopLoss(m) ==
    m.stopLoss # None /\ IF m.side = "long" THEN price <= m.stopLoss ELSE price >= m.stopLoss
CheckForTakeProfit(m) ==
    m.takeProfit # None /\ IF m.side = "long" THEN price >= m.takeProfit ELSE price <= m.takeProfit

SetMTP(s, id, m) == [s EXCEPT !.mtps[id] = m]

AddMTP(s, m) ==
    LET id == s.counter.last + 1
    IN  [s EXCEPT !.mtps[id] = m, !.open = @ \cup {id},
                  !.counter = [last |-> id, totalOpen |-> s.counter.totalOpen + 1]]

DestroyMTP(s, id) ==
    [s EXCEPT !.mtps[id] = NoMTP, !.open = @ \ {id}, !.counter.totalOpen = @ - 1]

\* A position and the pool's totals, by the same amounts.
ChangePosition(s, id, custody, liabilities, collateral) ==
    LET m == s.mtps[id]
    IN  SetMTP(ChangeTotals(s, m.side, m.denom, custody, liabilities, collateral), id,
               [m EXCEPT !.custody = @ + custody, !.liabilities = @ + liabilities,
                         !.collateral = @ + collateral])

\* Mutant: the pool's total is not told.
MoveCustodyOfPosition(s, id, change) == [s EXCEPT !.mtps[id].custody = @ + change]

MoveCustody(s, id, change) == ChangePosition(s, id, change, 0, 0)

(***************************************************************************)
(* Repay: the part ratio/One of a position is sold for its part of the     *)
(* debt; what is left over, less the fees, goes to the owner.              *)
(***************************************************************************)
\* Mutant: a position that is closed in full stays in the store.
ClosePartKept(s, id, custody, liabilities, collateral) ==
    ChangePosition(s, id, - custody, - liabilities, - collateral)

\* The pool's totals and the position, once a part of it is closed.
ClosePart(s, id, custody, liabilities, collateral) ==
    LET closed == ChangePosition(s, id, - custody, - liabilities, - collateral)
    IN  IF s.mtps[id].custody = custody THEN DestroyMTP(closed, id) ELSE closed

Repay(s, id, ratio) ==
    LET m == s.mtps[id]
        held == CustodyDenom(m.side)
        paying == Times(ratio, m.liabilities)
        closing == Times(ratio, m.custody)
        Paid(q) ==
            IF closing <= q THEN {s}
            ELSE LET fees == FeesOn(q, closing - q)
                     rest == closing - q - (fees.perp + fees.taker)
                 IN  UNION {IF rest > 0 THEN SendFromAmmPool(t, held, rest) ELSE {t} :
                              t \in PayFees(s, held, fees)}
    IN  IF ratio = 0 THEN {}
        ELSE {ClosePart(t, id, closing, paying, Times(ratio, m.collateral)) :
                t \in UNION {Paid(q) : q \in EstimateSwapGivenOut(s, LiabilitiesDenom(m.side), paying)}}

\* Mutant: a forced close does not call the hook.
ForceCloseUnreported(s, id) == Repay(s, id, One)

\* EstimateAndRepay of the whole position and the hook of a close.
ForceClose(s, id) == UNION {PerpetualUpdates(t) : t \in Repay(s, id, One)}

(***************************************************************************)
(* MTPTriggerChecksAndUpdates: funding, then interest, are paid from the   *)
(* custody; a position that cannot pay or is unhealthy is closed.  Every   *)
(* handler reads the AMM pool right before it.                             *)
(***************************************************************************)
InterestDue(m) == m.unpaid + Times(Abs(Since(m, "borrow")), m.liabilities + m.unpaid)

FundingDue(m) ==
    IF m.side = "long" THEN Times(Abs(Since(m, "long")), m.custody)
    ELSE Times(Abs(Since(m, "short")), m.liabilities) * price

FundingShare(m, custody) ==
    IF m.side = "long" THEN Times(Since(m, "toLongs"), custody)
    ELSE Times(Since(m, "toShorts"), m.liabilities) * price

\* Interest and funding up to this block, of which only the funding is paid.
SettleFunding(s, id) ==
    LET m == s.mtps[id]
        paid == MinOf(FundingDue(m), m.custody)
        received == FundingShare(m, m.custody - paid)
        accrued == [s EXCEPT !.mtps[id].unpaid = InterestDue(m), !.mtps[id].block = Len(rates)]
    IN  MoveCustody(accrued, id, received - paid)

\* The unpaid interest in units of the custody.
InterestInCustody(m) ==
    IF m.side = "long" THEN m.unpaid \div price ELSE m.unpaid * price

\* The position pays; of a payment in full the insurance fund gets a share.
PayInterest(s, id) ==
    LET m == s.mtps[id]
        d == CustodyDenom(m.side)
        due == InterestInCustody(m)
        share == Times(InsuranceShare, due)
        paid == MoveCustody([s EXCEPT !.mtps[id].unpaid = 0], id, - due)
    IN  {[t EXCEPT !.insurance[d] = @ + share] : t \in SendFromAmmPool(paid, d, share)}

\* All of the custody goes, and the fund pays the rest if it can pay all of it.
PayInterestShort(s, id) ==
    LET m == s.mtps[id]
        d == CustodyDenom(m.side)
        missing == InterestInCustody(m) - m.custody
        gone == MoveCustody([s EXCEPT !.mtps[id].unpaid =
                               IF m.side = "long" THEN missing * price ELSE 0], id, - m.custody)
    IN  IF s.insurance[d] >= missing
        THEN [Receive(gone, d, missing) EXCEPT !.insurance[d] = @ - missing]
        ELSE gone

MTPTriggerChecksAndUpdates(s, id) ==
    LET settled == SettleFunding(GetAmmPool(s), id)
        m == settled.mtps[id]
    IN  IF FundingDue(s.mtps[id]) > s.mtps[id].custody THEN ForceClose(settled, id)
        ELSE IF InterestInCustody(m) > m.custody
             THEN ForceClose(PayInterestShort(settled, id), id)
        ELSE UNION {IF Unhealthy(t.mtps[id]) THEN ForceClose(t, id) ELSE {t} :
                      t \in PayInterest(settled, id)}

(***************************************************************************)
(* Borrow: the collateral enters the pool, what it buys with the loan is   *)
(* the custody.  The fees come from the sender.                            *)
(***************************************************************************)
\* How much is held and owed for an amount of collateral at a leverage.
Bought(s, side, d, leveraged) ==
    IF side = "short" \/ d = "trading" THEN {leveraged}
    ELSE EstimateSwapGivenIn(s, "base", leveraged)

Owed(s, side, d, loan) ==
    IF loan = 0 THEN {0}
    ELSE IF side = "long" /\ d = "base" THEN {loan}
         ELSE EstimateSwapGivenOut(s, d, loan)

\* HasSufficientPoolBalance for what is borrowed and for what is held.
Lendable(s, side, d, leveraged, custody) ==
    /\ custody <= s.amm[CustodyDenom(side)]
    /\ IF d = "trading"
       THEN \E q \in EstimateSwapGivenOut(s, "trading", leveraged) : q <= s.amm["base"]
       ELSE leveraged <= s.amm["base"]

\* The sender pays the fees on what is swapped; they only pass through the pool.
Borrow(s, m) ==
    LET swapped == IF m.side = "long" /\ m.denom = "base" THEN m.collateral + m.liabilities
                   ELSE m.custody - m.collateral
        funded == OnCollectFee(Receive(s, m.denom, m.collateral), m.denom,
                               FeesOn(swapped, swapped).perp)
    IN  {AddMTP(ChangeTotals(t, m.side, m.denom, m.custody, m.liabilities, m.collateral), m) :
           t \in funded}

\* GetProxyLeverage: 0 adds collateral; a short of leverage n holds n + 1 times it.
ProxyLeverage(side, leverage) ==
    IF leverage = 0 THEN 1 ELSE IF side = "short" THEN leverage + 1 ELSE leverage

NewMTP(u, side, d, amount, custody, owed, takeProfit) ==
    LET m == [NoMTP EXCEPT !.owner = u, !.side = side, !.denom = d, !.collateral = amount,
                           !.liabilities = owed, !.custody = custody,
                           !.takeProfit = takeProfit, !.block = Len(rates)]
    IN  [m EXCEPT !.stopLoss = LiquidationPrice(m)]

ProcessOpen(s, u, side, d, amount, leverage, takeProfit) ==
    LET factor == ProxyLeverage(side, leverage)
        custodies == {c \in Bought(s, side, d, factor * amount) :
                        Lendable(s, side, d, factor * amount, c)}
    IN  UNION {Borrow(GetAmmPool(s), m) : m \in
            {n \in {NewMTP(u, side, d, amount, custody, owed, takeProfit) :
                      custody \in custodies, owed \in Owed(s, side, d, (factor - 1) * amount)} :
               ~ Unhealthy(n)}}

-----------------------------------------------------------------------------
(***************************************************************************)
(* Messages.                                                               *)
(***************************************************************************)
ValidTakeProfit(side, takeProfit) ==
    takeProfit # None => IF side = "long" THEN takeProfit > price ELSE takeProfit < price

ValidStopLoss(side, stopLoss) ==
    stopLoss # None => IF side = "long" THEN stopLoss < price ELSE stopLoss > price

\* GetExistingPosition: the first of the account's on that side and collateral.
Existing(s, u, side, d) ==
    LET same == {id \in s.open : /\ s.mtps[id].owner = u /\ s.mtps[id].side = side
                                 /\ s.mtps[id].denom = d}
    IN  {id \in same : \A other \in same : id <= other}

\* The new position joins the existing one, which is settled first; if it is
\* closed then, the new position stays.
OpenConsolidate(s, id, takeProfit) ==
    LET new == s.counter.last
        Merged(t) ==
            LET n == t.mtps[new]
                m == [t.mtps[id] EXCEPT !.collateral = @ + n.collateral,
                                        !.custody = @ + n.custody,
                                        !.liabilities = @ + n.liabilities,
                                        !.takeProfit = IF takeProfit = None THEN @ ELSE takeProfit]
            IN  IF Unhealthy(m) THEN {}
                ELSE PerpetualUpdates(DestroyMTP(
                        SetMTP(t, id, [m EXCEPT !.stopLoss = LiquidationPrice(m)]), new))
    IN  UNION {IF id \in t.open THEN {r \in Merged(t) : CheckMinimumCustodyAmt(r)} ELSE {t} :
                 t \in MTPTriggerChecksAndUpdates(s, id)}

Open(s, u, side, d, amount, leverage, takeProfit) ==
    LET existing == Existing(s, u, side, d)
        Kept(id) == IF leverage = 0 THEN s.mtps[id].takeProfit ELSE takeProfit
    IN  IF \/ side = "short" /\ d = "trading"
           \/ ~ ValidTakeProfit(side, takeProfit)
           \/ ~ CheckMinimumCustodyAmt(s)
        THEN {}
        ELSE IF existing # {}
        THEN UNION {UNION {OpenConsolidate(t, id, Kept(id)) :
                             t \in ProcessOpen(s, u, side, d, amount, leverage, Kept(id))} :
                      id \in existing}
        ELSE IF leverage > 1 /\ s.counter.totalOpen < MaxOpen
        THEN UNION {PerpetualUpdates(t) :
                      t \in {r \in ProcessOpen(s, u, side, d, amount, leverage, takeProfit) :
                               CheckMinimumCustodyAmt(r)}}
        ELSE {}

\* Collateral of a long in the base currency pays off debt, down to a minimum.
PayDebt(s, u, id, amount) ==
    LET m == s.mtps[id]
        final == MinOf(amount, m.liabilities - MinLiability)
    IN  IF final <= 0 THEN {}
        ELSE PerpetualUpdates(Receive(ChangePosition(s, id, 0, - final, final), "base", final))

AddCollateral(s, u, id, d, amount) ==
    LET m == s.mtps[id] IN
    IF m.side = "long" /\ m.denom = "base"
    THEN IF d # "base" THEN {}
         ELSE UNION {IF id \in t.open THEN PayDebt(t, u, id, amount) ELSE {t} :
                       t \in MTPTriggerChecksAndUpdates(s, id)}
    ELSE Open(s, u, m.side, d, amount, 0, None)

\* The accounted pool is not told of a new stop-loss price.
UpdateStopLoss(s, id, stopLoss) ==
    UNION {IF id \notin t.open THEN {t}
           ELSE IF ValidStopLoss(t.mtps[id].side, stopLoss)
                THEN {[t EXCEPT !.mtps[id].stopLoss = stopLoss]} ELSE {} :
             t \in MTPTriggerChecksAndUpdates(s, id)}

UpdateTakeProfitPrice(s, id, takeProfit) ==
    UNION {IF id \notin t.open THEN {t}
           ELSE IF ValidTakeProfit(t.mtps[id].side, takeProfit)
                THEN PerpetualUpdates([t EXCEPT !.mtps[id].takeProfit = takeProfit]) ELSE {} :
             t \in MTPTriggerChecksAndUpdates(s, id)}

\* What an amount to close is measured against; a ratio to zero panics.
Close(s, id, amount) ==
    LET Whole(m) == IF m.side = "long" THEN m.custody ELSE m.liabilities
        Part(t) == IF Whole(t.mtps[id]) = 0 THEN {}
                   ELSE Repay(t, id, MinOf(One, Quo(amount, Whole(t.mtps[id]))))
    IN  UNION {IF id \in t.open THEN UNION {PerpetualUpdates(r) : r \in Part(t)} ELSE {t} :
                 t \in MTPTriggerChecksAndUpdates(s, id)}

\* ClosePositions, by anyone and for each position on its own.
CheckAndLiquidatePosition(s, id) ==
    UNION {IF id \notin t.open THEN {t}
           ELSE IF CheckForStopLoss(t.mtps[id]) \/ CheckForTakeProfit(t.mtps[id])
                THEN ForceClose(t, id) ELSE {} :
             t \in MTPTriggerChecksAndUpdates(s, id)}

-----------------------------------------------------------------------------
(***************************************************************************)
(* Steps of the chain.                                                     *)
(***************************************************************************)
\* A message of the outcomes S succeeds.
Deliver(S) ==
    \E s \in S : Become(s) /\ UNCHANGED <<price, rates, flows, moves>>

MsgOpen(u, side, d, amount, leverage, takeProfit) ==
    /\ counter.last < MaxPositions
    /\ Deliver(Open(Chain, u, side, d, amount, leverage, takeProfit))

MsgAddCollateral(id, d, amount) ==
    /\ counter.last < MaxPositions \/ (mtps[id].side = "long" /\ mtps[id].denom = "base")
    /\ Deliver(AddCollateral(Chain, mtps[id].owner, id, d, amount))

MsgUpdateStopLoss(id, stopLoss) == Deliver(UpdateStopLoss(Chain, id, stopLoss))

MsgUpdateTakeProfitPrice(id, takeProfit) ==
    Deliver(UpdateTakeProfitPrice(Chain, id, takeProfit))

MsgClose(id, amount) == Deliver(Close(Chain, id, amount))

MsgClosePositions(id) == Deliver(CheckAndLiquidatePosition(Chain, id))

\* ComputeFundingRate: the popular side pays.  The sum must not be zero.
FundingRateOf(popular, other) ==
    LET net == popular - other
        all == popular + other
    IN  IF all > 0 THEN Times(Quo(net, all), FundingRate)
        ELSE - Times(Quo(net, - all), FundingRate)

\* BeginBlocker: what every block adds to the rates.
BeginBlocker(borrowRate) ==
    LET L == LongOpenInterest
        S == ShortOpenInterest
        long == IF L = 0 \/ S = 0 \/ L <= S THEN 0 ELSE FundingRateOf(L, S)
        short == IF L = 0 \/ S = 0 \/ L > S THEN 0 ELSE FundingRateOf(S, L)
        Shared(n, holders) == IF holders > 0 THEN Quo(n, holders) ELSE 0
    IN  /\ Len(rates) < MaxHeight
        /\ (L # 0 /\ S # 0) => L + S # 0
        /\ rates' = Append(rates,
              [borrow |-> Now.borrow + borrowRate,
               long |-> Now.long + long, short |-> Now.short + short,
               toShorts |-> Now.toShorts + Shared(Times(Abs(long), L), S),
               toLongs |-> Now.toLongs + Shared(Times(Abs(short), S), L)])
        /\ UNCHANGED <<price, chain, flows, moves>>

SetPrice(p) ==
    /\ moves + flows < MaxShocks /\ moves' = moves + 1
    /\ p # price /\ price' = p
    /\ UNCHANGED <<rates, chain, flows>>

\* A swap, a join or an exit of x/amm, with the hooks of x/perpetual and x/accountedpool.
AmmFlow(change) ==
    /\ moves + flows < MaxShocks /\ flows' = flows + 1
    /\ \A d \in Denoms : amm[d] + change[d] >= 0 /\ bank[d] + change[d] >= 0
    /\ LET t == [Chain EXCEPT !.amm = [d \in Denoms |-> amm[d] + change[d]],
                              !.bank = [d \in Denoms |-> bank[d] + change[d]]]
       IN  CheckMinimumCustodyAmt(t) /\ Become(AmmChanged(t))
    /\ UNCHANGED <<price, rates, moves>>

Next ==
    \/ \E u \in Traders, side \in Sides, d \in Denoms, amount \in Collaterals,
          leverage \in Leverages \cup {0}, takeProfit \in Targets \cup {None} :
          MsgOpen(u, side, d, amount, leverage, takeProfit)
    \/ \E id \in open, d \in Denoms, amount \in Collaterals : MsgAddCollateral(id, d, amount)
    \/ \E id \in open, stopLoss \in Targets \cup {None} : MsgUpdateStopLoss(id, stopLoss)
    \/ \E id \in open, takeProfit \in Targets : MsgUpdateTakeProfitPrice(id, takeProfit)
    \/ \E id \in open, amount \in CloseAmounts : MsgClose(id, amount)
    \/ \E id \in open : MsgClosePositions(id)
    \/ \E borrowRate \in BorrowRates : BeginBlocker(borrowRate)
    \/ \E p \in Prices : SetPrice(p)
    \/ \E change \in Flows : AmmFlow(change)

Spec == Init /\ [][Next]_vars

-----------------------------------------------------------------------------
(***************************************************************************)
(* Types.  Balances of accounts are never negative, nor is what a position *)
(* of the store holds or owes.                                             *)
(***************************************************************************)
TypeOK ==
    /\ price \in Prices /\ flows \in Nat /\ moves \in Nat
    /\ DOMAIN rates = 1 .. Len(rates)
    /\ open \subseteq Ids /\ counter \in [last : 0 .. MaxPositions, totalOpen : Nat]
    /\ \A id \in open :
          /\ mtps[id] \in [owner : Traders, side : Sides, denom : Denoms, collateral : Nat,
                           liabilities : Nat, custody : Nat \ {0}, unpaid : Nat, stopLoss : Nat,
                           takeProfit : Nat, block : 1 .. Len(rates)]
          /\ mtps[id].side = "short" => mtps[id].denom = "base"
    /\ \A id \in Ids \ open : mtps[id] = NoMTP
    /\ amm \in [Denoms -> Nat] /\ bank \in [Denoms -> Nat] /\ insurance \in [Denoms -> Nat]
    /\ accounted \in [Denoms -> Int] /\ nonAmm \in [Denoms -> Int]

\* The total of a field over the positions of a side.
TotalOf(side, Field(_)) ==
    Sum([id \in Ids |-> IF id \in open /\ mtps[id].side = side THEN Field(mtps[id]) ELSE 0],
        MaxPositions)

(***************************************************************************)
(* What the pool's record says is held, owed and put up, per side, is what *)
(* its positions hold, owe and have put up, whatever was settled, merged,  *)
(* closed in part or closed by force.                                      *)
(***************************************************************************)
PoolTotals ==
    \A side \in Sides :
        /\ pool[side].custody = TotalOf(side, LAMBDA m : m.custody)
        /\ pool[side].liabilities = TotalOf(side, LAMBDA m : m.liabilities)
        /\ \A d \in Denoms : pool[side].collateral[d] =
              TotalOf(side, LAMBDA m : IF m.denom = d THEN m.collateral ELSE 0)

(***************************************************************************)
(* What the liquidity providers own at the oracle price: what is in the    *)
(* pool and what is owed to it, less what it holds for positions.          *)
(***************************************************************************)
PoolValue ==
    LET net(d) == bank[d] + TotalLiabilities(Chain, d) - TotalCustody(Chain, d)
    IN  net("base") + price * net("trading")

\* Funding a position is credited with when it is settled now, in base units.
Credit(m) == FundingShare(m, m.custody) * Worth(CustodyDenom(m.side))

\* A settled position is worth less than its debt.
Underwater(m) ==
    LET left == m.custody - FundingDue(m) + FundingShare(m, m.custody)
                  - InterestInCustody([m EXCEPT !.unpaid = InterestDue(m)])
    IN  left * Worth(CustodyDenom(m.side)) < m.liabilities * Worth(LiabilitiesDenom(m.side))

(***************************************************************************)
(* A step that moves no price and is no flow of the pool never costs the   *)
(* providers anything, whichever fees, interest, funding, payments of the  *)
(* fund, merges and closes it goes through, with two exceptions: a settled *)
(* position is credited with its funding, and a close may round by less    *)
(* than one unit of custody; and a position that is closed when it is      *)
(* worth less than its debt leaves the loss to the pool.                   *)
(***************************************************************************)
PoolValueKept ==
    [][UNCHANGED <<price, flows>> =>
         \/ PoolValue' >= PoolValue
         \/ \E id \in open :
              \/ PoolValue' + Credit(mtps[id]) + Worth(CustodyDenom(mtps[id].side)) > PoolValue
              \/ id \notin open' /\ Underwater(mtps[id])]_vars

\* What an accounted balance is beyond the AMM pool's and what is owed, less custody.
Beyond(d) == accounted[d] - (amm[d] + TotalLiabilities(Chain, d) - TotalCustody(Chain, d))

\* Current, but for the swap of one fee that was refused after the pool's copy
\* had got the fee, or got it and paid for it.
AccountedCurrent ==
    Beyond("trading") >= 0 /\ Beyond("base") \in {0, - price * Beyond("trading")}

(***************************************************************************)
(* Swaps are priced against the accounted balances.  Every message that    *)
(* changes a position, the pool or its balances, in whatever branch it     *)
(* ends, sets them anew: a fee that could not be swapped in this message   *)
(* may stay in them with its swap, and never one of an earlier message.    *)
(* The one exception is MsgUpdateStopLoss, which settles a position and    *)
(* calls no hook.                                                          *)
(***************************************************************************)
AccountedFollows ==
    [][\/ UNCHANGED chain \/ AccountedCurrent' \/ flows' # flows
       \/ \E id \in open, stopLoss \in Targets \cup {None} : MsgUpdateStopLoss(id, stopLoss)]_vars

(***************************************************************************)
(* Every position of the store owes something: a new position is refused   *)
(* "with leverage <= 1", and leverage 0 only adds collateral to another.   *)
(***************************************************************************)
Leveraged == \A id \in open : mtps[id].liabilities > 0
=============================================================================
