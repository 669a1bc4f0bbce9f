----------------------------- MODULE Tradeshield -----------------------------
(***************************************************************************)
(* x/tradeshield: orders that anybody may submit for execution once the    *)
(* market reaches their price, over the positions of Perpetual.  An order  *)
(* that spends coins keeps them at an address of its own.                  *)
(*                                                                         *)
(* ExecuteOrders runs a list.  An error of one order is only logged, and   *)
(* what the order did is dropped, except for a limit close, which has no   *)
(* cached context; an order that is not found reverts the whole list.      *)
(*                                                                         *)
(* A market buy stores no order, and is a swap of Amm.  The swap of an     *)
(* executed order is queued in x/amm; its trial, which may be refused or   *)
(* be off by more than the tolerance, is an input.  An owner who cannot    *)
(* pay the fees of a position is as if the list did not have the order.    *)
(***************************************************************************)
EXTENDS Perpetual

CONSTANTS
    Triggers,          \* prices of orders
    Percentages,       \* ClosePercentage
    MaxOrders,         \* bound: orders of each kind
    MaxList,           \* bound: length of a list of orders
    MaxUpdates,        \* bound: changes of an order's price
    Scopes             \* what a behaviour is about: messages, perp or spot orders

ASSUME TradeshieldAssumption ==
    /\ Triggers \subseteq Nat \ {0} /\ Percentages \subseteq Nat
    /\ MaxOrders \in Nat /\ MaxList \in Nat /\ MaxUpdates \in Nat
    /\ Scopes \subseteq {"messages", "perp", "spot"}

VARIABLES
    scope,
    orders,            \* PendingSpotOrder and PendingPerpetualOrder, by kind and id
    counts,            \* the last id of each kind
    escrow,            \* balances of the orders' addresses
    queued,            \* history: spot orders whose swap was queued in x/amm
    updates            \* history: changes of a price

book == <<orders, counts, escrow, queued>>
orderVars == <<scope, book, updates>>
allVars == <<vars, orderVars>>

Kinds == {"spot", "perp"}
OrderIds == 1 .. MaxOrders
NoOrder == [type |-> "none"]
Coins(d, amount) == [Nothing EXCEPT ![d] = amount]

OrdersInit ==
    /\ Init /\ scope \in Scopes
    /\ orders = [kind \in Kinds |-> [id \in OrderIds |-> NoOrder]]
    /\ counts = [kind \in Kinds |-> 0]
    /\ escrow = [kind \in Kinds |-> [id \in OrderIds |-> Nothing]]
    /\ queued = {} /\ updates = 0

\* The state of Perpetual with the order book.
World == [chain |-> Chain, orders |-> orders, counts |-> counts, escrow |-> escrow,
          queued |-> queued]

BecomeWorld(s) ==
    /\ Become(s.chain)
    /\ orders' = s.orders /\ counts' = s.counts /\ escrow' = s.escrow /\ queued' = s.queued

Pending(s, kind) == {id \in OrderIds : s.orders[kind][id] # NoOrder}

-----------------------------------------------------------------------------
(***************************************************************************)
(* The order book.                                                         *)
(***************************************************************************)
\* What an order keeps at its address.
Cost(order) ==
    IF order.type \in {"none", "limitclose"} THEN Nothing ELSE Coins(order.denom, order.amount)

AppendPending(s, kind, order) ==
    LET id == s.counts[kind] + 1
    IN  [s EXCEPT !.counts[kind] = id, !.orders[kind][id] = order,
                  !.escrow[kind][id] = Cost(order)]

RemovePending(s, kind, id) == [s EXCEPT !.orders[kind][id] = NoOrder]

\* The order's coins go to its owner.
PayOut(s, kind, id) ==
    LET left == [d \in Denoms |-> s.escrow[kind][id][d] - Cost(s.orders[kind][id])[d]]
    IN  IF \A d \in Denoms : left[d] >= 0 THEN {[s EXCEPT !.escrow[kind][id] = left]} ELSE {}

\* All that is at the orders' addresses goes back to their owner.
Cancel(s, kind, ids) ==
    [s EXCEPT !.orders[kind] = [id \in OrderIds |-> IF id \in ids THEN NoOrder ELSE @[id]],
              !.escrow[kind] = [id \in OrderIds |-> IF id \in ids THEN Nothing ELSE @[id]]]

-----------------------------------------------------------------------------
(***************************************************************************)
(* Spot orders, at the oracle's price of one denom in the other.           *)
(***************************************************************************)
\* The price of the denom that is sold or bought has reached the order's.
AtMarket(order) ==
    CASE order.type = "stoploss" -> Worth(order.denom) <= order.trigger * Worth(Other(order.denom))
      [] order.type = "limitsell" -> Worth(order.denom) >= order.trigger * Worth(Other(order.denom))
      [] order.type = "limitbuy" -> Worth(Other(order.denom)) <= order.trigger * Worth(order.denom)

\* The coins go to the owner, and the swap of them is queued.  A stop loss
\* takes any outcome of the trial.
ExecuteSpot(s, id, trial) ==
    LET order == s.orders["spot"][id]
        taken == IF order.type = "stoploss" THEN {"near", "far"} ELSE {"near"}
    IN  IF AtMarket(order) /\ trial \in taken
        THEN {[RemovePending(t, "spot", id) EXCEPT !.queued = @ \cup {id}] : t \in PayOut(s, "spot", id)}
        ELSE {s}

-----------------------------------------------------------------------------
(***************************************************************************)
(* Limit orders on positions.                                              *)
(***************************************************************************)
\* HandleOpenEstimation at a limit price: the open price, as a fraction.  The
\* market only decides whether the swaps can be estimated.
OpenEstimation(s, side, d, amount, leverage, takeProfit, limit) ==
    LET leveraged == ProxyLeverage(side, leverage) * amount
        loan == leveraged - amount
        bought == leveraged \div limit
        owed == loan \div limit
        past == IF side = "long" THEN takeProfit <= limit ELSE takeProfit >= limit
    IN  IF leverage <= 1 \/ (side = "short" /\ d = "trading") \/ (takeProfit # None /\ past)
        THEN {}
        ELSE IF side = "long" /\ d = "base"
        THEN {[num |-> leveraged, den |-> bought] :
                q \in {e \in EstimateSwapGivenIn(s, d, leveraged) : bought > 0}}
        ELSE IF side = "long"
        THEN {[num |-> loan * limit, den |-> loan] : q \in EstimateSwapGivenOut(s, d, loan)}
        ELSE {IF owed = 0 THEN [num |-> 0, den |-> 1] ELSE [num |-> loan, den |-> owed] :
                q \in EstimateSwapGivenOut(s, d, loan)}

\* The outcomes of an order that failed when it had written "written": its
\* cached context is dropped.  Mutant: there is no cached context.
RevertedUncached(s, written) == IF written = {} THEN {s} ELSE written
Reverted(s, written) == {s}

ExecuteLimitOpen(s, id) ==
    LET o == s.orders["perp"][id]
        Executable(e) == IF o.side = "long" THEN e.num <= o.trigger * e.den
                         ELSE e.num >= o.trigger * e.den
        paid == IF \E e \in OpenEstimation(s.chain, o.side, o.denom, o.amount, o.leverage,
                                           o.takeProfit, o.trigger) : Executable(e)
                THEN PayOut(s, "perp", id) ELSE {}
        opened == UNION {{[RemovePending(r, "perp", id) EXCEPT !.chain = t] :
                            t \in Open(r.chain, o.owner, o.side, o.denom, o.amount,
                                       o.leverage, o.takeProfit)} : r \in paid}
    IN  IF opened # {} THEN opened ELSE Reverted(s, paid)

\* HandleCloseEstimation: the swap that pays the debt of the closed part.
CloseEstimation(s, id, amount) ==
    LET settled == SettleFunding(s, id)
        m == settled.mtps[id]
        whole == IF m.side = "long" THEN m.custody - InterestInCustody(m) ELSE m.liabilities
        ratio == IF amount > 0 /\ amount < whole THEN Quo(amount, whole) ELSE One
    IN  EstimateSwapGivenOut(s, LiabilitiesDenom(m.side), Times(ratio, m.liabilities))

\* What a close that fails has written: the settled funding, and the interest
\* that was paid.
Unfinished(s, id) ==
    LET settled == SettleFunding(GetAmmPool(s), id)
        m == settled.mtps[id]
        missing == InterestInCustody(m) - m.custody
        d == CustodyDenom(m.side)
    IN  IF FundingDue(s.mtps[id]) > s.mtps[id].custody THEN {settled}
        ELSE IF missing > 0
             THEN IF s.insurance[d] >= missing
                  THEN {[Receive(settled, d, missing) EXCEPT !.insurance[d] = @ - missing]}
                  ELSE {settled}
        ELSE IF PayInterest(settled, id) = {} THEN {settled} ELSE PayInterest(settled, id)

\* The order does not know its side, and no price of it is compared.
ExecuteLimitClose(s, id) ==
    LET o == s.orders["perp"][id]
        amount == (o.percentage * s.chain.mtps[o.position].custody) \div 100
        closed == Close(s.chain, o.position, amount)
    IN  IF \/ o.position \notin s.chain.open \/ amount = 0
           \/ CloseEstimation(s.chain, o.position, amount) = {}
        THEN {s}
        ELSE IF closed = {} THEN {[s EXCEPT !.chain = t] : t \in Unfinished(s.chain, o.position)}
        ELSE {[RemovePending(s, "perp", id) EXCEPT !.chain = t] : t \in closed}

ExecutePerp(s, id) ==
    IF s.orders["perp"][id].type = "limitopen" THEN ExecuteLimitOpen(s, id)
    ELSE ExecuteLimitClose(s, id)

\* An order that is not found fails the list.
ThenSpot(s, id, trial) == IF id \in Pending(s, "spot") THEN ExecuteSpot(s, id, trial[id]) ELSE {}
ThenPerp(s, id) == IF id \in Pending(s, "perp") THEN ExecutePerp(s, id) ELSE {}

\* The states from S after each order of a list; trial says what becomes of
\* the swaps of spot orders.
SpotRun(S, list, trial) ==
    LET run[i \in 0 .. Len(list)] ==
            IF i = 0 THEN S ELSE UNION {ThenSpot(t, list[i], trial) : t \in run[i - 1]}
    IN  run

PerpRun(S, list) ==
    LET run[i \in 0 .. Len(list)] ==
            IF i = 0 THEN S ELSE UNION {ThenPerp(t, list[i]) : t \in run[i - 1]}
    IN  run

\* Spot orders come first.
ExecuteAll(s, spot, perp, trial) ==
    PerpRun(SpotRun({s}, spot, trial)[Len(spot)], perp)[Len(perp)]

-----------------------------------------------------------------------------
(***************************************************************************)
(* Messages.                                                               *)
(***************************************************************************)
DeliverWorld(S) ==
    \E s \in S : BecomeWorld(s) /\ UNCHANGED <<price, rates, flows, moves, scope>>

CreateSpotOrder(u, type, d, amount, trigger) ==
    /\ counts["spot"] < MaxOrders
    /\ DeliverWorld({AppendPending(World, "spot",
          [type |-> type, owner |-> u, denom |-> d, amount |-> amount, trigger |-> trigger])})
    /\ UNCHANGED updates

CreatePerpetualOpenOrder(u, side, d, amount, leverage, takeProfit, trigger) ==
    /\ counts["perp"] < MaxOrders
    /\ OpenEstimation(Chain, side, d, amount, leverage, takeProfit, trigger) # {}
    /\ DeliverWorld({AppendPending(World, "perp",
          [type |-> "limitopen", owner |-> u, side |-> side, denom |-> d, amount |-> amount,
           leverage |-> leverage, takeProfit |-> takeProfit, trigger |-> trigger])})
    /\ UNCHANGED updates

CreatePerpetualCloseOrder(id, percentage, trigger) ==
    /\ counts["perp"] < MaxOrders /\ id \in open
    /\ DeliverWorld({AppendPending(World, "perp",
          [type |-> "limitclose", owner |-> mtps[id].owner, position |-> id,
           percentage |-> percentage, trigger |-> trigger])})
    /\ UNCHANGED updates

\* A perpetual order's new price must leave its take-profit price on the other
\* side; a long without one cannot be changed.  (The same price again changes
\* nothing.)
UpdateOrder(kind, id, trigger) ==
    LET o == orders[kind][id] IN
    /\ updates < MaxUpdates /\ updates' = updates + 1
    /\ id \in Pending(World, kind) /\ o.trigger # trigger
    /\ o.type = "limitopen" =>
          IF o.side = "long" THEN o.takeProfit > trigger ELSE o.takeProfit < trigger
    /\ DeliverWorld({[World EXCEPT !.orders[kind][id].trigger = trigger]})

\* One order of the owner, some of them, or all.
CancelOrders(u, kind, ids) ==
    /\ ids # {} /\ ids \subseteq Pending(World, kind)
    /\ \A id \in ids : orders[kind][id].owner = u
    /\ DeliverWorld({Cancel(World, kind, ids)})
    /\ UNCHANGED updates

\* Anybody submits a list, not an empty one.
ExecuteOrders(spot, perp, trial) ==
    /\ spot # <<>> \/ perp # <<>>
    /\ counter.last + Len(perp) <= MaxPositions
    /\ DeliverWorld(ExecuteAll(World, spot, perp, trial))
    /\ UNCHANGED updates

\* What may happen to the orders' positions and prices besides.
Besides ==
    \/ \E id \in open, amount \in CloseAmounts : MsgClose(id, amount)
    \/ \E id \in open : MsgClosePositions(id)
    \/ \E borrowRate \in BorrowRates : BeginBlocker(borrowRate)
    \/ \E p \in Prices : SetPrice(p)
    \/ \E change \in Flows : AmmFlow(change)

\* Lists of at most two pending orders of a kind.
Lists(kind) == UNION {[1 .. n -> Pending(World, kind)] : n \in 0 .. MaxList}

SpotOrderCreated ==
    \E u \in Traders, type \in {"stoploss", "limitsell", "limitbuy"}, d \in Denoms,
       amount \in Collaterals, trigger \in Triggers :
       CreateSpotOrder(u, type, d, amount, trigger)

PerpetualOrderCreated ==
    \/ \E u \in Traders, side \in Sides, d \in Denoms, amount \in Collaterals,
          leverage \in Leverages, takeProfit \in Targets \cup {None}, trigger \in Triggers :
          CreatePerpetualOpenOrder(u, side, d, amount, leverage, takeProfit, trigger)
    \/ \E id \in open, percentage \in Percentages, trigger \in Triggers :
          CreatePerpetualCloseOrder(id, percentage, trigger)

AboutOrders ==
    \/ Besides /\ UNCHANGED orderVars
    \/ \E kind \in Kinds, id \in OrderIds, trigger \in Triggers : UpdateOrder(kind, id, trigger)
    \/ \E u \in Traders, kind \in Kinds, ids \in SUBSET OrderIds : CancelOrders(u, kind, ids)
    \/ \E spot \in Lists("spot"), perp \in Lists("perp"),
          trial \in [Pending(World, "spot") -> {"refused", "far", "near"}] :
          ExecuteOrders(spot, perp, trial)

OrdersNext ==
    \/ scope = "messages" /\ Next /\ UNCHANGED orderVars
    \/ scope = "spot" /\ SpotOrderCreated
    \/ scope = "perp" /\ PerpetualOrderCreated
    \/ scope # "messages" /\ AboutOrders

OrdersSpec == OrdersInit /\ [][OrdersNext]_allVars

-----------------------------------------------------------------------------
(***************************************************************************)
(* The address of a pending order holds the coins the order spends, and    *)
(* that of any other id nothing, whatever became of the lists it was in:   *)
(* an order that failed can be executed again or cancelled, and no coins   *)
(* stay behind at an address that no message pays out.                     *)
(***************************************************************************)
EscrowHoldsOrder ==
    \A kind \in Kinds, id \in OrderIds : escrow[kind][id] = Cost(orders[kind][id])

(***************************************************************************)
(* "The blockchain will still verify that the execution criteria of        *)
(* submitted orders are met before executing them": a limit order opens a  *)
(* long when the market is at most, a short when it is at least, at its    *)
(* price.  (An order that is cancelled leaves the positions alone.)        *)
(***************************************************************************)
OpensAtMarket ==
    [][\A id \in OrderIds :
         LET o == orders["perp"][id] IN
         o.type = "limitopen" /\ orders'["perp"][id] = NoOrder /\ chain' # chain =>
            IF o.side = "long" THEN price <= o.trigger ELSE price >= o.trigger]_allVars
=============================================================================
