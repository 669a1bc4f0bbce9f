-------------------------------- MODULE Amm --------------------------------
(***************************************************************************)
(* x/amm: swaps through pools without an oracle, of two assets of equal    *)
(* weight, and the batch in which they are executed.  A swap message is    *)
(* tried, and queued in a transient store; EndBlocker takes the requests   *)
(* one by one, in an order that does not depend on their arrival, each     *)
(* together with the first request of the opposite direction.              *)
(*                                                                         *)
(* What a message does is an operator from a state of the chain to its     *)
(* outcome: the set of the one state it leaves, or the empty set, when it  *)
(* fails and is reverted.  Fees are numbers of 1/One.  Quotients are exact *)
(* before they are rounded to a coin: the code's have 36 digits, so where  *)
(* the exact value is an integer a trader may get one coin less.           *)
(***************************************************************************)
EXTENDS ElysMath, FiniteSets, Sequences

CONSTANTS
    NumUsers,          \* accounts, numbered in the order of their addresses
    NumDenoms,         \* denoms, numbered in the order of their names
    Slashed,           \* denoms with a "/" in their names, as ibc/... has
    Assets,            \* Assets[p] is the pair of denoms of pool p
    FeeDenom,          \* PoolParams.FeeDenom of every pool
    Liquidity,         \* what every pool holds at first
    Wallets,           \* what every account holds at first
    One,               \* the precision of a decimal
    SwapFee, TakerFee, \* PoolParams.SwapFee and Params.TakerFees
    Discount,          \* the discount of every account's membership tier
    UpfrontMakers,     \* Params.AllowedUpfrontSwapMakers
    Messages,          \* the swap messages, see MessageType
    Transfers,         \* amounts of x/bank transfers between accounts
    MaxDelivered,      \* bound: messages of a behaviour
    MaxHeight          \* bound: last block

Users == 1 .. NumUsers
Denoms == 1 .. NumDenoms
Pools == DOMAIN Assets

\* A route is a sequence of hops; a hop names the denom it pays out (in an
\* exact amount in) or takes (in an exact amount out), as the routes of the
\* messages do.  limit is TokenOutMinAmount or TokenInMaxAmount.
HopType == [pool : Pools, denom : Denoms]

ASSUME AmmAssumption ==
    /\ NumUsers \in Nat /\ NumDenoms \in Nat /\ Slashed \subseteq Denoms
    /\ Assets \in Seq(SUBSET Denoms) /\ \A p \in Pools : Cardinality(Assets[p]) = 2
    /\ FeeDenom \in [Pools -> Denoms] /\ Liquidity \in [Pools -> [Denoms -> Nat]]
    /\ Wallets \in [Users -> [Denoms -> Nat]]
    /\ One \in Nat \ {0} /\ SwapFee \in Nat /\ TakerFee \in Nat /\ SwapFee + TakerFee < One
    /\ Discount \in [Users -> 0 .. One]
    /\ UpfrontMakers \subseteq Users /\ Transfers \subseteq Nat \ {0}
    /\ MaxDelivered \in Nat /\ MaxHeight \in Nat \ {0}
    /\ \A m \in Messages :
          /\ m.kind \in {"in", "out"} /\ m.sender \in Users /\ m.recipient \in Users
          /\ m.denom \in Denoms /\ m.amount \in Nat \ {0} /\ m.limit \in Nat
          /\ m.hops \in Seq(HopType) /\ m.hops # <<>>

VARIABLES
    liquidity,         \* PoolAssets of every pool
    denomLiquidity,    \* DenomLiquidity of every denom
    bank,              \* balances
    queue,             \* the transient store of requests
    lastIndex,         \* LastSwapRequestIndex
    phase,             \* "deliver" while transactions run, then "batch"
    height,            \* block height
    delivered          \* history: messages that succeeded

vars == <<liquidity, denomLiquidity, bank, queue, lastIndex, phase, height, delivered>>

Owner(u) == <<"user", u>>
PoolAddress(p) == <<"pool", p>>
Revenue(p) == <<"revenue", p>>
TakerFees == <<"taker", 0>>
Accounts == {Owner(u) : u \in Users} \cup {PoolAddress(p) : p \in Pools}
            \cup {Revenue(p) : p \in Pools} \cup {TakerFees}

\* The part of the state a message may change, as a record.
Chain == [liquidity |-> liquidity, denomLiquidity |-> denomLiquidity, bank |-> bank]

Become(s) ==
    liquidity' = s.liquidity /\ denomLiquidity' = s.denomLiquidity /\ bank' = s.bank

Init ==
    /\ liquidity = Liquidity
    /\ denomLiquidity = [d \in Denoms |-> Sum([p \in Pools |-> Liquidity[p][d]], Len(Assets))]
    /\ bank = [a \in Accounts |-> CASE a[1] = "user" -> Wallets[a[2]]
                                    [] a[1] = "pool" -> Liquidity[a[2]]
                                    [] OTHER -> [d \in Denoms |-> 0]]
    /\ queue = {} /\ lastIndex = 0 /\ phase = "deliver" /\ height = 1 /\ delivered = 0

-----------------------------------------------------------------------------
(***************************************************************************)
(* The curve x * y = constant of a pool of equal weights.  The trade pays  *)
(* amount and only part/whole of it follows the curve.                     *)
(***************************************************************************)
Other(p, d) == CHOOSE e \in Assets[p] : e # d

\* Fees that may be discounted, and what is left of them, are numbers of
\* 1/Whole(hops), divided by the hops of the route.
Whole(hops) == One * One * hops

FullFee == SwapFee * One

\* The fee at which a sender's swap is executed.
ApplyDiscount(u) == SwapFee * (One - Discount[u])

\* Mutant: the swap fee is not deducted from the amount that follows the curve.
CurvePartWithoutFee(fee, hops) == Whole(hops)

CurvePart(fee, hops) == Whole(hops) - fee

CalcOutAmtGivenIn(s, p, d, amount, part, whole) ==
    {out \in {TruncateInt(s.liquidity[p][Other(p, d)] * amount * part,
                          s.liquidity[p][d] * whole + amount * part)} : out > 0}

\* What buys amount of the other denom.
CalcInAmtGivenOut(s, p, d, amount, part, whole) ==
    {CeilInt(s.liquidity[p][d] * amount * whole, left * part) :
        left \in {s.liquidity[p][Other(p, d)] - amount} \cap (Nat \ {0})}

\* RoundInt of a portion, a half to the even neighbour.
PortionCoins(amount, portion, whole) ==
    LET q == (amount * portion) \div whole
        r == 2 * ((amount * portion) % whole)
    IN  IF r < whole \/ (r = whole /\ q % 2 = 0) THEN q ELSE q + 1

-----------------------------------------------------------------------------
(***************************************************************************)
(* Transfers and the records of the pools.                                 *)
(***************************************************************************)
Send(s, from, to, d, n) ==
    IF s.bank[from][d] < n THEN {}
    ELSE {[s EXCEPT !.bank[from][d] = @ - n, !.bank[to][d] = @ + n]}

AddToPoolBalance(s, p, d, n) ==
    [s EXCEPT !.liquidity[p][d] = @ + n, !.denomLiquidity[d] = @ + n]

RemoveFromPoolBalance(s, p, d, n) ==
    IF s.liquidity[p][d] < n \/ s.denomLiquidity[d] < n THEN {}
    ELSE {[s EXCEPT !.liquidity[p][d] = @ - n, !.denomLiquidity[d] = @ - n]}

Exchange(s, p, from, to, d, in, out) ==
    LET paid == {AddToPoolBalance(t, p, d, in) : t \in Send(s, from, PoolAddress(p), d, in)}
        given == UNION {Send(t, PoolAddress(p), to, Other(p, d), out) : t \in paid}
    IN  UNION {RemoveFromPoolBalance(t, p, Other(p, d), out) : t \in given}

\* Mutant: the pool's record keeps the fee that has left its account.
TakeFeeUnrecorded(s, p, d, fee, to) == Send(s, PoolAddress(p), to, d, fee)

TakeFee(s, p, d, fee, to) ==
    IF fee = 0 THEN {s}
    ELSE UNION {RemoveFromPoolBalance(t, p, d, fee) : t \in Send(s, PoolAddress(p), to, d, fee)}

(***************************************************************************)
(* A swap fee goes through the rebalance treasury to the pool's revenue    *)
(* address and is swapped to the fee denom in the same pool, at no fee.    *)
(* When that fails the revenue address keeps the fee.  It can only fail    *)
(* before it has touched the pool: leveraged positions, whose modules'     *)
(* hooks could refuse it later, are in pools with an oracle only, and the  *)
(* account holds what the record says (PoolsBacked).                       *)
(***************************************************************************)
SwapFeesToRevenueToken(s, p, d, fee) ==
    IF FeeDenom[p] # Other(p, d) THEN {}
    ELSE UNION {Exchange(s, p, Revenue(p), Revenue(p), d, fee, out) :
                  out \in CalcOutAmtGivenIn(s, p, d, fee, 1, 1)}

OnCollectFee(s, p, d, fee) ==
    LET swapped == SwapFeesToRevenueToken(s, p, d, fee)
    IN  IF fee = 0 \/ d = FeeDenom[p] \/ swapped = {} THEN {s} ELSE swapped

UpdatePoolForSwap(s, p, from, to, d, in, out, fee, hops) ==
    LET taker == PortionCoins(in, TakerFee, One * hops)
        coins == PortionCoins(in, fee, Whole(hops))
        traded == Exchange(s, p, from, to, d, in, out)
        afterTaker == UNION {TakeFee(t, p, d, taker, TakerFees) : t \in traded}
        afterFee == UNION {TakeFee(t, p, d, coins, Revenue(p)) : t \in afterTaker}
    IN  UNION {OnCollectFee(t, p, d, coins) : t \in afterFee}

-----------------------------------------------------------------------------

Enough(amount, limit) == amount >= limit

InternalSwapExactAmountIn(s, p, from, to, d, in, e, min, fee, hops) ==
    LET outs == {out \in CalcOutAmtGivenIn(s, p, d, in, CurvePart(fee, hops), Whole(hops)) :
                    Enough(out, min)}
    IN  IF {d, e} # Assets[p] THEN {}
        ELSE UNION {{[chain |-> t, denom |-> e, amount |-> out] :
                       t \in UpdatePoolForSwap(s, p, from, to, d, in, out, fee, hops)}
                    : out \in outs}

InternalSwapExactAmountOut(s, p, from, to, d, max, out, fee, hops) ==
    LET ins == {in \in CalcInAmtGivenOut(s, p, d, out, CurvePart(fee, hops), Whole(hops)) :
                   in <= max}
    IN  UNION {UpdatePoolForSwap(s, p, from, to, d, in, out, fee, hops) : in \in ins}

(***************************************************************************)
(* Routes.  An exact amount in pays the sender between two hops and the    *)
(* recipient at the end; an exact amount out pays the recipient at every   *)
(* hop, while the sender pays at every hop.                                *)
(***************************************************************************)
\* Hop i of an exact amount in, after the outcome o of the hop before it.
NextHopIn(m, recipient, i, o) ==
    LET n == Len(m.hops)
    IN  InternalSwapExactAmountIn(o.chain, m.hops[i].pool, Owner(m.sender),
            IF i = n THEN Owner(recipient) ELSE Owner(m.sender), o.denom, o.amount,
            m.hops[i].denom, IF i = n THEN m.limit ELSE 1, ApplyDiscount(m.sender), n)

\* What the first i hops leave, with what they paid out.
HopsIn(s, m, recipient) ==
    LET after[i \in 0 .. Len(m.hops)] ==
            IF i = 0 THEN {[chain |-> s, denom |-> m.denom, amount |-> m.amount]}
            ELSE UNION {NextHopIn(m, recipient, i, o) : o \in after[i - 1]}
    IN  after

RouteExactAmountIn(s, m, recipient) ==
    {o.chain : o \in HopsIn(s, m, recipient)[Len(m.hops)]}

OutDenomOf(m, i) == IF i = Len(m.hops) THEN m.denom ELSE m.hops[i + 1].denom

\* What hop i needs to pay out the amount out, at the fee without a discount.
ExpectedIn(s, m, i, out) ==
    LET n == Len(m.hops)
    IN  IF {m.hops[i].denom, OutDenomOf(m, i)} # Assets[m.hops[i].pool] THEN {}
        ELSE CalcInAmtGivenOut(s, m.hops[i].pool, m.hops[i].denom, out, CurvePart(FullFee, n),
                               Whole(n))

\* What the last k hops need to pay out the amount: all hops' amounts are
\* estimated on the state before the first one.
createMultihopExpectedSwapOuts(s, m) ==
    LET needed[k \in 0 .. Len(m.hops)] ==
            IF k = 0 THEN {m.amount}
            ELSE UNION {ExpectedIn(s, m, Len(m.hops) - k + 1, out) : out \in needed[k - 1]}
    IN  needed

\* Hop i of an exact amount out, after the state t that the hop before it left.
NextHopOut(m, needed, i, t) ==
    LET n == Len(m.hops)
    IN  UNION {InternalSwapExactAmountOut(t, m.hops[i].pool, Owner(m.sender),
                   Owner(m.recipient), m.hops[i].denom, max, out, ApplyDiscount(m.sender), n)
               : max \in IF i = 1 THEN {m.limit} ELSE needed[n - i + 1], out \in needed[n - i]}

HopsOut(s, m, needed) ==
    LET after[i \in 0 .. Len(m.hops)] ==
            IF i = 0 THEN {s} ELSE UNION {NextHopOut(m, needed, i, t) : t \in after[i - 1]}
    IN  after

RouteExactAmountOut(s, m) ==
    LET needed == createMultihopExpectedSwapOuts(s, m)
    IN  IF needed[Len(m.hops)] = {} THEN {} ELSE HopsOut(s, m, needed)[Len(m.hops)]

ApplySwapRequest(s, m) ==
    IF m.kind = "in" THEN RouteExactAmountIn(s, m, m.recipient) ELSE RouteExactAmountOut(s, m)

-----------------------------------------------------------------------------
(***************************************************************************)
(* The batch.  The requests of the transient store are ordered by denom    *)
(* in, pool and denom out (of the first hop of an exact amount in, of the  *)
(* last hop of an exact amount out), then by sender, then by arrival.      *)
(***************************************************************************)
LastHop(m) == m.hops[Len(m.hops)]

SwapPrefix(m) ==
    IF m.kind = "in" THEN <<m.denom, m.hops[1].pool, m.hops[1].denom>>
    ELSE <<LastHop(m).denom, LastHop(m).pool, m.denom>>

\* Mutant: requests are ordered by arrival before sender.
SwapKeyByArrival(r) ==
    LET k == SwapPrefix(r.msg) IN <<k[1], k[2], k[3], r.index, r.msg.sender>>

SwapKey(r) == LET k == SwapPrefix(r.msg) IN <<k[1], k[2], k[3], r.msg.sender, r.index>>

Precedes(k, l) ==
    \E i \in DOMAIN k : k[i] < l[i] /\ \A j \in 1 .. i - 1 : k[j] = l[j]

First(q) == {r \in q : \A o \in q \ {r} : Precedes(SwapKey(r), SwapKey(o))}

SelectOneSwapRequest(q) ==
    LET ins == {r \in q : r.msg.kind = "in"} IN First(IF ins # {} THEN ins ELSE q)

\* The prefix is reversed by splitting it at "/".
SelectReverseSwapRequest(q, r) ==
    LET k == SwapPrefix(r.msg)
    IN  IF {k[1], k[3]} \cap Slashed # {} THEN {}
        ELSE SelectOneSwapRequest({o \in q : SwapPrefix(o.msg) = <<k[3], k[2], k[1]>>})

\* Mutant: a request that fails on its own stays in the store.
RemovedUnlessFailed(r, opposite, mine, theirs) ==
    CASE opposite = {} -> IF mine = {} THEN {} ELSE {r}
      [] opposite # {} /\ mine # {} -> opposite
      [] opposite # {} /\ mine = {} /\ theirs # {} -> {r}
      [] OTHER -> {r} \cup opposite

\* When both directions would succeed the opposite one is executed, as both
\* stacked slippages are a pool's distance from itself; when only one would,
\* it stays and the other one is removed.
RemovedRequests(r, opposite, mine, theirs) ==
    CASE opposite = {} -> {r}
      [] opposite # {} /\ mine # {} -> opposite
      [] opposite # {} /\ mine = {} /\ theirs # {} -> {r}
      [] OTHER -> {r} \cup opposite

\* One round of ExecuteSwapRequests on the store q and the state s, from r.
Round(q, s, r) ==
    LET opposite == SelectReverseSwapRequest(q, r)
        mine == ApplySwapRequest(s, r.msg)
        theirs == UNION {ApplySwapRequest(s, o.msg) : o \in opposite}
        executed == IF opposite = {} THEN mine ELSE IF mine = {} THEN {} ELSE theirs
    IN  [queue |-> q \ RemovedRequests(r, opposite, mine, theirs),
         chain |-> IF executed = {} THEN s ELSE CHOOSE t \in executed : TRUE]

Rounds(q, s) == {Round(q, s, r) : r \in SelectOneSwapRequest(q)}

\* Another round, if the store is not empty.
NextRound(before) ==
    IF before.queue = {} THEN before
    ELSE CHOOSE x \in Rounds(before.queue, before.chain) : TRUE

\* The store and the state after n rounds.
AfterRounds(q, s) ==
    LET after[n \in 0 .. Cardinality(q)] ==
            IF n = 0 THEN [queue |-> q, chain |-> s] ELSE NextRound(after[n - 1])
    IN  after

-----------------------------------------------------------------------------
(***************************************************************************)
(* The actions.                                                            *)
(***************************************************************************)
\* Mutant: the counter is stored before it is raised.
FreshIndexLate == lastIndex

\* Index 0 means that there is no request.
FreshIndex == lastIndex + 1

\* SwapExactAmountIn and SwapExactAmountOut: tried on a cached state.
SwapExactAmount(m) ==
    /\ phase = "deliver" /\ delivered < MaxDelivered
    /\ ApplySwapRequest(Chain, m) # {}
    /\ queue' = queue \cup {[index |-> FreshIndex, msg |-> m]}
    /\ lastIndex' = FreshIndex /\ delivered' = delivered + 1
    /\ UNCHANGED <<liquidity, denomLiquidity, bank, phase, height>>

UpFrontSwapExactAmountIn(m) ==
    /\ phase = "deliver" /\ delivered < MaxDelivered
    /\ m.kind = "in" /\ m.sender \in UpfrontMakers
    /\ \E s \in RouteExactAmountIn(Chain, m, m.sender) : Become(s)
    /\ delivered' = delivered + 1
    /\ UNCHANGED <<queue, lastIndex, phase, height>>

Transfer(u, v, d, amount) ==
    /\ phase = "deliver" /\ delivered < MaxDelivered /\ u # v
    /\ \E s \in Send(Chain, Owner(u), Owner(v), d, amount) : Become(s)
    /\ delivered' = delivered + 1
    /\ UNCHANGED <<queue, lastIndex, phase, height>>

\* EndBlocker starts when the block's transactions have run.
BeginBatch ==
    /\ phase = "deliver" /\ phase' = "batch"
    /\ UNCHANGED <<liquidity, denomLiquidity, bank, queue, lastIndex, height, delivered>>

\* One round of ExecuteSwapRequests.
SettleOne ==
    /\ phase = "batch" /\ queue # {}
    /\ \E next \in Rounds(queue, Chain) : queue' = next.queue /\ Become(next.chain)
    /\ UNCHANGED <<lastIndex, phase, height, delivered>>

\* The block is committed, which clears the transient store.
FinishBlock ==
    /\ phase = "batch" /\ queue = {} /\ height < MaxHeight
    /\ phase' = "deliver" /\ lastIndex' = 0 /\ height' = height + 1
    /\ UNCHANGED <<liquidity, denomLiquidity, bank, queue, delivered>>

Next ==
    \/ \E m \in Messages : SwapExactAmount(m)
    \/ \E m \in Messages : UpFrontSwapExactAmountIn(m)
    \/ \E u, v \in Users, d \in Denoms, amount \in Transfers : Transfer(u, v, d, amount)
    \/ BeginBatch
    \/ SettleOne
    \/ FinishBlock

Spec == Init /\ [][Next]_vars /\ WF_vars(SettleOne)
-----------------------------------------------------------------------------
(***************************************************************************)
(* Type correctness.                                                       *)
(***************************************************************************)
TypeOK ==
    /\ liquidity \in [Pools -> [Denoms -> Nat]]
    /\ denomLiquidity \in [Denoms -> Nat]
    /\ bank \in [Accounts -> [Denoms -> Nat]]
    /\ queue \subseteq [index : 1 .. lastIndex, msg : Messages]
    /\ lastIndex \in 0 .. delivered
    /\ phase \in {"deliver", "batch"} /\ height \in 1 .. MaxHeight
    /\ delivered \in 0 .. MaxDelivered

(***************************************************************************)
(* A pool's record is what its account holds, and the liquidity of a denom *)
(* is the total over the pools: a swap changes the three in separate calls *)
(* for the trade, the taker fee and the swap fee, and the fee is traded in *)
(* the same pool in the middle of it (update_pool_for_swap.go, fee.go).    *)
(***************************************************************************)
PoolsBacked ==
    /\ \A p \in Pools : liquidity[p] = bank[PoolAddress(p)]
    /\ \A d \in Denoms :
          denomLiquidity[d] = Sum([p \in Pools |-> liquidity[p][d]], Len(Assets))

(***************************************************************************)
(* What the batch does to the pools and to every wallet does not depend on *)
(* the order in which the transactions of different senders arrived, as    *)
(* the comment on the keys of the store claims (types/keys.go): moving a   *)
(* swap before that of another sender gains nothing.                       *)
(***************************************************************************)
BatchOutcome(q, s) == AfterRounds(q, s)[Cardinality(q)].chain

Arrivals == {f \in [1 .. lastIndex -> 1 .. lastIndex] :
    /\ \A i, j \in 1 .. lastIndex : i # j => f[i] # f[j]
    /\ \A r, o \in queue :
          r.msg.sender = o.msg.sender /\ r.index < o.index => f[r.index] < f[o.index]}

ArrivalOrderIrrelevant ==
    phase = "deliver" =>
      \A f \in Arrivals :
         BatchOutcome({[r EXCEPT !.index = f[r.index]] : r \in queue}, Chain)
           = BatchOutcome(queue, Chain)

(***************************************************************************)
(* The product of a pool's balances, of which its shares are a part, falls *)
(* in no swap by more than the taker fee, which is paid from the pool, and *)
(* the half coin by which the swap fee may be rounded up: not when curve,  *)
(* fees and the trade of the fee are taken together, over several hops.    *)
(***************************************************************************)
Product(holdings, p) == LET d == CHOOSE e \in Assets[p] : TRUE
                        IN  holdings[p][d] * holdings[p][Other(p, d)]

ProvidersKeepProduct ==
    [][\A p \in Pools : \E d \in Assets[p] :
         2 * (Product(liquidity, p) - Product(liquidity', p))
           <= (2 * (bank'[TakerFees][d] - bank[TakerFees][d]) + 1)
                * liquidity[p][Other(p, d)]]_vars

(***************************************************************************)
(* A request is executed rounds, or up-front swaps, after it was tried:    *)
(* still the sender pays at most what the request says, the recipient gets *)
(* at least what it says, and no other wallet moves.  Between the hops of  *)
(* an exact amount out the sender pays no more than the recipient gets;    *)
(* less when a discount makes a hop cheaper than the estimate, by which    *)
(* the hop before it paid the recipient.                                   *)
(***************************************************************************)
InDenom(m) == IF m.kind = "in" THEN m.denom ELSE m.hops[1].denom
OutDenom(m) == IF m.kind = "in" THEN LastHop(m).denom ELSE m.denom
Most(m) == IF m.kind = "in" THEN m.amount ELSE m.limit
Least(m) == IF m.kind = "in" THEN m.limit ELSE m.amount

Between(m) == IF m.kind = "in" \/ m.sender = m.recipient THEN {}
              ELSE {m.hops[i].denom : i \in 2 .. Len(m.hops)}

Change(u, d) == bank'[Owner(u)][d] - bank[Owner(u)][d]

Within(m) ==
    /\ Change(m.sender, InDenom(m)) + Most(m) >= 0
    /\ Change(m.recipient, OutDenom(m)) >= Least(m)
    /\ \A u \in Users, d \in Denoms :
         <<u, d>> \notin {<<m.sender, InDenom(m)>>, <<m.recipient, OutDenom(m)>>} =>
            IF u \in {m.sender, m.recipient} /\ d \in Between(m)
            THEN Change(m.sender, d) <= 0 /\ Change(m.sender, d) + Change(m.recipient, d) >= 0
            ELSE Change(u, d) = 0


(***************************************************************************)
(* EndBlocker's loop ends, whatever fails in it: every round takes at      *)
(* least one request from the store.                                       *)
(***************************************************************************)
BatchEnds == phase = "batch" ~> queue = {}
=============================================================================
