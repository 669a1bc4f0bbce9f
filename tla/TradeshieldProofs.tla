-------------------------- MODULE TradeshieldProofs --------------------------
(***************************************************************************)
(* Proofs about x/perpetual and x/tradeshield for any traders, prices,     *)
(* amounts, rates, fees and numbers of positions and orders: the pool's    *)
(* totals follow the positions through every branch of every message, and  *)
(* the address of an order holds its coins.                                *)
(*                                                                         *)
(* Every function of the keeper is shown to lead from sound states to      *)
(* sound states; a message is sound because the functions it calls are.    *)
(***************************************************************************)
EXTENDS Tradeshield, ElysMathTheorems, FiniteSetTheorems

-----------------------------------------------------------------------------
(***************************************************************************)
(* States of the pool's chain, and the columns of its ledger.              *)
(***************************************************************************)
Position ==
    [owner : Traders, side : Sides, denom : Denoms, collateral : Nat, liabilities : Nat,
     custody : Nat, unpaid : Nat, stopLoss : Nat, takeProfit : Nat, block : 1 .. Len(rates)]

SideTotals == [custody : Int, liabilities : Int, collateral : [Denoms -> Int]]

State ==
    [mtps : [Ids -> Position \cup {NoMTP}], open : SUBSET Ids,
     counter : [last : Nat, totalOpen : Int], pool : [Sides -> SideTotals],
     amm : [Denoms -> Nat], held : [Denoms -> Nat], bank : [Denoms -> Nat],
     insurance : [Denoms -> Nat], accounted : [Denoms -> Int], nonAmm : [Denoms -> Int]]

\* The handler's copy of the AMM pool is the record, or has besides a fee whose
\* swap was refused, perhaps with what was to be paid for it.
Aligned(s) == s.held = s.amm

SlippedBy(s, fee) ==
    /\ s.held["trading"] = s.amm["trading"] + fee
    /\ s.held["base"] \in {s.amm["base"], s.amm["base"] - price * fee}

Slipped(s) == \E fee \in Nat : SlippedBy(s, fee)

SameCopy(s, t) == t.held = s.held /\ t.amm = s.amm

\* The store has the positions with an id in open, and ids are given in turn.
Stored(s) ==
    /\ \A id \in s.open : /\ s.mtps[id] \in Position
                          /\ s.mtps[id].side = "short" => s.mtps[id].denom = "base"
                          /\ id <= s.counter.last
    /\ \A id \in Ids \ s.open : s.mtps[id] = NoMTP
    /\ s.counter.last <= MaxPositions
    /\ s.counter.totalOpen = Cardinality(s.open)

\* A column is custody, liabilities, or collateral in a denom.
Columns == {"custody", "liabilities", "base", "trading"}

Amount(m, c) ==
    IF c = "custody" THEN m.custody
    ELSE IF c = "liabilities" THEN m.liabilities
    ELSE IF m.denom = c THEN m.collateral ELSE 0

Part(m, side, c) == IF m.side = side THEN Amount(m, c) ELSE 0

Recorded(s, side, c) ==
    IF c = "custody" THEN s.pool[side].custody
    ELSE IF c = "liabilities" THEN s.pool[side].liabilities
    ELSE s.pool[side].collateral[c]

Column(s, side, c) == [id \in Ids |-> Part(s.mtps[id], side, c)]

Gap(s, side, c) == Recorded(s, side, c) - Sum(Column(s, side, c), MaxPositions)

Balanced(s) == \A side \in Sides, c \in Columns : Gap(s, side, c) = 0

Sound == {s \in State : Stored(s) /\ Balanced(s)}

\* What the messages read of prices and rates.
RateType == [borrow : Int, long : Int, short : Int, toShorts : Int, toLongs : Int]

Market ==
    /\ price \in Nat \ {0}
    /\ rates \in Seq(RateType) /\ Len(rates) >= 1
    /\ \A i \in 1 .. Len(rates) : /\ rates[i].toShorts <= Now.toShorts
                                  /\ rates[i].toLongs <= Now.toLongs

LEMMA Constants ==
  /\ "base" \in Denoms /\ "trading" \in Denoms /\ "long" \in Sides /\ "short" \in Sides
  /\ \A d \in Denoms : d = "base" \/ d = "trading"
  /\ \A side \in Sides : side = "long" \/ side = "short"
  /\ Denoms \subseteq Columns /\ "none" \notin Sides /\ "none" \notin Denoms
  /\ MaxPositions \in Nat /\ One \in Nat \ {0}
BY PerpetualAssumption DEF Denoms, Sides, Columns

LEMMA SideDenoms ==
  ASSUME NEW side \in Sides
  PROVE  CustodyDenom(side) \in Denoms /\ LiabilitiesDenom(side) \in Denoms
BY DEF CustodyDenom, LiabilitiesDenom, Denoms

LEMMA DenomSides ==
  ASSUME NEW d \in Denoms
  PROVE  Holders(d) \in Sides /\ Borrowers(d) \in Sides /\ Other(d) \in Denoms
BY DEF Holders, Borrowers, Other, Sides, Denoms

LEMMA PartType ==
  ASSUME NEW m \in Position \cup {NoMTP}, NEW side \in Sides, NEW c \in Columns
  PROVE  Part(m, side, c) \in Nat
<1>1. CASE m \in Position
  <2>1. m.custody \in Nat /\ m.liabilities \in Nat /\ m.collateral \in Nat
    BY <1>1 DEF Position
  <2> QED BY <2>1 DEF Part, Amount
<1>2. CASE m = NoMTP
  BY <1>2, Constants DEF NoMTP, Part
<1> QED BY <1>1, <1>2

LEMMA RecordedType ==
  ASSUME NEW s \in State, NEW side \in Sides, NEW c \in Columns
  PROVE  Recorded(s, side, c) \in Int
<1>1. s.pool[side] \in SideTotals
  BY DEF State
<1>2. s.pool[side].custody \in Int /\ s.pool[side].liabilities \in Int
      /\ s.pool[side].collateral \in [Denoms -> Int]
  BY <1>1 DEF SideTotals
<1>3. c = "custody" \/ c = "liabilities" \/ c \in Denoms
  BY DEF Columns, Denoms
<1> QED BY <1>2, <1>3 DEF Recorded

LEMMA ColumnType ==
  ASSUME NEW s \in State, NEW side \in Sides, NEW c \in Columns
  PROVE  Column(s, side, c) \in [1 .. MaxPositions -> Nat]
<1>1. \A id \in Ids : s.mtps[id] \in Position \cup {NoMTP}
  BY DEF State
<1>2. \A id \in Ids : Part(s.mtps[id], side, c) \in Nat
  BY <1>1, PartType
<1> QED BY <1>2 DEF Column, Ids

(***************************************************************************)
(* When one position changes, the gap between record and positions changes *)
(* by what the record changes more than the position.                      *)
(***************************************************************************)
LEMMA GapMoves ==
  ASSUME NEW s \in State, NEW t \in State, NEW id \in Ids,
         \A j \in Ids \ {id} : t.mtps[j] = s.mtps[j],
         NEW side \in Sides, NEW c \in Columns
  PROVE  Gap(t, side, c) = Gap(s, side, c) + Recorded(t, side, c) - Recorded(s, side, c)
                             - Part(t.mtps[id], side, c) + Part(s.mtps[id], side, c)
<1> DEFINE f == Column(s, side, c)
           g == Column(t, side, c)
<1>1. f \in [1 .. MaxPositions -> Int] /\ g \in [1 .. MaxPositions -> Int]
  BY ColumnType
<1>2. \A j \in 1 .. MaxPositions : j # id => g[j] = f[j]
  BY DEF Column, Ids
<1>3. id \in 1 .. MaxPositions /\ MaxPositions \in Nat
  BY Constants DEF Ids
<1>4. f[id] = Part(s.mtps[id], side, c) /\ g[id] = Part(t.mtps[id], side, c)
  BY DEF Column
<1>5. f[id] \in Int /\ g[id] \in Int
  BY <1>1, <1>3
<1> HIDE DEF f, g
<1>6. Sum(g, MaxPositions) = Sum(f, MaxPositions) + g[id] - f[id]
  BY <1>1, <1>2, <1>3, SumUpdate
<1>7. Sum(f, MaxPositions) \in Int
  BY <1>1, <1>3, SumInt
<1>8. Recorded(s, side, c) \in Int /\ Recorded(t, side, c) \in Int
  BY RecordedType
<1> QED BY <1>4, <1>5, <1>6, <1>7, <1>8 DEF Gap, f, g

LEMMA SoundType ==
  ASSUME NEW s \in Sound
  PROVE  /\ s \in State /\ Stored(s) /\ Balanced(s)
         /\ \A id \in s.open : id \in Ids /\ s.mtps[id] \in Position
BY DEF Sound, Stored, State

-----------------------------------------------------------------------------
(***************************************************************************)
(* Functions of the keeper that move coins only.                           *)
(***************************************************************************)
SamePositions(s, t) ==
    t.mtps = s.mtps /\ t.open = s.open /\ t.counter = s.counter /\ t.pool = s.pool

\* t differs from s in balances only.
CoinsMoved(s, t) == t \in State /\ SamePositions(s, t)

LEMMA CoinsSound ==
  ASSUME NEW s \in Sound, NEW t, CoinsMoved(s, t)
  PROVE  t \in Sound
<1>1. t \in State /\ Stored(t)
  BY DEF Sound, Stored, CoinsMoved, SamePositions
<1>2. \A side \in Sides, c \in Columns : Gap(t, side, c) = Gap(s, side, c)
  BY DEF CoinsMoved, SamePositions, Gap, Recorded, Column
<1> QED BY <1>1, <1>2 DEF Sound, Balanced

LEMMA MovedTwice ==
  ASSUME NEW s, NEW t, NEW r, CoinsMoved(s, t), CoinsMoved(t, r)
  PROVE  CoinsMoved(s, r)
BY DEF CoinsMoved, SamePositions

LEMMA NotMoved ==
  ASSUME NEW s \in State
  PROVE  CoinsMoved(s, s)
BY DEF CoinsMoved, SamePositions

LEMMA WorthType ==
  ASSUME Market, NEW d
  PROVE  Worth(d) \in Nat \ {0}
BY DEF Worth, Market

\* The copy of the pool is only changed by what moves coins.
LEMMA CopyType ==
  ASSUME NEW s \in State, NEW d \in Denoms
  PROVE  s.amm[d] \in Nat /\ s.held[d] \in Nat /\ s.bank[d] \in Nat
BY DEF State

LEMMA SlipsIfAligned ==
  ASSUME Market, NEW s \in State, Aligned(s)
  PROVE  Slipped(s)
<1>1. "trading" \in Denoms /\ s.amm["trading"] \in Nat
  BY Constants, CopyType
<1>2. SlippedBy(s, 0)
  BY <1>1 DEF SlippedBy, Aligned
<1> QED BY <1>2 DEF Slipped

LEMMA CopySlips ==
  ASSUME NEW s, NEW t, SameCopy(s, t)
  PROVE  (Aligned(s) => Aligned(t)) /\ (Slipped(s) => Slipped(t))
BY DEF SameCopy, Aligned, Slipped, SlippedBy

LEMMA CopyTwice ==
  ASSUME NEW s, NEW t, NEW r, SameCopy(s, t), SameCopy(t, r)
  PROVE  SameCopy(s, r)
BY DEF SameCopy

LEMMA PoolRead ==
  ASSUME NEW s \in State, NEW t, t = GetAmmPool(s)
  PROVE  CoinsMoved(s, t) /\ Aligned(t)
BY DEF GetAmmPool, CoinsMoved, SamePositions, Aligned, State

LEMMA MovedMoves ==
  ASSUME NEW s \in State, NEW d \in Denoms, NEW n \in Int,
         s.held[d] + n >= 0, s.bank[d] + n >= 0, NEW t, t = Moved(s, d, n)
  PROVE  /\ CoinsMoved(s, t) /\ Aligned(t)
         /\ t.held = [s.held EXCEPT ![d] = s.held[d] + n]
<1>1. s.held \in [Denoms -> Nat] /\ s.bank \in [Denoms -> Nat]
  BY DEF State
<1>2. PICK copy, left : /\ copy = [s.held EXCEPT ![d] = s.held[d] + n]
                        /\ left = [s.bank EXCEPT ![d] = s.bank[d] + n]
  OBVIOUS
<1>3. copy \in [Denoms -> Nat] /\ left \in [Denoms -> Nat]
  <2>1. s.held[d] + n \in Nat /\ s.bank[d] + n \in Nat
    BY <1>1
  <2> QED BY <1>1, <1>2, <2>1
<1>4. t = [s EXCEPT !.held = copy, !.amm = copy, !.bank = left]
  BY <1>2 DEF Moved, State
<1> QED BY <1>2, <1>3, <1>4 DEF CoinsMoved, SamePositions, Aligned, State

LEMMA ReceiveMoves ==
  ASSUME NEW s \in State, NEW d \in Denoms, NEW n \in Nat, NEW t, t = Receive(s, d, n)
  PROVE  /\ CoinsMoved(s, t) /\ Aligned(t)
         /\ t.held = [s.held EXCEPT ![d] = s.held[d] + n]
<1>1. s.held[d] \in Nat /\ s.bank[d] \in Nat
  BY CopyType
<1>2. s.held[d] + n >= 0 /\ s.bank[d] + n >= 0 /\ n \in Int
  BY <1>1
<1>3. t = Moved(s, d, n)
  BY DEF Receive
<1> QED BY <1>2, <1>3, MovedMoves

LEMMA SendMoves ==
  ASSUME NEW s \in State, NEW d \in Denoms, NEW n \in Nat, NEW t \in SendFromAmmPool(s, d, n)
  PROVE  /\ CoinsMoved(s, t) /\ Aligned(t)
         /\ t.held = [s.held EXCEPT ![d] = s.held[d] - n]
<1>1. s.held[d] \in Nat /\ s.bank[d] \in Nat
  BY CopyType
<1>2. n <= s.bank[d] /\ n <= s.held[d] /\ t = Moved(s, d, - n)
  BY DEF SendFromAmmPool
<1>3. PICK out : out = - n
  OBVIOUS
<1>4. out \in Int /\ s.held[d] + out >= 0 /\ s.bank[d] + out >= 0
      /\ s.held[d] + out = s.held[d] - n
  BY <1>1, <1>2, <1>3
<1>5. t = Moved(s, d, out)
  BY <1>2, <1>3
<1>6. CoinsMoved(s, t) /\ Aligned(t) /\ t.held = [s.held EXCEPT ![d] = s.held[d] + out]
  BY <1>4, <1>5, MovedMoves
<1> QED BY <1>4, <1>6

LEMMA AmmChangedMoves ==
  ASSUME NEW s \in State
  PROVE  CoinsMoved(s, AmmChanged(s)) /\ SameCopy(s, AmmChanged(s))
<1>1. [d \in Denoms |-> s.amm[d] + s.nonAmm[d]] \in [Denoms -> Int]
  BY DEF State
<1> QED BY <1>1 DEF AmmChanged, CoinsMoved, SamePositions, SameCopy, State

LEMMA UpdatesMove ==
  ASSUME NEW s \in State, NEW t \in PerpetualUpdates(s)
  PROVE  CoinsMoved(s, t)
<1> DEFINE net(d) == TotalLiabilities(s, d) - TotalCustody(s, d)
<1>1. ASSUME NEW d \in Denoms PROVE net(d) \in Int
  <2>1. s.pool[Borrowers(d)] \in SideTotals /\ s.pool[Holders(d)] \in SideTotals
    BY DenomSides DEF State
  <2> QED BY <2>1 DEF SideTotals, TotalLiabilities, TotalCustody
<1>2. t = [s EXCEPT !.accounted = [d \in Denoms |-> s.held[d] + net(d)],
                    !.nonAmm = [d \in Denoms |-> net(d)]]
  BY DEF PerpetualUpdates
<1>3. \A d \in Denoms : s.held[d] \in Int
  BY DEF State
<1> HIDE DEF net
<1>4. [d \in Denoms |-> s.held[d] + net(d)] \in [Denoms -> Int]
      /\ [d \in Denoms |-> net(d)] \in [Denoms -> Int]
  BY <1>1, <1>3
<1> QED BY <1>2, <1>4 DEF CoinsMoved, SamePositions, State

\* What an accounted balance is beyond that of the pool's record and totals; it
\* is only what one refused swap of a fee has left.
Ahead(s, d) == s.accounted[d] - (s.amm[d] + TotalLiabilities(s, d) - TotalCustody(s, d))

Current(s) ==
    Ahead(s, "trading") >= 0 /\ Ahead(s, "base") \in {0, - price * Ahead(s, "trading")}

LEMMA UpdatesCurrent ==
  ASSUME Market, NEW s \in State, Slipped(s), NEW t \in PerpetualUpdates(s)
  PROVE  Current(t)
<1> DEFINE net(d) == TotalLiabilities(s, d) - TotalCustody(s, d)
<1>1. t = [s EXCEPT !.accounted = [d \in Denoms |-> s.held[d] + net(d)],
                    !.nonAmm = [d \in Denoms |-> net(d)]]
  BY DEF PerpetualUpdates
<1>2. t.amm = s.amm /\ t.pool = s.pool /\ t.accounted = [d \in Denoms |-> s.held[d] + net(d)]
  BY <1>1 DEF State
<1>3. ASSUME NEW d \in Denoms
      PROVE  Ahead(t, d) = s.held[d] - s.amm[d]
  <2>1. TotalLiabilities(s, d) \in Int /\ TotalCustody(s, d) \in Int
    <3>1. s.pool[Borrowers(d)] \in SideTotals /\ s.pool[Holders(d)] \in SideTotals
      BY DenomSides DEF State
    <3> QED BY <3>1 DEF SideTotals, TotalLiabilities, TotalCustody
  <2>2. TotalLiabilities(t, d) = TotalLiabilities(s, d) /\ TotalCustody(t, d) = TotalCustody(s, d)
    BY <1>2 DEF TotalLiabilities, TotalCustody
  <2>3. s.amm[d] \in Int /\ s.held[d] \in Int
    BY CopyType
  <2> QED BY <1>2, <2>1, <2>2, <2>3 DEF Ahead
<1>4. PICK fee \in Nat : SlippedBy(s, fee)
  BY DEF Slipped
<1>5. PICK x : x = price * fee
  OBVIOUS
<1>6. x \in Int /\ - price * fee = - x
  BY <1>5 DEF Market
<1>7. /\ s.amm["trading"] \in Int /\ s.amm["base"] \in Int
      /\ Ahead(t, "trading") = s.held["trading"] - s.amm["trading"]
      /\ Ahead(t, "base") = s.held["base"] - s.amm["base"]
  BY <1>3, Constants, CopyType
<1>8. Ahead(t, "trading") = fee
  BY <1>4, <1>7 DEF SlippedBy
<1>9. Ahead(t, "base") \in {0, - x}
  BY <1>4, <1>5, <1>6, <1>7 DEF SlippedBy
<1> HIDE DEF Ahead
<1> QED BY <1>6, <1>8, <1>9 DEF Current

\* A fee is received, then paid for, or only the copy has it.
LEMMA SwapFeesMove ==
  ASSUME Market, NEW s \in State, NEW fee \in Nat, NEW t \in SwapFeesToRevenueToken(s, fee, fee * price)
  PROVE  CoinsMoved(s, t) /\ (Aligned(s) => Slipped(t))
<1>1. PICK q : q = fee * price
  OBVIOUS
<1>2. q \in Nat /\ price * fee = q
  BY <1>1, ProductNat DEF Market
<1>3. PICK paid : paid = Receive(s, "trading", fee)
  OBVIOUS
<1>4. /\ CoinsMoved(s, paid) /\ Aligned(paid) /\ paid \in State
      /\ paid.held = [s.held EXCEPT !["trading"] = s.held["trading"] + fee]
  BY <1>3, Constants, ReceiveMoves DEF CoinsMoved
<1>5. \/ t = [s EXCEPT !.held = paid.held]
      \/ \E u \in SendFromAmmPool(paid, "base", q) : t = AmmChanged(u) \/ t = [s EXCEPT !.held = u.held]
  BY <1>1, <1>3 DEF SwapFeesToRevenueToken
<1>6. ASSUME NEW copy \in [Denoms -> Nat], t = [s EXCEPT !.held = copy]
      PROVE  CoinsMoved(s, t) /\ t.held = copy /\ t.amm = s.amm
  BY <1>6 DEF CoinsMoved, SamePositions, State
<1>7. /\ s.held \in [Denoms -> Nat] /\ paid.held \in [Denoms -> Nat] /\ "trading" # "base"
      /\ s.held["base"] \in Nat /\ s.held["trading"] \in Nat
  BY <1>4, Constants DEF State
<1>8. paid.held["trading"] = s.held["trading"] + fee /\ paid.held["base"] = s.held["base"]
  BY <1>4, <1>7, Constants
<1>9. CASE t = [s EXCEPT !.held = paid.held]
  <2>1. CoinsMoved(s, t) /\ t.held = paid.held /\ t.amm = s.amm
    BY <1>6, <1>7, <1>9
  <2>2. Aligned(s) => SlippedBy(t, fee)
    BY <1>7, <1>8, <2>1 DEF Aligned, SlippedBy
  <2> QED BY <2>1, <2>2 DEF Slipped
<1>10. ASSUME NEW u \in SendFromAmmPool(paid, "base", q),
              t = AmmChanged(u) \/ t = [s EXCEPT !.held = u.held]
       PROVE  CoinsMoved(s, t) /\ (Aligned(s) => Slipped(t))
  <2>1. /\ CoinsMoved(paid, u) /\ Aligned(u) /\ u \in State
        /\ u.held = [paid.held EXCEPT !["base"] = paid.held["base"] - q]
    BY <1>2, <1>4, Constants, SendMoves DEF CoinsMoved
  <2>2. CASE t = AmmChanged(u)
    <3>1. CoinsMoved(u, t) /\ SameCopy(u, t)
      BY <2>1, <2>2, AmmChangedMoves
    <3>2. Aligned(t) /\ t \in State
      BY <2>1, <3>1, CopySlips DEF CoinsMoved
    <3> QED BY <1>4, <2>1, <3>1, <3>2, MovedTwice, SlipsIfAligned
  <2>3. CASE t = [s EXCEPT !.held = u.held]
    <3>1. u.held \in [Denoms -> Nat]
      BY <2>1 DEF State
    <3>2. CoinsMoved(s, t) /\ t.held = u.held /\ t.amm = s.amm
      BY <1>6, <2>3, <3>1
    <3>3. u.held["trading"] = s.held["trading"] + fee /\ u.held["base"] = s.held["base"] - q
      BY <1>7, <1>8, <2>1, Constants
    <3>4. Aligned(s) => SlippedBy(t, fee)
      BY <1>2, <3>2, <3>3 DEF Aligned, SlippedBy
    <3> QED BY <3>2, <3>4 DEF Slipped
  <2> QED BY <1>10, <2>2, <2>3
<1> QED BY <1>5, <1>9, <1>10

LEMMA CollectFeeMoves ==
  ASSUME Market, NEW s \in State, NEW d \in Denoms, NEW fee \in Nat, NEW t \in OnCollectFee(s, d, fee)
  PROVE  CoinsMoved(s, t) /\ (Aligned(s) => Slipped(t))
<1>1. CASE t = s
  BY <1>1, NotMoved, SlipsIfAligned
<1>2. CASE t # s
  <2>1. d # "base" /\ \E q \in EstimateSwapGivenIn(s, d, fee) : t \in SwapFeesToRevenueToken(s, fee, q)
    BY <1>2 DEF OnCollectFee
  <2>2. PICK q \in EstimateSwapGivenIn(s, d, fee) : t \in SwapFeesToRevenueToken(s, fee, q)
    BY <2>1
  <2>3. Worth(d) = price /\ Worth(Other(d)) = 1 /\ fee * price \in Int
    BY <2>1, Constants DEF Worth, Other, Market
  <2>4. q = fee * price
    <3>1. q = (fee * Worth(d)) \div Worth(Other(d))
      BY DEF EstimateSwapGivenIn
    <3>2. PICK n : n = fee * price
      OBVIOUS
    <3>3. q = n \div 1 /\ n \in Int
      BY <2>3, <3>1, <3>2
    <3> QED BY <3>2, <3>3
  <2> QED BY <2>2, <2>4, SwapFeesMove
<1> QED BY <1>1, <1>2

(***************************************************************************)
(* Decimals.                                                               *)
(***************************************************************************)
LEMMA TimesNat ==
  ASSUME NEW dec \in Nat, NEW n \in Nat
  PROVE  Times(dec, n) \in Nat
<1>1. dec * n \in Nat
  BY ProductNat
<1>2. TruncateInt(dec * n, One) \in Nat
  BY <1>1, Constants, TruncateNat
<1> QED BY <1>2 DEF Times, TruncateInt

\* The part ratio/One of an amount: all of it, if the ratio is one, and only then.
LEMMA TimesPart ==
  ASSUME NEW ratio \in Nat, ratio <= One, NEW n \in Nat
  PROVE  /\ Times(ratio, n) \in 0 .. n
         /\ ratio = One => Times(ratio, n) = n
         /\ Times(ratio, n) = n /\ n > 0 => ratio = One
<1> DEFINE q == Times(ratio, n)
<1>1. One \in Nat \ {0} /\ q \in Nat
  BY Constants, TimesNat
<1>2. ratio * n \in Nat /\ q = TruncateInt(ratio * n, One)
  BY ProductNat DEF Times, TruncateInt
<1> HIDE DEF q
<1>3. One * q <= ratio * n /\ ratio * n < One * q + One
  BY <1>1, <1>2, TruncateBound
<1>4. n * ratio <= n * One /\ n * ratio = ratio * n /\ n * One = One * n
  BY <1>1, ProductMonotone
<1>5. One * q \in Int /\ One * n \in Int /\ ratio * n \in Int
  BY <1>1
<1>6. One * q <= One * n
  BY <1>3, <1>4, <1>5
<1>7. q <= n
  BY <1>1, <1>6, CancelFactor
<1>8. ASSUME ratio = One PROVE q = n
  <2>1. One * n \in Nat /\ One * n <= ratio * n
    BY <1>5, <1>8, ProductNat, <1>1
  <2>2. n <= TruncateInt(ratio * n, One)
    BY <1>1, <1>2, <2>1, TruncateLargest
  <2> QED BY <1>1, <1>2, <1>7, <2>2
<1>9. ASSUME q = n, n > 0 PROVE ratio = One
  <2>1. n * One <= n * ratio
    BY <1>3, <1>4, <1>9
  <2>2. One <= ratio
    BY <1>1, <1>9, <2>1, CancelFactor
  <2> QED BY <1>1, <2>2
<1> QED BY <1>1, <1>7, <1>8, <1>9 DEF q

LEMMA AssumedNumbers ==
  /\ PerpFee \in Nat /\ TakerFee \in Nat /\ InsuranceShare \in 0 .. One /\ MinLiability \in Nat \ {0}
  /\ SafetyNum \in Nat \ {0} /\ SafetyDen \in Nat \ {0} /\ FundingRate \in Nat
  /\ Collaterals \subseteq Nat \ {0} /\ Leverages \subseteq Nat \ {0, 1}
  /\ CloseAmounts \subseteq Nat \ {0} /\ Targets \subseteq Nat \ {0} /\ BorrowRates \subseteq Nat
BY PerpetualAssumption

FeesType == [perp : Nat, taker : Nat]

LEMMA FeesOnType ==
  ASSUME NEW amount \in Nat, NEW limit \in Nat
  PROVE  FeesOn(amount, limit) \in FeesType
<1> DEFINE perp == Times(PerpFee, amount)
           taker == Times(TakerFee, amount)
           total == perp + taker
<1>1. perp \in Nat /\ taker \in Nat
  BY AssumedNumbers, TimesNat
<1> HIDE DEF perp, taker
<1>2. CASE limit > 0 /\ total > limit
  <2>1. limit * perp \in Nat /\ limit * taker \in Nat /\ total \in Nat \ {0}
    BY <1>1, <1>2, ProductNat
  <2>2. TruncateInt(limit * perp, total) \in Nat /\ TruncateInt(limit * taker, total) \in Nat
    BY <2>1, TruncateNat
  <2>3. (limit * perp) \div total \in Nat /\ (limit * taker) \div total \in Nat
    BY <2>2, Zenon DEF TruncateInt
  <2>4. FeesOn(amount, limit) = [perp |-> (limit * perp) \div total, taker |-> (limit * taker) \div total]
    BY <1>2 DEF FeesOn, perp, taker
  <2> QED BY <2>3, <2>4 DEF FeesType
<1>3. CASE ~ (limit > 0 /\ total > limit)
  <2>1. FeesOn(amount, limit) = [perp |-> perp, taker |-> taker]
    BY <1>3 DEF FeesOn, perp, taker
  <2> QED BY <1>1, <2>1 DEF FeesType
<1> QED BY <1>2, <1>3

LEMMA PayFeesMoves ==
  ASSUME Market, NEW s \in State, NEW d \in Denoms, NEW fees \in FeesType,
         NEW t \in PayFees(s, d, fees)
  PROVE  CoinsMoved(s, t) /\ (Aligned(s) => Slipped(t))
<1>1. fees.perp \in Nat /\ fees.taker \in Nat
  BY DEF FeesType
<1>2. PICK a : a = [s EXCEPT !.bank[d] = @ - fees.perp]
  OBVIOUS
<1>3. ~ (fees.perp > s.bank[d])
  BY DEF PayFees
<1>4. PICK b \in OnCollectFee(a, d, fees.perp) :
            fees.taker <= b.bank[d] /\ t = [b EXCEPT !.bank[d] = @ - fees.taker]
  BY <1>2, <1>3 DEF PayFees
<1>5. ASSUME NEW r \in State, NEW n \in Nat, n <= r.bank[d], NEW x, x = [r EXCEPT !.bank[d] = @ - n]
      PROVE  CoinsMoved(r, x) /\ SameCopy(r, x)
  <2>1. PICK left : left = [r.bank EXCEPT ![d] = @ - n]
    OBVIOUS
  <2>2. left \in [Denoms -> Nat]
    BY <1>5, <2>1 DEF State
  <2>3. x = [r EXCEPT !.bank = left]
    BY <1>5, <2>1 DEF State
  <2> QED BY <2>2, <2>3 DEF CoinsMoved, SamePositions, SameCopy, State
<1>6. CoinsMoved(s, a) /\ SameCopy(s, a) /\ a \in State
  <2>1. fees.perp <= s.bank[d]
    BY <1>1, <1>3, CopyType
  <2> QED BY <1>1, <1>2, <1>5, <2>1 DEF CoinsMoved
<1>7. CoinsMoved(a, b) /\ (Aligned(a) => Slipped(b)) /\ b \in State
  BY <1>1, <1>4, <1>6, CollectFeeMoves DEF CoinsMoved
<1>8. CoinsMoved(b, t) /\ SameCopy(b, t)
  BY <1>1, <1>4, <1>5, <1>7
<1>9. CoinsMoved(s, t)
  BY <1>6, <1>7, <1>8, MovedTwice
<1>10. Aligned(s) => Slipped(t)
  BY <1>6, <1>7, <1>8, CopySlips
<1> QED BY <1>9, <1>10

\* Estimates are amounts.
LEMMA EstimateTypes ==
  ASSUME Market, NEW s, NEW d, NEW amount \in Nat
  PROVE  /\ EstimateSwapGivenIn(s, d, amount) \subseteq Nat \ {0}
         /\ EstimateSwapGivenOut(s, d, amount) \subseteq Nat
         /\ EstimateSwapGivenOut(s, d, amount) # {} => amount > 0
<1>1. Worth(d) \in Nat \ {0} /\ Worth(Other(d)) \in Nat \ {0}
  BY WorthType
<1>2. amount * Worth(d) \in Nat
  BY <1>1, ProductNat
<1>3. CeilInt(amount * Worth(d), Worth(Other(d))) \in Nat
  BY <1>1, <1>2, CeilBound
<1>4. (amount * Worth(d)) \div Worth(Other(d)) \in Int
  BY <1>1, <1>2
<1>5. EstimateSwapGivenIn(s, d, amount) \subseteq Nat \ {0}
  BY <1>4 DEF EstimateSwapGivenIn
<1>6. EstimateSwapGivenOut(s, d, amount) \subseteq Nat
  BY <1>3 DEF EstimateSwapGivenOut
<1> QED BY <1>5, <1>6 DEF EstimateSwapGivenOut

-----------------------------------------------------------------------------
(***************************************************************************)
(* Functions that change one position.                                     *)
(***************************************************************************)
SameKind(m, n) == n.owner = m.owner /\ n.side = m.side /\ n.denom = m.denom

\* t is sound, and of the positions only id is another, or gone.
OnlyPosition(s, t, id) ==
    /\ t \in Sound
    /\ t.counter.last = s.counter.last
    /\ t.open = s.open \/ t.open = s.open \ {id}
    /\ \A j \in Ids \ {id} : t.mtps[j] = s.mtps[j]
    /\ id \in t.open => SameKind(s.mtps[id], t.mtps[id])

LEMMA OnlyTwice ==
  ASSUME NEW s, NEW t, NEW r, NEW id, OnlyPosition(s, t, id), OnlyPosition(t, r, id)
  PROVE  OnlyPosition(s, r, id)
<1>1. r.open = s.open \/ r.open = s.open \ {id}
  BY DEF OnlyPosition
<1>2. id \in r.open => id \in t.open
  BY DEF OnlyPosition
<1> QED BY <1>1, <1>2 DEF OnlyPosition, SameKind

LEMMA OnlyCoins ==
  ASSUME NEW s \in Sound, NEW t, CoinsMoved(s, t), NEW id
  PROVE  OnlyPosition(s, t, id)
<1>1. t \in Sound
  BY CoinsSound
<1> QED BY <1>1 DEF CoinsMoved, SamePositions, OnlyPosition, SameKind

LEMMA OnlyItself ==
  ASSUME NEW s \in Sound, NEW id
  PROVE  OnlyPosition(s, s, id)
BY DEF OnlyPosition, SameKind

\* A position and the pool change by the same amounts.
LEMMA PositionRewritten ==
  ASSUME NEW s \in Sound, NEW id \in s.open, NEW t \in State,
         t.open = s.open, t.counter = s.counter, \A j \in Ids \ {id} : t.mtps[j] = s.mtps[j],
         t.mtps[id] \in Position, SameKind(s.mtps[id], t.mtps[id]),
         \A side \in Sides, c \in Columns :
            Recorded(t, side, c) - Recorded(s, side, c)
              = Part(t.mtps[id], side, c) - Part(s.mtps[id], side, c)
  PROVE  OnlyPosition(s, t, id)
<1>1. s \in State /\ id \in Ids /\ Stored(s) /\ Balanced(s) /\ s.mtps[id] \in Position
  BY SoundType
<1>2. PICK m : m = t.mtps[id]
  OBVIOUS
<1>3. Stored(t)
  <2>1. m.side = "short" => m.denom = "base"
    BY <1>1, <1>2 DEF Stored, SameKind
  <2>2. \A j \in s.open : j \in Ids
    BY SoundType
  <2> QED BY <1>1, <1>2, <2>1, <2>2 DEF Stored
<1>4. Balanced(t)
  <2>1. ASSUME NEW side \in Sides, NEW c \in Columns PROVE Gap(t, side, c) = 0
    <3>1. Gap(t, side, c) = Gap(s, side, c) + Recorded(t, side, c) - Recorded(s, side, c)
                             - Part(t.mtps[id], side, c) + Part(s.mtps[id], side, c)
      BY <1>1, GapMoves
    <3>2. Gap(s, side, c) = 0
      BY <1>1 DEF Balanced
    <3>3. Recorded(t, side, c) \in Int /\ Recorded(s, side, c) \in Int
      BY <1>1, RecordedType
    <3>4. Part(t.mtps[id], side, c) \in Int /\ Part(s.mtps[id], side, c) \in Int
      BY <1>1, PartType
    <3>5. Recorded(t, side, c) - Recorded(s, side, c)
            = Part(t.mtps[id], side, c) - Part(s.mtps[id], side, c)
      OBVIOUS
    <3> HIDE DEF Recorded, Part, Gap
    <3> QED BY <3>1, <3>2, <3>3, <3>4, <3>5
  <2> QED BY <2>1 DEF Balanced
<1> QED BY <1>3, <1>4 DEF OnlyPosition, Sound

\* An entry of the ledger: amounts of a side, with collateral in d.
Entry(side, d, x, y, z) ==
    [side |-> side, denom |-> d, custody |-> x, liabilities |-> y, collateral |-> z]

LEMMA EntryType ==
  ASSUME NEW side, NEW d, NEW x \in Int, NEW y \in Int, NEW z \in Int, NEW v, NEW c
  PROVE  Part(Entry(side, d, x, y, z), v, c) \in Int
BY DEF Part, Amount, Entry

LEMMA TotalsChanged ==
  ASSUME NEW s \in State, NEW side \in Sides, NEW d \in Denoms,
         NEW x \in Int, NEW y \in Int, NEW z \in Int, NEW t, t = ChangeTotals(s, side, d, x, y, z)
  PROVE  /\ t \in State /\ t.mtps = s.mtps /\ t.open = s.open /\ t.counter = s.counter
         /\ SameCopy(s, t)
         /\ \A v \in Sides, c \in Columns :
               Recorded(t, v, c) = Recorded(s, v, c) + Part(Entry(side, d, x, y, z), v, c)
<1>1. s.pool \in [Sides -> SideTotals] /\ s.pool[side] \in SideTotals
  BY DEF State
<1>2. PICK old : old = s.pool[side]
  OBVIOUS
<1>3. old.custody \in Int /\ old.liabilities \in Int /\ old.collateral \in [Denoms -> Int]
  BY <1>1, <1>2 DEF SideTotals
<1>4. PICK col : col = [old.collateral EXCEPT ![d] = @ + z]
  OBVIOUS
<1>5. col \in [Denoms -> Int] /\ col[d] = old.collateral[d] + z
      /\ \A e \in Denoms : e # d => col[e] = old.collateral[e]
  BY <1>3, <1>4
<1>6. PICK row : row = [custody |-> old.custody + x, liabilities |-> old.liabilities + y,
                        collateral |-> col]
  OBVIOUS
<1>7. row \in SideTotals /\ row.custody = old.custody + x /\ row.liabilities = old.liabilities + y
      /\ row.collateral = col
  <2>1. old.custody + x \in Int /\ old.liabilities + y \in Int
    BY <1>3
  <2> QED BY <1>5, <1>6, <2>1 DEF SideTotals
<1>8. PICK P : P = [s.pool EXCEPT ![side] = row]
  OBVIOUS
<1>9. P \in [Sides -> SideTotals] /\ P[side] = row /\ \A v \in Sides : v # side => P[v] = s.pool[v]
  BY <1>1, <1>7, <1>8
<1>10. t = [s EXCEPT !.pool = P]
  BY <1>2, <1>4, <1>6, <1>8 DEF ChangeTotals, State
<1>11. /\ t.pool = P /\ t \in State /\ t.mtps = s.mtps /\ t.open = s.open /\ t.counter = s.counter
       /\ SameCopy(s, t)
  BY <1>9, <1>10 DEF State, SameCopy
<1>12. ASSUME NEW v \in Sides, NEW c \in Columns
       PROVE  Recorded(t, v, c) = Recorded(s, v, c) + Part(Entry(side, d, x, y, z), v, c)
  <2>1. Recorded(s, v, c) \in Int
    BY RecordedType
  <2>2. CASE v # side
    <3>1. Recorded(t, v, c) = Recorded(s, v, c) /\ Part(Entry(side, d, x, y, z), v, c) = 0
      BY <1>9, <1>11, <2>2 DEF Recorded, Part, Entry
    <3> QED BY <2>1, <3>1
  <2>3. CASE v = side /\ c = "custody"
    BY <1>2, <1>7, <1>9, <1>11, <2>3 DEF Recorded, Part, Entry, Amount
  <2>4. CASE v = side /\ c = "liabilities"
    BY <1>2, <1>7, <1>9, <1>11, <2>4 DEF Recorded, Part, Entry, Amount
  <2>5. CASE v = side /\ c \in Denoms
    <3>1. Recorded(t, v, c) = col[c] /\ Recorded(s, v, c) = old.collateral[c]
      BY <1>2, <1>7, <1>9, <1>11, <2>5 DEF Recorded, Denoms
    <3>2. Part(Entry(side, d, x, y, z), v, c) = IF d = c THEN z ELSE 0
      BY <2>5 DEF Part, Amount, Entry, Denoms
    <3>3. old.collateral[c] \in Int
      BY <1>3, <2>5
    <3> QED BY <1>5, <2>5, <3>1, <3>2, <3>3
  <2> QED BY <2>2, <2>3, <2>4, <2>5 DEF Columns, Denoms
<1> QED BY <1>11, <1>12

\* A position with other amounts.
Changed(m, x, y, z) == [m EXCEPT !.custody = @ + x, !.liabilities = @ + y, !.collateral = @ + z]

LEMMA ChangedType ==
  ASSUME NEW m \in Position, NEW x \in Int, NEW y \in Int, NEW z \in Int,
         m.custody + x >= 0, m.liabilities + y >= 0, m.collateral + z >= 0,
         NEW n, n = Changed(m, x, y, z)
  PROVE  /\ n \in Position /\ SameKind(m, n) /\ n.unpaid = m.unpaid /\ n.custody = m.custody + x
         /\ n.liabilities = m.liabilities + y /\ n.collateral = m.collateral + z
<1>1. m.custody \in Nat /\ m.liabilities \in Nat /\ m.collateral \in Nat
  BY DEF Position
<1>2. m.custody + x \in Nat /\ m.liabilities + y \in Nat /\ m.collateral + z \in Nat
  BY <1>1
<1> QED BY <1>2 DEF Position, SameKind, Changed

\* A position and the totals of its side change by the same amounts.
LEMMA PositionChanged ==
  ASSUME NEW s \in Sound, NEW id \in s.open, NEW m, m = s.mtps[id],
         NEW x \in Int, NEW y \in Int, NEW z \in Int,
         m.custody + x >= 0, m.liabilities + y >= 0, m.collateral + z >= 0,
         NEW t, t = ChangePosition(s, id, x, y, z)
  PROVE  /\ OnlyPosition(s, t, id) /\ t.open = s.open /\ SameCopy(s, t)
         /\ t.mtps[id] = Changed(m, x, y, z)
<1>1. s \in State /\ id \in Ids /\ m \in Position
  BY SoundType
<1>2. /\ m.side \in Sides /\ m.denom \in Denoms
      /\ m.custody \in Nat /\ m.liabilities \in Nat /\ m.collateral \in Nat
  BY <1>1 DEF Position
<1>3. PICK n : n = Changed(m, x, y, z)
  OBVIOUS
<1>4. n \in Position /\ SameKind(m, n) /\ n.custody = m.custody + x
      /\ n.liabilities = m.liabilities + y /\ n.collateral = m.collateral + z
  BY <1>1, <1>3, ChangedType
<1>5. PICK r : r = ChangeTotals(s, m.side, m.denom, x, y, z)
  OBVIOUS
<1>6. /\ r \in State /\ r.mtps = s.mtps /\ r.open = s.open /\ r.counter = s.counter
      /\ SameCopy(s, r)
      /\ \A v \in Sides, c \in Columns :
            Recorded(r, v, c) = Recorded(s, v, c) + Part(Entry(m.side, m.denom, x, y, z), v, c)
  BY <1>1, <1>2, <1>5, TotalsChanged
<1>8. PICK M : M = [s.mtps EXCEPT ![id] = n]
  OBVIOUS
<1>9. M \in [Ids -> Position \cup {NoMTP}] /\ M[id] = n /\ \A j \in Ids \ {id} : M[j] = s.mtps[j]
  <2>1. s.mtps \in [Ids -> Position \cup {NoMTP}]
    BY <1>1 DEF State
  <2> QED BY <1>1, <1>4, <1>8, <2>1
<1>10. t = [r EXCEPT !.mtps = M]
  <2>1. t = SetMTP(r, id, n)
    BY <1>3, <1>5 DEF ChangePosition, Changed
  <2> QED BY <1>6, <1>8, <2>1 DEF SetMTP, State
<1>11. /\ t \in State /\ t.pool = r.pool /\ t.open = s.open /\ t.counter = s.counter /\ t.mtps = M
       /\ SameCopy(s, t)
  BY <1>6, <1>9, <1>10 DEF State, SameCopy
<1>12. ASSUME NEW v \in Sides, NEW c \in Columns
       PROVE  Recorded(t, v, c) - Recorded(s, v, c) = Part(n, v, c) - Part(m, v, c)
  <2>1. Recorded(t, v, c) = Recorded(s, v, c) + Part(Entry(m.side, m.denom, x, y, z), v, c)
    <3>1. Recorded(t, v, c) = Recorded(r, v, c)
      BY <1>11 DEF Recorded
    <3> QED BY <1>6, <3>1
  <2>2. Part(n, v, c) = Part(m, v, c) + Part(Entry(m.side, m.denom, x, y, z), v, c)
    BY <1>2, <1>4 DEF Part, Amount, Entry, SameKind
  <2>3. Recorded(s, v, c) \in Int /\ Part(m, v, c) \in Int
        /\ Part(Entry(m.side, m.denom, x, y, z), v, c) \in Int
    BY <1>1, RecordedType, PartType, EntryType
  <2> QED BY <2>1, <2>2, <2>3
<1>13. OnlyPosition(s, t, id)
  <2>1. t.mtps[id] = n /\ \A j \in Ids \ {id} : t.mtps[j] = s.mtps[j]
    BY <1>9, <1>11
  <2>2. \A v \in Sides, c \in Columns :
            Recorded(t, v, c) - Recorded(s, v, c)
              = Part(t.mtps[id], v, c) - Part(s.mtps[id], v, c)
    BY <1>12, <2>1
  <2>3. t.mtps[id] \in Position /\ SameKind(s.mtps[id], t.mtps[id])
    BY <1>4, <2>1
  <2> QED BY <1>11, <2>1, <2>2, <2>3, PositionRewritten
<1> QED BY <1>3, <1>9, <1>11, <1>13

LEMMA CustodyMoved ==
  ASSUME NEW s \in Sound, NEW id \in s.open, NEW change \in Int, s.mtps[id].custody + change >= 0,
         NEW t, t = MoveCustody(s, id, change)
  PROVE  /\ OnlyPosition(s, t, id) /\ t.open = s.open /\ SameCopy(s, t)
         /\ t.mtps[id] = Changed(s.mtps[id], change, 0, 0)
<1>1. PICK m : m = s.mtps[id]
  OBVIOUS
<1>2. m \in Position
  BY <1>1, SoundType
<1>3. m.liabilities \in Nat /\ m.collateral \in Nat
  BY <1>2 DEF Position
<1>4. t = ChangePosition(s, id, change, 0, 0)
  BY DEF MoveCustody
<1>5. PICK zero : zero = 0
  OBVIOUS
<1>6. /\ zero \in Int /\ m.custody + change >= 0 /\ m.liabilities + zero >= 0
      /\ m.collateral + zero >= 0
  BY <1>1, <1>3, <1>5
<1>7. t = ChangePosition(s, id, change, zero, zero)
  BY <1>4, <1>5
<1>8. /\ OnlyPosition(s, t, id) /\ t.open = s.open /\ SameCopy(s, t)
      /\ t.mtps[id] = Changed(m, change, zero, zero)
  BY <1>1, <1>6, <1>7, PositionChanged
<1> QED BY <1>1, <1>5, <1>8

LEMMA OpenFinite ==
  ASSUME NEW s \in State
  PROVE  IsFiniteSet(s.open)
<1>1. IsFiniteSet(Ids)
  BY Constants, FS_Interval DEF Ids
<1>2. s.open \in SUBSET Ids
  BY DEF State
<1> QED BY <1>1, <1>2, FS_Subset

\* A position leaves the store, whatever the pool's record says.
LEMMA DestroyGap ==
  ASSUME NEW s \in State, Stored(s), NEW id \in s.open, NEW t, t = DestroyMTP(s, id)
  PROVE  /\ t \in State /\ Stored(t)
         /\ t.open = s.open \ {id} /\ t.counter.last = s.counter.last /\ SameCopy(s, t)
         /\ \A j \in Ids \ {id} : t.mtps[j] = s.mtps[j]
         /\ \A side \in Sides, c \in Columns : Gap(t, side, c) = Gap(s, side, c) + Part(s.mtps[id], side, c)
<1>1. id \in Ids /\ s.mtps \in [Ids -> Position \cup {NoMTP}] /\ s.mtps[id] \in Position
  BY DEF State, Stored
<1>2. PICK M : M = [s.mtps EXCEPT ![id] = NoMTP]
  OBVIOUS
<1>3. M \in [Ids -> Position \cup {NoMTP}] /\ M[id] = NoMTP /\ \A j \in Ids \ {id} : M[j] = s.mtps[j]
  BY <1>1, <1>2
<1>4. PICK C : C = [s.counter EXCEPT !.totalOpen = @ - 1]
  OBVIOUS
<1>5. C \in [last : Nat, totalOpen : Int] /\ C.last = s.counter.last
      /\ C.totalOpen = s.counter.totalOpen - 1
  BY <1>4 DEF State
<1>6. t = [s EXCEPT !.mtps = M, !.open = s.open \ {id}, !.counter = C]
  BY <1>2, <1>4 DEF DestroyMTP, State
<1>7. /\ t \in State /\ t.mtps = M /\ t.open = s.open \ {id} /\ t.counter = C /\ t.pool = s.pool
      /\ SameCopy(s, t)
  BY <1>3, <1>5, <1>6 DEF State, SameCopy
<1>8. Stored(t)
  <2>1. t.counter.totalOpen = Cardinality(t.open)
    <3>1. Cardinality(s.open \ {id}) = Cardinality(s.open) - 1
      BY OpenFinite, FS_RemoveElement
    <3> QED BY <1>5, <1>7, <3>1 DEF Stored
  <2>2. \A j \in t.open : t.mtps[j] = s.mtps[j] /\ j \in s.open
    BY <1>3, <1>7 DEF State
  <2>3. \A j \in Ids \ t.open : t.mtps[j] = NoMTP
    BY <1>3, <1>7 DEF Stored
  <2> QED BY <1>5, <1>7, <2>1, <2>2, <2>3 DEF Stored
<1>9. ASSUME NEW side \in Sides, NEW c \in Columns
      PROVE  Gap(t, side, c) = Gap(s, side, c) + Part(s.mtps[id], side, c)
  <2>1. Gap(t, side, c) = Gap(s, side, c) + Recorded(t, side, c) - Recorded(s, side, c)
                             - Part(t.mtps[id], side, c) + Part(s.mtps[id], side, c)
    <3>1. \A j \in Ids \ {id} : t.mtps[j] = s.mtps[j]
      BY <1>3, <1>7
    <3> QED BY <1>1, <1>7, <3>1, GapMoves
  <2>2. Recorded(t, side, c) = Recorded(s, side, c)
    BY <1>7 DEF Recorded
  <2>3. Part(t.mtps[id], side, c) = 0
    BY <1>3, <1>7, Constants DEF Part, NoMTP
  <2>4. Gap(s, side, c) \in Int
    <3>1. Recorded(s, side, c) \in Int
      BY RecordedType
    <3>2. Sum(Column(s, side, c), MaxPositions) \in Int
      <4>1. Column(s, side, c) \in [1 .. MaxPositions -> Int]
        BY ColumnType
      <4> QED BY <4>1, SumInt, Constants
    <3> QED BY <3>1, <3>2 DEF Gap
  <2>5. Part(s.mtps[id], side, c) \in Int /\ Recorded(s, side, c) \in Int
    BY <1>1, PartType, RecordedType
  <2> HIDE DEF Gap, Part, Recorded
  <2> QED BY <2>1, <2>2, <2>3, <2>4, <2>5
<1> QED BY <1>3, <1>5, <1>7, <1>8, <1>9


\* A position in the store holds something.
Holds(s, id) == id \in s.open => s.mtps[id].custody > 0

LEMMA ClosePartKeeps ==
  ASSUME NEW s \in Sound, NEW id \in s.open, NEW m, m = s.mtps[id],
         NEW x \in 0 .. m.custody, NEW y \in 0 .. m.liabilities, NEW z \in 0 .. m.collateral,
         x = m.custody => y = m.liabilities /\ z = m.collateral,
         NEW t, t = ClosePart(s, id, x, y, z)
  PROVE  /\ OnlyPosition(s, t, id) /\ Holds(t, id) /\ SameCopy(s, t)
         /\ x = m.custody => id \notin t.open
<1>1. m \in Position
  BY SoundType
<1>2. m.custody \in Nat /\ m.liabilities \in Nat /\ m.collateral \in Nat
  BY <1>1 DEF Position
<1>3. PICK dx, dy, dz : dx = -x /\ dy = -y /\ dz = -z
  OBVIOUS
<1>4. dx \in Int /\ dy \in Int /\ dz \in Int
      /\ m.custody + dx >= 0 /\ m.liabilities + dy >= 0 /\ m.collateral + dz >= 0
  BY <1>2, <1>3
<1>5. PICK r, n : r = ChangePosition(s, id, dx, dy, dz) /\ n = Changed(m, dx, dy, dz)
  OBVIOUS
<1>6. OnlyPosition(s, r, id) /\ r.open = s.open /\ SameCopy(s, r) /\ r.mtps[id] = n
  BY <1>4, <1>5, PositionChanged
<1>7. /\ n \in Position /\ n.custody = m.custody + dx
      /\ n.liabilities = m.liabilities + dy /\ n.collateral = m.collateral + dz
  BY <1>1, <1>4, <1>5, ChangedType
<1>8. t = IF m.custody = x THEN DestroyMTP(r, id) ELSE r
  BY <1>3, <1>5 DEF ClosePart
<1>9. CASE x # m.custody
  <2>1. t = r
    BY <1>9, <1>8
  <2>2. n.custody > 0
    BY <1>2, <1>3, <1>7, <1>9
  <2> QED BY <1>6, <1>9, <2>1, <2>2 DEF Holds
<1>10. CASE x = m.custody
  <2>1. t = DestroyMTP(r, id)
    BY <1>10, <1>8
  <2>2. r \in Sound /\ r \in State /\ Stored(r) /\ Balanced(r) /\ id \in r.open
    BY <1>6 DEF OnlyPosition, Sound
  <2>3. /\ t \in State /\ Stored(t) /\ SameCopy(r, t)
        /\ t.open = r.open \ {id} /\ t.counter.last = r.counter.last
        /\ \A j \in Ids \ {id} : t.mtps[j] = r.mtps[j]
        /\ \A v \in Sides, c \in Columns : Gap(t, v, c) = Gap(r, v, c) + Part(r.mtps[id], v, c)
    BY <2>1, <2>2, DestroyGap
  <2>4. \A v \in Sides, c \in Columns : Part(n, v, c) = 0
    <3>1. n.custody = 0 /\ n.liabilities = 0 /\ n.collateral = 0
      BY <1>2, <1>3, <1>7, <1>10
    <3> QED BY <3>1 DEF Part, Amount
  <2>5. Balanced(t)
    BY <1>6, <2>2, <2>3, <2>4 DEF Balanced
  <2>6. t \in Sound
    BY <2>3, <2>5 DEF Sound
  <2>7. OnlyPosition(r, t, id) /\ id \notin t.open
    BY <2>3, <2>6 DEF OnlyPosition
  <2>8. OnlyPosition(s, t, id) /\ SameCopy(s, t)
    BY <1>6, <2>3, <2>7, OnlyTwice, CopyTwice
  <2> QED BY <2>7, <2>8 DEF Holds
<1> QED BY <1>9, <1>10

LEMMA RepayKeeps ==
  ASSUME Market, NEW s \in Sound, NEW id \in s.open, NEW ratio \in Nat, ratio <= One,
         ratio = One \/ s.mtps[id].custody > 0, NEW t \in Repay(s, id, ratio)
  PROVE  /\ OnlyPosition(s, t, id) /\ Holds(t, id) /\ (Aligned(s) => Slipped(t))
         /\ ratio = One => id \notin t.open
<1> DEFINE held == CustodyDenom(s.mtps[id].side)
           paying == Times(ratio, s.mtps[id].liabilities)
           closing == Times(ratio, s.mtps[id].custody)
           gone == Times(ratio, s.mtps[id].collateral)
           Rest(q, fees) == closing - q - (fees.perp + fees.taker)
           Paid(q) ==
             IF closing <= q THEN {s}
             ELSE LET fees == FeesOn(q, closing - q)
                      rest == closing - q - (fees.perp + fees.taker)
                  IN  UNION {IF rest > 0 THEN SendFromAmmPool(u, held, rest) ELSE {u} :
                               u \in PayFees(s, held, fees)}
<1>1. PICK m : m = s.mtps[id]
  OBVIOUS
<1>2. s \in State /\ m \in Position
  BY <1>1, SoundType
<1>3. m.side \in Sides /\ m.custody \in Nat /\ m.liabilities \in Nat /\ m.collateral \in Nat
  BY <1>2 DEF Position
<1>4. held \in Denoms /\ LiabilitiesDenom(m.side) \in Denoms
  BY <1>1, <1>3, SideDenoms
<1>5. /\ closing \in 0 .. m.custody /\ paying \in 0 .. m.liabilities /\ gone \in 0 .. m.collateral
      /\ ratio = One => closing = m.custody /\ paying = m.liabilities /\ gone = m.collateral
      /\ closing = m.custody /\ m.custody > 0 => ratio = One
  BY <1>1, <1>3, TimesPart
<1>6. PICK q \in EstimateSwapGivenOut(s, LiabilitiesDenom(m.side), paying) :
          \E u \in Paid(q) : t = ClosePart(u, id, closing, paying, gone)
  BY <1>1, Zenon DEF Repay
<1>7. PICK u \in Paid(q) : t = ClosePart(u, id, closing, paying, gone)
  BY <1>6
<1>8. q \in Nat /\ closing \in Nat
  <2>1. paying \in Nat
    BY <1>3, <1>5
  <2> HIDE DEF paying
  <2> QED BY <1>3, <1>5, <1>6, <2>1, EstimateTypes
<1> HIDE DEF held, paying, closing, gone
<1>9. CoinsMoved(s, u) /\ (Aligned(s) => Slipped(u))
  <2>1. CASE closing <= q
    BY <1>2, <1>7, <2>1, NotMoved, SlipsIfAligned
  <2>2. CASE ~ (closing <= q)
    <3>1. PICK fees : fees = FeesOn(q, closing - q)
      OBVIOUS
    <3>2. PICK v \in PayFees(s, held, fees) :
            u \in IF Rest(q, fees) > 0 THEN SendFromAmmPool(v, held, Rest(q, fees)) ELSE {v}
      BY <1>7, <2>2, <3>1
    <3>3. closing - q \in Nat
      BY <1>8, <2>2
    <3>4. fees \in FeesType
      BY <1>8, <3>1, <3>3, FeesOnType
    <3>5. CoinsMoved(s, v) /\ (Aligned(s) => Slipped(v))
      BY <1>2, <1>4, <3>2, <3>4, PayFeesMoves
    <3>6. CASE Rest(q, fees) > 0
      <4>1. Rest(q, fees) \in Nat
        BY <1>8, <3>4, <3>6 DEF FeesType
      <4>2. CoinsMoved(v, u) /\ Aligned(u)
        <5>1. v \in State /\ u \in SendFromAmmPool(v, held, Rest(q, fees))
          BY <3>2, <3>5, <3>6 DEF CoinsMoved
        <5> HIDE DEF Rest
        <5> QED BY <1>4, <4>1, <5>1, SendMoves
      <4> QED BY <3>5, <4>2, MovedTwice, SlipsIfAligned DEF CoinsMoved
    <3>7. CASE ~ (Rest(q, fees) > 0)
      BY <3>2, <3>5, <3>7
    <3> QED BY <3>6, <3>7
  <2> QED BY <2>1, <2>2
<1>10. OnlyPosition(s, u, id) /\ u \in Sound /\ u.open = s.open /\ u.mtps = s.mtps
  BY <1>9, CoinsSound, OnlyCoins DEF CoinsMoved, SamePositions
<1>11. closing = m.custody => paying = m.liabilities /\ gone = m.collateral
  BY <1>1, <1>3, <1>5
<1>12. id \in u.open /\ m = u.mtps[id]
  BY <1>1, <1>10
<1>13. /\ OnlyPosition(u, t, id) /\ Holds(t, id) /\ SameCopy(u, t)
       /\ closing = m.custody => id \notin t.open
  BY <1>5, <1>7, <1>10, <1>11, <1>12, ClosePartKeeps
<1>14. Aligned(s) => Slipped(t)
  BY <1>9, <1>13, CopySlips
<1> QED BY <1>5, <1>10, <1>13, <1>14, OnlyTwice

LEMMA ForceCloseKeeps ==
  ASSUME Market, NEW s \in Sound, Aligned(s), NEW id \in s.open, NEW t \in ForceClose(s, id)
  PROVE  OnlyPosition(s, t, id) /\ id \notin t.open /\ Current(t)
<1>1. PICK r \in Repay(s, id, One) : t \in PerpetualUpdates(r)
  BY DEF ForceClose
<1>2. OnlyPosition(s, r, id) /\ id \notin r.open /\ Slipped(r)
  BY <1>1, Constants, RepayKeeps
<1>3. r \in Sound /\ r \in State
  BY <1>2 DEF OnlyPosition, Sound
<1>4. CoinsMoved(r, t)
  BY <1>1, <1>3, UpdatesMove
<1>5. OnlyPosition(r, t, id) /\ t.open = r.open
  BY <1>3, <1>4, OnlyCoins DEF CoinsMoved, SamePositions
<1>6. Current(t)
  BY <1>1, <1>2, <1>3, UpdatesCurrent
<1> QED BY <1>2, <1>5, <1>6, OnlyTwice

-----------------------------------------------------------------------------
(***************************************************************************)
(* What a position pays when it is settled.                                *)
(***************************************************************************)
LEMMA SinceType ==
  ASSUME Market, NEW m \in Position
  PROVE  /\ Since(m, "borrow") \in Int /\ Since(m, "long") \in Int /\ Since(m, "short") \in Int
         /\ Since(m, "toShorts") \in Nat /\ Since(m, "toLongs") \in Nat
<1>1. m.block \in 1 .. Len(rates) /\ Len(rates) \in 1 .. Len(rates)
  BY DEF Position, Market
<1>2. PICK now, then : now = Now /\ then = rates[m.block]
  OBVIOUS
<1>3. now \in RateType /\ then \in RateType
  BY <1>1, <1>2 DEF Market, Now
<1>4. then.toShorts <= now.toShorts /\ then.toLongs <= now.toLongs
  BY <1>1, <1>2 DEF Market
<1> QED BY <1>2, <1>3, <1>4 DEF Since, RateType

LEMMA AbsNat == \A n \in Int : Abs(n) \in Nat
BY DEF Abs

LEMMA DueTypes ==
  ASSUME Market, NEW m \in Position
  PROVE  /\ InterestDue(m) \in Nat /\ FundingDue(m) \in Nat /\ InterestInCustody(m) \in Nat
         /\ \A n \in Nat : FundingShare(m, n) \in Nat
<1>1. m.side \in Sides /\ m.custody \in Nat /\ m.liabilities \in Nat /\ m.unpaid \in Nat
  BY DEF Position
<1>2. price \in Nat \ {0}
  BY DEF Market
<1>3. InterestDue(m) \in Nat
  <2>1. Abs(Since(m, "borrow")) \in Nat /\ m.liabilities + m.unpaid \in Nat
    BY <1>1, SinceType, AbsNat
  <2>2. Times(Abs(Since(m, "borrow")), m.liabilities + m.unpaid) \in Nat
    BY <2>1, TimesNat
  <2> QED BY <1>1, <2>2 DEF InterestDue
<1>4. FundingDue(m) \in Nat
  <2>1. Abs(Since(m, "long")) \in Nat /\ Abs(Since(m, "short")) \in Nat
    BY SinceType, AbsNat
  <2>2. Times(Abs(Since(m, "long")), m.custody) \in Nat
        /\ Times(Abs(Since(m, "short")), m.liabilities) \in Nat
    BY <1>1, <2>1, TimesNat
  <2>3. Times(Abs(Since(m, "short")), m.liabilities) * price \in Nat
    BY <1>2, <2>2, ProductNat
  <2> QED BY <2>2, <2>3 DEF FundingDue
<1>5. InterestInCustody(m) \in Nat
  <2>1. TruncateInt(m.unpaid, price) \in Nat /\ m.unpaid * price \in Nat
    BY <1>1, <1>2, TruncateNat, ProductNat
  <2> QED BY <2>1 DEF InterestInCustody, TruncateInt
<1>6. ASSUME NEW n \in Nat PROVE FundingShare(m, n) \in Nat
  <2>1. Times(Since(m, "toLongs"), n) \in Nat /\ Times(Since(m, "toShorts"), m.liabilities) \in Nat
    BY <1>1, SinceType, TimesNat
  <2>2. Times(Since(m, "toShorts"), m.liabilities) * price \in Nat
    BY <1>2, <2>1, ProductNat
  <2> QED BY <2>1, <2>2 DEF FundingShare
<1> QED BY <1>3, <1>4, <1>5, <1>6

\* A position is stored with the same amounts.
SameAmounts(m, n) ==
    SameKind(m, n) /\ n.custody = m.custody /\ n.liabilities = m.liabilities
    /\ n.collateral = m.collateral

LEMMA SetKeeps ==
  ASSUME NEW s \in Sound, NEW id \in s.open, NEW n \in Position, SameAmounts(s.mtps[id], n),
         NEW t, t = SetMTP(s, id, n)
  PROVE  OnlyPosition(s, t, id) /\ t.open = s.open /\ t.mtps[id] = n /\ SameCopy(s, t)
<1>1. s \in State /\ id \in Ids /\ s.mtps[id] \in Position
  BY SoundType
<1>2. PICK M : M = [s.mtps EXCEPT ![id] = n]
  OBVIOUS
<1>3. M \in [Ids -> Position \cup {NoMTP}] /\ M[id] = n /\ \A j \in Ids \ {id} : M[j] = s.mtps[j]
  <2>1. s.mtps \in [Ids -> Position \cup {NoMTP}]
    BY <1>1 DEF State
  <2> QED BY <1>1, <1>2, <2>1
<1>4. t = [s EXCEPT !.mtps = M]
  BY <1>1, <1>2 DEF SetMTP, State
<1>5. /\ t \in State /\ t.pool = s.pool /\ t.open = s.open /\ t.counter = s.counter /\ t.mtps = M
      /\ SameCopy(s, t)
  BY <1>1, <1>3, <1>4 DEF State, SameCopy
<1>6. t.mtps[id] = n /\ \A j \in Ids \ {id} : t.mtps[j] = s.mtps[j]
  BY <1>3, <1>5
<1>7. ASSUME NEW v \in Sides, NEW c \in Columns
      PROVE  Recorded(t, v, c) - Recorded(s, v, c) = Part(t.mtps[id], v, c) - Part(s.mtps[id], v, c)
  <2>1. Recorded(t, v, c) = Recorded(s, v, c)
    BY <1>5 DEF Recorded
  <2>2. Part(t.mtps[id], v, c) = Part(s.mtps[id], v, c)
    BY <1>6 DEF Part, Amount, SameAmounts, SameKind
  <2>3. Recorded(s, v, c) \in Int /\ Part(s.mtps[id], v, c) \in Int
    BY <1>1, RecordedType, PartType
  <2> QED BY <2>1, <2>2, <2>3
<1>8. OnlyPosition(s, t, id)
  <2>1. SameKind(s.mtps[id], t.mtps[id]) /\ t.mtps[id] \in Position
    BY <1>6 DEF SameAmounts
  <2> QED BY <1>5, <1>6, <1>7, <2>1, PositionRewritten
<1> QED BY <1>5, <1>6, <1>8

\* Unpaid interest is written down.
LEMMA UnpaidKeeps ==
  ASSUME NEW s \in Sound, NEW id \in s.open, NEW u \in Nat,
         NEW t, t = [s EXCEPT !.mtps[id].unpaid = u]
  PROVE  /\ OnlyPosition(s, t, id) /\ t.open = s.open /\ t.mtps[id] \in Position
         /\ SameAmounts(s.mtps[id], t.mtps[id]) /\ t.mtps[id].unpaid = u /\ SameCopy(s, t)
<1>1. s \in State /\ id \in Ids /\ s.mtps[id] \in Position
  BY SoundType
<1>2. PICK n : n = [s.mtps[id] EXCEPT !.unpaid = u]
  OBVIOUS
<1>3. n \in Position /\ SameAmounts(s.mtps[id], n) /\ n.unpaid = u
  BY <1>1, <1>2 DEF Position, SameAmounts, SameKind
<1>4. t = SetMTP(s, id, n)
  BY <1>1, <1>2 DEF SetMTP, State
<1>5. \A x : x = SetMTP(s, id, n) =>
                OnlyPosition(s, x, id) /\ x.open = s.open /\ x.mtps[id] = n /\ SameCopy(s, x)
  BY <1>3, SetKeeps
<1>6. OnlyPosition(s, t, id) /\ t.open = s.open /\ t.mtps[id] = n /\ SameCopy(s, t)
  BY <1>4, <1>5, Zenon
<1> QED BY <1>3, <1>6, Zenon

LEMMA SettleKeeps ==
  ASSUME Market, NEW s \in Sound, NEW id \in s.open, NEW t, t = SettleFunding(s, id)
  PROVE  OnlyPosition(s, t, id) /\ t.open = s.open /\ SameCopy(s, t)
<1> DEFINE accrued == [s EXCEPT !.mtps[id].unpaid = InterestDue(s.mtps[id]),
                                !.mtps[id].block = Len(rates)]
<1>1. PICK m : m = s.mtps[id]
  OBVIOUS
<1>2. s \in State /\ id \in Ids /\ m \in Position
  BY <1>1, SoundType
<1>3. m.custody \in Nat /\ FundingDue(m) \in Nat /\ InterestDue(m) \in Nat
  BY <1>2, DueTypes DEF Position
<1>4. PICK paid, received : paid = MinOf(FundingDue(m), m.custody)
                            /\ received = FundingShare(m, m.custody - MinOf(FundingDue(m), m.custody))
  OBVIOUS
<1>5. paid \in 0 .. m.custody /\ received \in Nat
  <2>1. paid \in 0 .. m.custody
    BY <1>3, <1>4 DEF MinOf
  <2>2. m.custody - paid \in Nat
    BY <1>3, <2>1
  <2> QED BY <1>2, <1>4, <2>1, <2>2, DueTypes
<1>6. PICK n : n = [m EXCEPT !.unpaid = InterestDue(m), !.block = Len(rates)]
  OBVIOUS
<1>7. n \in Position /\ SameAmounts(m, n)
  <2>1. Len(rates) \in 1 .. Len(rates)
    BY DEF Market
  <2> QED BY <1>2, <1>3, <1>6, <2>1 DEF Position, SameAmounts, SameKind
<1>8. PICK a : a = accrued
  OBVIOUS
<1>9. a = SetMTP(s, id, n)
  BY <1>1, <1>2, <1>6, <1>8 DEF SetMTP, State, Position
<1>10. OnlyPosition(s, a, id) /\ a.open = s.open /\ a.mtps[id] = n /\ SameCopy(s, a)
  BY <1>1, <1>7, <1>9, SetKeeps
<1>11. t = MoveCustody(a, id, received - paid)
  BY <1>1, <1>4, <1>8 DEF SettleFunding
<1>12. a \in Sound /\ id \in a.open
  BY <1>10 DEF OnlyPosition
<1>13. received - paid \in Int /\ a.mtps[id].custody + (received - paid) >= 0
  BY <1>3, <1>5, <1>7, <1>10 DEF SameAmounts
<1>14. OnlyPosition(a, t, id) /\ t.open = a.open /\ SameCopy(a, t)
  <2> HIDE DEF accrued
  <2> QED BY <1>11, <1>12, <1>13, CustodyMoved
<1> QED BY <1>10, <1>14, OnlyTwice, CopyTwice

LEMMA InsuranceMoves ==
  ASSUME NEW s \in State, NEW d \in Denoms, NEW n \in Nat
  PROVE  /\ CoinsMoved(s, [s EXCEPT !.insurance[d] = @ + n])
         /\ SameCopy(s, [s EXCEPT !.insurance[d] = @ + n])
<1>1. s.insurance \in [Denoms -> Nat] /\ s.insurance[d] \in Nat
  BY DEF State
<1>2. [s.insurance EXCEPT ![d] = @ + n] \in [Denoms -> Nat]
  BY <1>1
<1>3. [s EXCEPT !.insurance[d] = @ + n] = [s EXCEPT !.insurance = [s.insurance EXCEPT ![d] = @ + n]]
  BY DEF State
<1> QED BY <1>2, <1>3 DEF CoinsMoved, SamePositions, SameCopy, State

LEMMA InsurancePaid ==
  ASSUME NEW s \in State, NEW d \in Denoms, NEW n \in Nat, s.insurance[d] >= n,
         NEW t, t = [s EXCEPT !.insurance[d] = @ - n]
  PROVE  CoinsMoved(s, t) /\ SameCopy(s, t)
<1>1. s.insurance \in [Denoms -> Nat] /\ s.insurance[d] \in Nat
  BY DEF State
<1>2. PICK f : f = [s.insurance EXCEPT ![d] = @ - n]
  OBVIOUS
<1>3. f \in [Denoms -> Nat]
  BY <1>1, <1>2
<1>4. t = [s EXCEPT !.insurance = f]
  BY <1>2 DEF State
<1> QED BY <1>3, <1>4 DEF CoinsMoved, SamePositions, SameCopy, State

LEMMA PayInterestKeeps ==
  ASSUME Market, NEW s \in Sound, NEW id \in s.open,
         InterestInCustody(s.mtps[id]) <= s.mtps[id].custody, NEW t \in PayInterest(s, id)
  PROVE  OnlyPosition(s, t, id) /\ t.open = s.open /\ Aligned(t)
<1> DEFINE d == CustodyDenom(s.mtps[id].side)
           due == InterestInCustody(s.mtps[id])
           share == Times(InsuranceShare, due)
           unpaid == [s EXCEPT !.mtps[id].unpaid = 0]
           paid == MoveCustody(unpaid, id, - due)
<1>1. s \in State /\ s.mtps[id] \in Position
  BY SoundType
<1>2. d \in Denoms /\ due \in Nat /\ s.mtps[id].custody \in Nat
  BY <1>1, DueTypes, SideDenoms DEF Position
<1>3. share \in Nat
  <2>1. InsuranceShare \in Nat
    BY AssumedNumbers, Constants
  <2> HIDE DEF due
  <2> QED BY <1>2, <2>1, TimesNat
<1>4. PICK u \in SendFromAmmPool(paid, d, share) : t = [u EXCEPT !.insurance[d] = @ + share]
  BY DEF PayInterest
<1>5. PICK a : a = unpaid
  OBVIOUS
<1>6. OnlyPosition(s, a, id) /\ a.open = s.open /\ SameAmounts(s.mtps[id], a.mtps[id])
  BY <1>5, UnpaidKeeps
<1>7. PICK b : b = paid
  OBVIOUS
<1>8. b = MoveCustody(a, id, - due)
  BY <1>5, <1>7
<1>9. a \in Sound /\ id \in a.open /\ a.mtps[id].custody + (- due) >= 0 /\ - due \in Int
  BY <1>2, <1>6 DEF OnlyPosition, SameAmounts
<1>10. u \in SendFromAmmPool(b, d, share)
  BY <1>4, <1>7
<1> HIDE DEF d, due, share, unpaid, paid
<1>11. OnlyPosition(a, b, id) /\ b.open = a.open
  BY <1>8, <1>9, CustodyMoved
<1>12. b \in Sound /\ b \in State
  BY <1>11 DEF OnlyPosition, Sound
<1>13. CoinsMoved(b, u) /\ Aligned(u)
  BY <1>2, <1>3, <1>10, <1>12, SendMoves
<1>14. CoinsMoved(u, t) /\ SameCopy(u, t)
  BY <1>2, <1>3, <1>4, <1>13, InsuranceMoves DEF CoinsMoved
<1>15. CoinsMoved(b, t)
  BY <1>13, <1>14, MovedTwice
<1>16. OnlyPosition(b, t, id) /\ t.open = b.open
  BY <1>12, <1>15, OnlyCoins DEF CoinsMoved, SamePositions
<1>17. OnlyPosition(s, b, id)
  BY <1>6, <1>11, OnlyTwice
<1>18. Aligned(t)
  BY <1>13, <1>14, CopySlips
<1> QED BY <1>6, <1>11, <1>16, <1>17, <1>18, OnlyTwice

LEMMA PayInterestShortKeeps ==
  ASSUME Market, NEW s \in Sound, Aligned(s), NEW id \in s.open,
         InterestInCustody(s.mtps[id]) > s.mtps[id].custody, NEW t, t = PayInterestShort(s, id)
  PROVE  OnlyPosition(s, t, id) /\ t.open = s.open /\ Aligned(t)
<1> DEFINE d == CustodyDenom(s.mtps[id].side)
           missing == InterestInCustody(s.mtps[id]) - s.mtps[id].custody
           owed == IF s.mtps[id].side = "long" THEN missing * price ELSE 0
           unpaid == [s EXCEPT !.mtps[id].unpaid = owed]
           gone == MoveCustody(unpaid, id, - s.mtps[id].custody)
<1>1. s \in State /\ s.mtps[id] \in Position
  BY SoundType
<1>2. d \in Denoms /\ missing \in Nat /\ s.mtps[id].custody \in Nat
  <2>1. InterestInCustody(s.mtps[id]) \in Nat /\ s.mtps[id].custody \in Nat
    BY <1>1, DueTypes DEF Position
  <2> QED BY <1>1, <2>1, SideDenoms, SMTT(40) DEF Position
<1>3. owed \in Nat
  <2>1. price \in Nat
    BY DEF Market
  <2> HIDE DEF missing
  <2> QED BY <1>2, <2>1, ProductNat
<1>4. PICK a : a = unpaid
  OBVIOUS
<1>5. PICK b : b = gone
  OBVIOUS
<1>6. t = IF s.insurance[d] >= missing
          THEN [Receive(b, d, missing) EXCEPT !.insurance[d] = @ - missing] ELSE b
  BY <1>5 DEF PayInterestShort
<1>7. /\ OnlyPosition(s, a, id) /\ a.open = s.open /\ SameAmounts(s.mtps[id], a.mtps[id])
      /\ SameCopy(s, a)
  <2> HIDE DEF owed
  <2> QED BY <1>3, <1>4, UnpaidKeeps
<1>8. b = MoveCustody(a, id, - s.mtps[id].custody)
  BY <1>4, <1>5
<1>9. a \in Sound /\ id \in a.open /\ - s.mtps[id].custody \in Int
      /\ a.mtps[id].custody + (- s.mtps[id].custody) >= 0
  BY <1>2, <1>7 DEF OnlyPosition, SameAmounts
<1>10. a.insurance = s.insurance /\ b.insurance = a.insurance
  <2>1. a.insurance = s.insurance
    BY <1>1, <1>4 DEF State
  <2>2. b.insurance = a.insurance
    BY <1>8, <1>9 DEF MoveCustody, ChangePosition, SetMTP, ChangeTotals, Sound, State
  <2> QED BY <2>1, <2>2
<1> HIDE DEF d, missing, owed, unpaid, gone
<1>11. OnlyPosition(a, b, id) /\ b.open = a.open /\ SameCopy(a, b)
  BY <1>8, <1>9, CustodyMoved
<1>12. b \in Sound /\ b \in State
  BY <1>11 DEF OnlyPosition, Sound
<1>13. OnlyPosition(s, b, id) /\ b.open = s.open /\ Aligned(b)
  BY <1>7, <1>11, OnlyTwice, CopySlips
<1>14. CASE s.insurance[d] >= missing
  <2>1. PICK r : r = Receive(b, d, missing)
    OBVIOUS
  <2>2. CoinsMoved(b, r) /\ Aligned(r)
    BY <1>2, <1>12, <2>1, ReceiveMoves
  <2>3. r.insurance = b.insurance
    BY <1>12, <2>1 DEF Receive, Moved, State
  <2>4. t = [r EXCEPT !.insurance[d] = @ - missing]
    BY <1>6, <1>14, <2>1
  <2>5. CoinsMoved(r, t) /\ SameCopy(r, t)
    <3>1. r \in State
      BY <2>2 DEF CoinsMoved
    <3>2. r.insurance[d] >= missing
      BY <1>10, <1>14, <2>3
    <3> QED BY <1>2, <2>4, <3>1, <3>2, InsurancePaid
  <2>6. CoinsMoved(b, t) /\ Aligned(t)
    BY <2>2, <2>5, MovedTwice, CopySlips
  <2>7. OnlyPosition(b, t, id) /\ t.open = b.open
    BY <1>12, <2>6, OnlyCoins DEF CoinsMoved, SamePositions
  <2> QED BY <1>13, <2>6, <2>7, OnlyTwice
<1>15. CASE ~ (s.insurance[d] >= missing)
  BY <1>6, <1>13, <1>15
<1> QED BY <1>14, <1>15

(***************************************************************************)
(* After the checks a position is gone or holds something, whatever it had *)
(* to pay.                                                                 *)
(***************************************************************************)
LEMMA TriggersKeep ==
  ASSUME Market, NEW s \in Sound, NEW id \in s.open, NEW t \in MTPTriggerChecksAndUpdates(s, id)
  PROVE  /\ OnlyPosition(s, t, id) /\ Holds(t, id)
         /\ id \notin t.open => Current(t)
         /\ id \in t.open => Aligned(t)
<1>1. PICK p, r : p = GetAmmPool(s) /\ r = SettleFunding(p, id)
  OBVIOUS
<1>2. OnlyPosition(s, r, id) /\ r.open = s.open /\ r \in Sound /\ id \in r.open /\ Aligned(r)
  <2>1. CoinsMoved(s, p) /\ Aligned(p)
    BY <1>1, SoundType, PoolRead
  <2>2. OnlyPosition(s, p, id) /\ p.open = s.open /\ p \in Sound
    BY <2>1, OnlyCoins DEF CoinsMoved, SamePositions, OnlyPosition
  <2>3. OnlyPosition(p, r, id) /\ r.open = p.open /\ SameCopy(p, r)
    BY <1>1, <2>2, SettleKeeps
  <2> QED BY <2>1, <2>2, <2>3, OnlyTwice, CopySlips DEF OnlyPosition
<1>3. r.mtps[id] \in Position
  BY <1>2, SoundType
<1>4. InterestInCustody(r.mtps[id]) \in Nat /\ r.mtps[id].custody \in Nat
  BY <1>3, DueTypes DEF Position
<1>5. CASE t \in ForceClose(r, id)
  <2>1. OnlyPosition(r, t, id) /\ id \notin t.open /\ Current(t)
    BY <1>2, <1>5, ForceCloseKeeps
  <2> QED BY <1>2, <2>1, OnlyTwice DEF Holds
<1>6. CASE InterestInCustody(r.mtps[id]) > r.mtps[id].custody
           /\ t \in ForceClose(PayInterestShort(r, id), id)
  <2>1. PICK q : q = PayInterestShort(r, id)
    OBVIOUS
  <2>2. OnlyPosition(r, q, id) /\ q.open = r.open /\ Aligned(q)
    BY <1>2, <1>6, <2>1, PayInterestShortKeeps
  <2>3. OnlyPosition(q, t, id) /\ id \notin t.open /\ Current(t)
    BY <1>2, <1>6, <2>1, <2>2, ForceCloseKeeps DEF OnlyPosition
  <2>4. OnlyPosition(r, t, id)
    BY <2>2, <2>3, OnlyTwice
  <2> QED BY <1>2, <2>3, <2>4, OnlyTwice DEF Holds
<1>7. CASE ~ (InterestInCustody(r.mtps[id]) > r.mtps[id].custody)
           /\ \E q \in PayInterest(r, id) :
                 t \in IF Unhealthy(q.mtps[id]) THEN ForceClose(q, id) ELSE {q}
  <2>1. PICK q \in PayInterest(r, id) :
               t \in IF Unhealthy(q.mtps[id]) THEN ForceClose(q, id) ELSE {q}
    BY <1>7
  <2>2. OnlyPosition(r, q, id) /\ q.open = r.open /\ Aligned(q)
    BY <1>2, <1>4, <1>7, <2>1, PayInterestKeeps
  <2>3. q \in Sound /\ id \in q.open
    BY <1>2, <2>2 DEF OnlyPosition
  <2>4. OnlyPosition(s, q, id)
    BY <1>2, <2>2, OnlyTwice
  <2>5. CASE Unhealthy(q.mtps[id])
    <3>1. OnlyPosition(q, t, id) /\ id \notin t.open /\ Current(t)
      BY <2>1, <2>2, <2>3, <2>5, ForceCloseKeeps
    <3> QED BY <2>4, <3>1, OnlyTwice DEF Holds
  <2>6. CASE ~ Unhealthy(q.mtps[id])
    <3>1. q.mtps[id].custody # 0 /\ q.mtps[id].custody \in Nat
      BY <2>3, <2>6, SoundType DEF Unhealthy, Position
    <3> QED BY <2>1, <2>2, <2>3, <2>4, <2>6, <3>1 DEF Holds
  <2> QED BY <2>5, <2>6
<1> QED BY <1>1, <1>5, <1>6, <1>7, Zenon DEF MTPTriggerChecksAndUpdates

-----------------------------------------------------------------------------
(***************************************************************************)
(* Opening and merging.                                                    *)
(***************************************************************************)
LEMMA GapType ==
  ASSUME NEW s \in State, NEW v \in Sides, NEW c \in Columns
  PROVE  Gap(s, v, c) \in Int
<1>1. Recorded(s, v, c) \in Int
  BY RecordedType
<1>2. Column(s, v, c) \in [1 .. MaxPositions -> Int]
  BY ColumnType
<1>3. Sum(Column(s, v, c), MaxPositions) \in Int
  BY <1>2, SumInt, Constants
<1> QED BY <1>1, <1>3 DEF Gap

LEMMA LiquidationPriceNat ==
  ASSUME NEW m \in Position
  PROVE  LiquidationPrice(m) \in Nat
<1>1. m.custody \in Nat /\ m.liabilities \in Nat
  BY DEF Position
<1>2. /\ SafetyNum * m.liabilities \in Nat /\ m.liabilities * SafetyNum \in Nat
      /\ SafetyDen * m.custody \in Nat /\ m.custody * SafetyDen \in Nat
  BY <1>1, AssumedNumbers, ProductNat
<1>3. /\ m.custody # 0 => SafetyDen * m.custody # 0
      /\ m.liabilities # 0 => m.liabilities * SafetyNum # 0
  BY <1>1, AssumedNumbers
<1>4. CASE m.side = "long"
  <2>1. CASE m.custody = 0
    BY <1>4, <2>1 DEF LiquidationPrice, None
  <2>2. CASE m.custody # 0
    <3>1. TruncateInt(SafetyNum * m.liabilities, SafetyDen * m.custody) \in Nat
      BY <1>2, <1>3, <2>2, TruncateNat
    <3> QED BY <1>4, <2>2, <3>1, Zenon DEF LiquidationPrice, TruncateInt
  <2> QED BY <2>1, <2>2
<1>5. CASE m.side # "long"
  <2>1. CASE m.liabilities = 0
    BY <1>5, <2>1 DEF LiquidationPrice, None
  <2>2. CASE m.liabilities # 0
    <3>1. CeilInt(m.custody * SafetyDen, m.liabilities * SafetyNum) \in Nat
      BY <1>2, <1>3, <2>2, CeilBound
    <3> QED BY <1>5, <2>2, <3>1, Zenon DEF LiquidationPrice
  <2> QED BY <2>1, <2>2
<1> QED BY <1>4, <1>5

\* t has one position more than s, with the next id.
Opened(s, t, m) ==
    /\ t \in Sound
    /\ t.counter.last = s.counter.last + 1
    /\ t.counter.last \notin s.open
    /\ t.open = s.open \cup {t.counter.last}
    /\ t.mtps[t.counter.last] = m
    /\ \A j \in Ids \ {t.counter.last} : t.mtps[j] = s.mtps[j]

LEMMA AddKeeps ==
  ASSUME NEW s \in State, Stored(s), s.counter.last < MaxPositions,
         NEW m \in Position, m.side = "short" => m.denom = "base",
         \A v \in Sides, c \in Columns : Gap(s, v, c) = Part(m, v, c),
         NEW t, t = AddMTP(s, m)
  PROVE  Opened(s, t, m) /\ SameCopy(s, t)
<1>1. PICK id : id = s.counter.last + 1
  OBVIOUS
<1>2. s.counter.last \in Nat /\ id \in Ids /\ id \notin s.open
  <2>1. s.counter.last \in Nat
    BY DEF State
  <2>2. \A j \in s.open : j <= s.counter.last
    BY DEF Stored
  <2> QED BY <1>1, <2>1, <2>2, Constants DEF Ids
<1>3. PICK M : M = [s.mtps EXCEPT ![id] = m]
  OBVIOUS
<1>4. M \in [Ids -> Position \cup {NoMTP}] /\ M[id] = m /\ \A j \in Ids \ {id} : M[j] = s.mtps[j]
  <2>1. s.mtps \in [Ids -> Position \cup {NoMTP}]
    BY DEF State
  <2> QED BY <1>2, <1>3, <2>1
<1>5. PICK C : C = [last |-> id, totalOpen |-> s.counter.totalOpen + 1]
  OBVIOUS
<1>6. C \in [last : Nat, totalOpen : Int] /\ C.last = id /\ C.totalOpen = s.counter.totalOpen + 1
  <2>1. s.counter.totalOpen + 1 \in Int /\ id \in Nat
    BY <1>1, <1>2 DEF State
  <2> QED BY <1>5, <2>1
<1>7. t = [s EXCEPT !.mtps = M, !.open = s.open \cup {id}, !.counter = C]
  BY <1>1, <1>3, <1>5 DEF AddMTP, State
<1>8. /\ t \in State /\ t.mtps = M /\ t.open = s.open \cup {id} /\ t.counter = C /\ t.pool = s.pool
      /\ SameCopy(s, t)
  <2>1. PICK O : O = s.open \cup {id}
    OBVIOUS
  <2>2. O \in SUBSET Ids
    BY <1>2, <2>1 DEF State
  <2>3. t = [s EXCEPT !.mtps = M, !.open = O, !.counter = C]
    BY <1>7, <2>1
  <2>4. /\ t \in State /\ t.mtps = M /\ t.open = O /\ t.counter = C /\ t.pool = s.pool
        /\ SameCopy(s, t)
    BY <1>4, <1>6, <2>2, <2>3 DEF State, SameCopy
  <2> QED BY <2>1, <2>4
<1>9. Stored(t)
  <2>1. t.counter.totalOpen = Cardinality(t.open)
    <3>1. Cardinality(s.open \cup {id}) = Cardinality(s.open) + 1
      BY <1>2, OpenFinite, FS_AddElement
    <3> QED BY <1>6, <1>8, <3>1 DEF Stored
  <2>2. \A j \in s.open : j \in Ids /\ j # id /\ t.mtps[j] = s.mtps[j] /\ j <= id
    <3> SUFFICES ASSUME NEW j \in s.open
                 PROVE  j \in Ids /\ j # id /\ t.mtps[j] = s.mtps[j] /\ j <= id
      OBVIOUS
    <3>1. j \in Ids /\ j # id /\ j <= s.counter.last
      BY <1>2 DEF State, Stored
    <3> QED BY <1>1, <1>2, <1>4, <1>8, <3>1 DEF Ids
  <2>3. \A j \in Ids \ t.open : t.mtps[j] = NoMTP
    BY <1>4, <1>8 DEF Stored
  <2>4. t.counter.last <= MaxPositions /\ id <= t.counter.last
    BY <1>2, <1>6, <1>8, Constants DEF Ids
  <2> QED BY <1>4, <1>6, <1>8, <2>1, <2>2, <2>3, <2>4 DEF Stored
<1>10. ASSUME NEW v \in Sides, NEW c \in Columns PROVE Gap(t, v, c) = 0
  <2>1. Gap(t, v, c) = Gap(s, v, c) + Recorded(t, v, c) - Recorded(s, v, c)
                         - Part(t.mtps[id], v, c) + Part(s.mtps[id], v, c)
    <3>1. \A j \in Ids \ {id} : t.mtps[j] = s.mtps[j]
      BY <1>4, <1>8
    <3> QED BY <1>2, <1>8, <3>1, GapMoves
  <2>2. Recorded(t, v, c) = Recorded(s, v, c)
    BY <1>8 DEF Recorded
  <2>3. Part(s.mtps[id], v, c) = 0
    <3>1. s.mtps[id] = NoMTP
      BY <1>2 DEF Stored
    <3> QED BY <3>1, Constants DEF Part, NoMTP
  <2>4. Part(t.mtps[id], v, c) = Part(m, v, c) /\ Gap(s, v, c) = Part(m, v, c)
    BY <1>4, <1>8
  <2>5. Part(m, v, c) \in Int /\ Recorded(s, v, c) \in Int
    BY PartType, RecordedType
  <2> HIDE DEF Gap, Part, Recorded
  <2> QED BY <2>1, <2>2, <2>3, <2>4, <2>5
<1>11. t \in Sound
  BY <1>8, <1>9, <1>10 DEF Sound, Balanced
<1>12. t.counter.last = id
  BY <1>6, <1>8
<1> QED BY <1>1, <1>2, <1>4, <1>8, <1>11, <1>12 DEF Opened

LEMMA BorrowKeeps ==
  ASSUME Market, NEW s \in Sound, s.counter.last < MaxPositions,
         NEW m \in Position, m.side = "short" => m.denom = "base",
         (m.side = "long" /\ m.denom = "base") \/ m.collateral <= m.custody,
         NEW t \in Borrow(s, m)
  PROVE  Opened(s, t, m) /\ Slipped(t)
<1> DEFINE swapped == IF m.side = "long" /\ m.denom = "base" THEN m.collateral + m.liabilities
                      ELSE m.custody - m.collateral
           fee == FeesOn(swapped, swapped).perp
           funded == OnCollectFee(Receive(s, m.denom, m.collateral), m.denom, fee)
<1>1. /\ m.side \in Sides /\ m.denom \in Denoms
      /\ m.custody \in Nat /\ m.liabilities \in Nat /\ m.collateral \in Nat
  BY DEF Position
<1>2. swapped \in Nat
  BY <1>1
<1>3. fee \in Nat
  <2> HIDE DEF swapped
  <2>1. FeesOn(swapped, swapped) \in FeesType
    BY <1>2, FeesOnType
  <2> QED BY <2>1 DEF FeesType
<1>4. PICK f \in funded :
            t = AddMTP(ChangeTotals(f, m.side, m.denom, m.custody, m.liabilities, m.collateral), m)
  BY DEF Borrow
<1>5. PICK paid : paid = Receive(s, m.denom, m.collateral)
  OBVIOUS
<1>6. CoinsMoved(s, f) /\ Slipped(f)
  <2> HIDE DEF fee
  <2>1. s \in State
    BY SoundType
  <2>2. CoinsMoved(s, paid) /\ Aligned(paid)
    BY <1>1, <1>5, <2>1, ReceiveMoves
  <2>3. f \in OnCollectFee(paid, m.denom, fee)
    BY <1>4, <1>5
  <2>4. CoinsMoved(paid, f) /\ (Aligned(paid) => Slipped(f))
    BY <1>1, <1>3, <2>2, <2>3, CollectFeeMoves DEF CoinsMoved
  <2> QED BY <2>2, <2>4, MovedTwice
<1>7. f \in Sound /\ f \in State /\ Stored(f) /\ Balanced(f) /\ SamePositions(s, f)
  BY <1>6, CoinsSound DEF CoinsMoved, Sound
<1>8. PICK r : r = ChangeTotals(f, m.side, m.denom, m.custody, m.liabilities, m.collateral)
  OBVIOUS
<1> HIDE DEF swapped, fee, funded
<1>9. /\ r \in State /\ r.mtps = f.mtps /\ r.open = f.open /\ r.counter = f.counter
      /\ SameCopy(f, r)
      /\ \A v \in Sides, c \in Columns :
            Recorded(r, v, c) = Recorded(f, v, c)
              + Part(Entry(m.side, m.denom, m.custody, m.liabilities, m.collateral), v, c)
  BY <1>1, <1>7, <1>8, TotalsChanged
<1>10. Stored(r)
  BY <1>7, <1>9 DEF Stored
<1>11. ASSUME NEW v \in Sides, NEW c \in Columns PROVE Gap(r, v, c) = Part(m, v, c)
  <2>1. Part(Entry(m.side, m.denom, m.custody, m.liabilities, m.collateral), v, c) = Part(m, v, c)
    BY DEF Part, Amount, Entry
  <2>2. Column(r, v, c) = Column(f, v, c)
    BY <1>9 DEF Column
  <2>3. Gap(f, v, c) = 0
    BY <1>7 DEF Balanced
  <2>4. Recorded(f, v, c) \in Int /\ Part(m, v, c) \in Int
    BY <1>7, RecordedType, PartType
  <2>5. Sum(Column(f, v, c), MaxPositions) \in Int
    <3>1. Column(f, v, c) \in [1 .. MaxPositions -> Int]
      BY <1>7, ColumnType
    <3> QED BY <3>1, SumInt, Constants
  <2>6. Recorded(r, v, c) = Recorded(f, v, c) + Part(m, v, c)
    BY <1>9, <2>1
  <2> QED BY <2>2, <2>3, <2>4, <2>5, <2>6 DEF Gap
<1>12. Opened(r, t, m) /\ SameCopy(r, t)
  <2>1. r.counter.last < MaxPositions
    BY <1>7, <1>9 DEF SamePositions
  <2>2. t = AddMTP(r, m)
    BY <1>4, <1>8
  <2> QED BY <1>9, <1>10, <1>11, <2>1, <2>2, AddKeeps
<1>13. Slipped(t)
  BY <1>6, <1>9, <1>12, CopySlips
<1> QED BY <1>7, <1>9, <1>12, <1>13 DEF Opened, SamePositions

\* A position of u with this collateral and custody.
PositionOf(m, u, side, d, amount, custody) ==
    /\ m \in Position /\ m.owner = u /\ m.side = side /\ m.denom = d
    /\ m.collateral = amount /\ m.custody = custody

LEMMA NewPosition ==
  ASSUME Market, NEW u \in Traders, NEW side \in Sides, NEW d \in Denoms, NEW amount \in Nat,
         NEW custody \in Nat, NEW owed \in Nat, NEW takeProfit \in Nat
  PROVE  PositionOf(NewMTP(u, side, d, amount, custody, owed, takeProfit),
                    u, side, d, amount, custody)
<1> DEFINE m == NewMTP(u, side, d, amount, custody, owed, takeProfit)
<1>1. PICK n : n = [NoMTP EXCEPT !.owner = u, !.side = side, !.denom = d, !.collateral = amount,
                                 !.liabilities = owed, !.custody = custody,
                                 !.takeProfit = takeProfit, !.block = Len(rates)]
  OBVIOUS
<1>2. /\ n \in Position /\ n.owner = u /\ n.side = side /\ n.denom = d
      /\ n.collateral = amount /\ n.custody = custody
  <2>1. Len(rates) \in 1 .. Len(rates)
    BY DEF Market
  <2> QED BY <1>1, <2>1 DEF Position, NoMTP, None
<1>3. LiquidationPrice(n) \in Nat
  BY <1>2, LiquidationPriceNat
<1>4. m = [n EXCEPT !.stopLoss = LiquidationPrice(n)]
  BY <1>1 DEF NewMTP
<1> HIDE DEF m
<1>5. PositionOf(m, u, side, d, amount, custody)
  BY <1>2, <1>3, <1>4 DEF Position, PositionOf
<1> QED BY <1>5 DEF m

LEMMA ProcessOpenKeeps ==
  ASSUME Market, NEW s \in Sound, s.counter.last < MaxPositions,
         NEW u \in Traders, NEW side \in Sides, NEW d \in Denoms, side = "short" => d = "base",
         NEW amount \in Nat \ {0}, NEW leverage \in Nat, NEW takeProfit \in Nat,
         NEW t \in ProcessOpen(s, u, side, d, amount, leverage, takeProfit)
  PROVE  \E m \in Position : /\ Opened(s, t, m) /\ m.custody > 0 /\ Slipped(t)
                             /\ m.owner = u /\ m.side = side /\ m.denom = d
<1>1. PICK factor : factor = ProxyLeverage(side, leverage)
  OBVIOUS
<1>2. factor \in Nat \ {0}
  BY <1>1 DEF ProxyLeverage
<1>3. PICK custody \in Bought(s, side, d, factor * amount),
           owed \in Owed(s, side, d, (factor - 1) * amount) :
           t \in Borrow(GetAmmPool(s), NewMTP(u, side, d, amount, custody, owed, takeProfit))
  BY <1>1 DEF ProcessOpen
<1>4. factor * amount \in Nat /\ amount <= factor * amount /\ (factor - 1) * amount \in Nat
  <2>1. factor - 1 \in Nat
    BY <1>2
  <2>2. (factor - 1) * amount \in Nat
    BY <2>1, ProductNat
  <2>3. factor * amount = (factor - 1) * amount + amount
    BY <1>2
  <2> QED BY <2>2, <2>3
<1>5. custody \in Nat \ {0} /\ ((side = "long" /\ d = "base") \/ amount <= custody)
  <2>1. CASE side = "short" \/ d = "trading"
    <3>1. custody = factor * amount
      BY <1>3, <2>1 DEF Bought
    <3> QED BY <1>4, <3>1
  <2>2. CASE ~ (side = "short" \/ d = "trading")
    <3>1. custody \in EstimateSwapGivenIn(s, "base", factor * amount)
      BY <1>3, <2>2 DEF Bought
    <3>2. custody \in Nat \ {0}
      BY <1>4, <3>1, EstimateTypes
    <3> QED BY <2>2, <3>2, Constants
  <2> QED BY <2>1, <2>2
<1>6. owed \in Nat
  <2>1. owed = 0 \/ owed = (factor - 1) * amount
        \/ owed \in EstimateSwapGivenOut(s, d, (factor - 1) * amount)
    BY <1>3 DEF Owed
  <2> QED BY <1>4, <2>1, EstimateTypes
<1>7. PICK m : m = NewMTP(u, side, d, amount, custody, owed, takeProfit)
  OBVIOUS
<1>8. /\ m \in Position /\ m.owner = u /\ m.side = side /\ m.denom = d
      /\ m.collateral = amount /\ m.custody = custody
  <2>1. custody \in Nat /\ amount \in Nat
    BY <1>5
  <2>2. PositionOf(NewMTP(u, side, d, amount, custody, owed, takeProfit),
                   u, side, d, amount, custody)
    BY <1>6, <2>1, NewPosition, Zenon
  <2>3. PositionOf(m, u, side, d, amount, custody)
    BY <1>7, <2>2
  <2> QED BY <2>3 DEF PositionOf
<1>9. PICK p : p = GetAmmPool(s) /\ t \in Borrow(p, m)
  BY <1>3, <1>7
<1>10. (m.side = "long" /\ m.denom = "base") \/ m.collateral <= m.custody
  BY <1>5, <1>8
<1>11. m.side = "short" => m.denom = "base"
  BY <1>8
<1>12. CoinsMoved(s, p)
  BY <1>9, SoundType, PoolRead
<1>13. p \in Sound /\ SamePositions(s, p)
  BY <1>12, CoinsSound DEF CoinsMoved
<1>14. p.counter.last < MaxPositions
  BY <1>13 DEF SamePositions
<1>15. Opened(p, t, m) /\ Slipped(t)
  BY <1>8, <1>9, <1>10, <1>11, <1>13, <1>14, BorrowKeeps
<1>16. Opened(s, t, m)
  BY <1>13, <1>15 DEF Opened, SamePositions
<1> QED BY <1>5, <1>8, <1>15, <1>16

(***************************************************************************)
(* The new position leaves the store when the other has its amounts.       *)
(***************************************************************************)
LEMMA MergeKeeps ==
  ASSUME NEW s \in Sound, NEW id \in s.open, NEW new \in s.open, id # new,
         NEW m \in Position, SameKind(s.mtps[id], m),
         s.mtps[new].side = s.mtps[id].side, s.mtps[new].denom = s.mtps[id].denom,
         m.custody = s.mtps[id].custody + s.mtps[new].custody,
         m.liabilities = s.mtps[id].liabilities + s.mtps[new].liabilities,
         m.collateral = s.mtps[id].collateral + s.mtps[new].collateral,
         NEW t, t = DestroyMTP(SetMTP(s, id, m), new)
  PROVE  /\ t \in Sound /\ t.counter.last = s.counter.last /\ t.open = s.open \ {new}
         /\ t.mtps[id] = m /\ \A j \in Ids \ {id, new} : t.mtps[j] = s.mtps[j]
         /\ SameCopy(s, t)
<1>1. /\ s \in State /\ Stored(s) /\ Balanced(s) /\ id \in Ids /\ new \in Ids
      /\ s.mtps[id] \in Position /\ s.mtps[new] \in Position
  BY SoundType
<1>2. PICK M : M = [s.mtps EXCEPT ![id] = m]
  OBVIOUS
<1>3. M \in [Ids -> Position \cup {NoMTP}] /\ M[id] = m /\ \A j \in Ids \ {id} : M[j] = s.mtps[j]
  <2>1. s.mtps \in [Ids -> Position \cup {NoMTP}]
    BY <1>1 DEF State
  <2> QED BY <1>1, <1>2, <2>1
<1>4. PICK r : r = SetMTP(s, id, m)
  OBVIOUS
<1>5. r = [s EXCEPT !.mtps = M]
  BY <1>1, <1>2, <1>4 DEF SetMTP, State
<1>6. /\ r \in State /\ r.pool = s.pool /\ r.open = s.open /\ r.counter = s.counter /\ r.mtps = M
      /\ SameCopy(s, r)
  BY <1>1, <1>3, <1>5 DEF State, SameCopy
<1>7. Stored(r)
  <2>1. m.side = "short" => m.denom = "base"
    BY <1>1 DEF Stored, SameKind
  <2>2. \A j \in s.open : j \in Ids
    BY SoundType
  <2>3. \A j \in r.open : /\ r.mtps[j] \in Position
                          /\ r.mtps[j].side = "short" => r.mtps[j].denom = "base"
                          /\ j <= r.counter.last
    <3> SUFFICES ASSUME NEW j \in s.open
                 PROVE  /\ M[j] \in Position
                        /\ M[j].side = "short" => M[j].denom = "base"
                        /\ j <= s.counter.last
      BY <1>6
    <3>1. s.mtps[j] \in Position /\ (s.mtps[j].side = "short" => s.mtps[j].denom = "base")
          /\ j <= s.counter.last
      BY <1>1 DEF Stored
    <3> QED BY <1>3, <2>1, <2>2, <3>1
  <2> QED BY <1>1, <1>3, <1>6, <2>2, <2>3 DEF Stored
<1>8. /\ t \in State /\ Stored(t) /\ SameCopy(r, t)
      /\ t.open = r.open \ {new} /\ t.counter.last = r.counter.last
      /\ \A j \in Ids \ {new} : t.mtps[j] = r.mtps[j]
      /\ \A v \in Sides, c \in Columns : Gap(t, v, c) = Gap(r, v, c) + Part(r.mtps[new], v, c)
  BY <1>4, <1>6, <1>7, DestroyGap
<1>9. ASSUME NEW v \in Sides, NEW c \in Columns PROVE Gap(t, v, c) = 0
  <2>1. Gap(r, v, c) = Gap(s, v, c) + Recorded(r, v, c) - Recorded(s, v, c)
                         - Part(r.mtps[id], v, c) + Part(s.mtps[id], v, c)
    <3>1. \A j \in Ids \ {id} : r.mtps[j] = s.mtps[j]
      BY <1>3, <1>6
    <3> QED BY <1>1, <1>6, <3>1, GapMoves
  <2>2. Recorded(r, v, c) = Recorded(s, v, c) /\ r.mtps[id] = m /\ r.mtps[new] = s.mtps[new]
    BY <1>1, <1>3, <1>6 DEF Recorded
  <2>3. Part(m, v, c) = Part(s.mtps[id], v, c) + Part(s.mtps[new], v, c)
    <3>1. s.mtps[id].custody \in Nat /\ s.mtps[id].liabilities \in Nat
          /\ s.mtps[id].collateral \in Nat
      BY <1>1 DEF Position
    <3> QED BY <3>1 DEF Part, Amount, SameKind
  <2>4. Gap(s, v, c) = 0 /\ Gap(t, v, c) = Gap(r, v, c) + Part(r.mtps[new], v, c)
    BY <1>1, <1>8 DEF Balanced
  <2>5. Part(s.mtps[id], v, c) \in Int /\ Part(s.mtps[new], v, c) \in Int
        /\ Recorded(s, v, c) \in Int
    BY <1>1, PartType, RecordedType
  <2> HIDE DEF Gap, Part, Recorded
  <2> QED BY <2>1, <2>2, <2>3, <2>4, <2>5
<1>10. t \in Sound
  BY <1>8, <1>9 DEF Sound, Balanced
<1>11. SameCopy(s, t)
  BY <1>6, <1>8, CopyTwice
<1> QED BY <1>1, <1>3, <1>6, <1>8, <1>10, <1>11

AllHold(s) == \A id \in s.open : s.mtps[id].custody > 0

\* t is sound, its positions hold something if those of s do, and it has
\* given at most so many new ids.
Follows(s, t, n) ==
    /\ t \in Sound
    /\ s.counter.last <= t.counter.last /\ t.counter.last <= s.counter.last + n
    /\ AllHold(s) => AllHold(t)

LEMMA OnlyFollows ==
  ASSUME NEW s \in Sound, NEW id \in s.open, NEW t, OnlyPosition(s, t, id), Holds(t, id)
  PROVE  Follows(s, t, 0)
<1>1. t \in Sound /\ t.counter.last = s.counter.last
  BY DEF OnlyPosition
<1>2. s.counter.last \in Nat
  BY SoundType DEF State
<1>3. ASSUME AllHold(s), NEW j \in t.open PROVE t.mtps[j].custody > 0
  <2>1. CASE j = id
    BY <2>1 DEF Holds
  <2>2. CASE j # id
    <3>1. j \in s.open /\ j \in Ids
      BY <1>1, SoundType DEF OnlyPosition
    <3>2. t.mtps[j] = s.mtps[j]
      BY <2>2, <3>1 DEF OnlyPosition
    <3> QED BY <1>3, <3>1, <3>2 DEF AllHold
  <2> QED BY <2>1, <2>2
<1> QED BY <1>1, <1>2, <1>3 DEF Follows, AllHold

LEMMA CoinsFollow ==
  ASSUME NEW s \in Sound, NEW t, CoinsMoved(s, t)
  PROVE  Follows(s, t, 0)
<1>1. t \in Sound /\ SamePositions(s, t)
  BY CoinsSound DEF CoinsMoved
<1>2. s.counter.last \in Nat
  BY SoundType DEF State
<1> QED BY <1>1, <1>2 DEF SamePositions, Follows, AllHold

LEMMA FollowsTwice ==
  ASSUME NEW s \in Sound, NEW t, NEW r, NEW n \in Nat, NEW k \in Nat,
         Follows(s, t, n), Follows(t, r, k)
  PROVE  Follows(s, r, n + k)
<1>1. s.counter.last \in Nat /\ t.counter.last \in Nat /\ r.counter.last \in Nat
  BY SoundType DEF State, Follows
<1> QED BY <1>1 DEF Follows

\* The amounts of the new position m are added to those of another.
Merger(m, n, takeProfit) ==
    LET sum == [m EXCEPT !.collateral = @ + n.collateral, !.custody = @ + n.custody,
                         !.liabilities = @ + n.liabilities,
                         !.takeProfit = IF takeProfit = None THEN @ ELSE takeProfit]
    IN  [sum EXCEPT !.stopLoss = LiquidationPrice(sum)]

Merges(x, m, n) ==
    /\ x \in Position /\ SameKind(m, x)
    /\ x.custody = m.custody + n.custody /\ x.liabilities = m.liabilities + n.liabilities
    /\ x.collateral = m.collateral + n.collateral

LEMMA MergerType ==
  ASSUME NEW m \in Position, NEW n \in Position, NEW takeProfit \in Nat
  PROVE  Merges(Merger(m, n, takeProfit), m, n)
<1> DEFINE x == Merger(m, n, takeProfit)
<1>1. PICK a, b, c, e : /\ a = m.collateral + n.collateral /\ b = m.custody + n.custody
                        /\ c = m.liabilities + n.liabilities
                        /\ e = IF takeProfit = None THEN m.takeProfit ELSE takeProfit
  OBVIOUS
<1>2. a \in Nat /\ b \in Nat /\ c \in Nat /\ e \in Nat
  <2>1. m.collateral \in Nat /\ m.custody \in Nat /\ m.liabilities \in Nat /\ m.takeProfit \in Nat
    BY DEF Position
  <2>2. n.collateral \in Nat /\ n.custody \in Nat /\ n.liabilities \in Nat
    BY DEF Position
  <2> QED BY <1>1, <2>1, <2>2
<1>3. PICK sum : sum = [m EXCEPT !.collateral = a, !.custody = b, !.liabilities = c,
                                 !.takeProfit = e]
  OBVIOUS
<1>4. /\ sum \in Position /\ SameKind(m, sum)
      /\ sum.custody = b /\ sum.liabilities = c /\ sum.collateral = a
  BY <1>2, <1>3 DEF Position, SameKind
<1>5. LiquidationPrice(sum) \in Nat
  BY <1>4, LiquidationPriceNat
<1>6. x = [sum EXCEPT !.stopLoss = LiquidationPrice(sum)]
  BY <1>1, <1>3 DEF Merger, Position
<1> HIDE DEF x
<1>7. Merges(x, m, n)
  BY <1>1, <1>4, <1>5, <1>6 DEF Merges, Position, SameKind
<1> QED BY <1>7 DEF x

LEMMA ConsolidateKeeps ==
  ASSUME Market, NEW s \in Sound, NEW id \in s.open, NEW new \in s.open, new = s.counter.last,
         id # new, s.mtps[new].side = s.mtps[id].side, s.mtps[new].denom = s.mtps[id].denom,
         NEW takeProfit \in Nat, NEW t \in OpenConsolidate(s, id, takeProfit)
  PROVE  Follows(s, t, 0) /\ Current(t)
<1>1. PICK r \in MTPTriggerChecksAndUpdates(s, id) :
             \/ id \notin r.open /\ t = r
             \/ id \in r.open
                /\ t \in PerpetualUpdates(DestroyMTP(
                     SetMTP(r, id, Merger(r.mtps[id], r.mtps[new], takeProfit)), new))
  BY ZenonT(60) DEF OpenConsolidate, Merger
<1>2. /\ OnlyPosition(s, r, id) /\ Holds(r, id)
      /\ id \notin r.open => Current(r)
      /\ id \in r.open => Aligned(r)
  BY <1>1, TriggersKeep
<1>3. r \in Sound /\ Follows(s, r, 0)
  BY <1>2, OnlyFollows DEF OnlyPosition
<1>4. CASE id \notin r.open
  BY <1>1, <1>2, <1>3, <1>4
<1>5. CASE id \in r.open
  <2>1. PICK m, n, x : m = r.mtps[id] /\ n = r.mtps[new]
                       /\ x = Merger(r.mtps[id], r.mtps[new], takeProfit)
    OBVIOUS
  <2>2. new \in r.open /\ new \in Ids /\ n = s.mtps[new] /\ SameKind(s.mtps[id], m)
    <3>1. new \in r.open /\ new \in Ids
      BY <1>2, SoundType DEF OnlyPosition
    <3>2. r.mtps[new] = s.mtps[new]
      BY <1>2, <3>1 DEF OnlyPosition
    <3> QED BY <1>2, <1>5, <2>1, <3>1, <3>2 DEF OnlyPosition
  <2>3. m \in Position /\ n \in Position
    BY <1>3, <1>5, <2>1, <2>2, SoundType
  <2>4. Merges(x, m, n)
    BY <2>1, <2>3, MergerType
  <2>5. PICK q : q = DestroyMTP(SetMTP(r, id, x), new)
    OBVIOUS
  <2>6. n.side = m.side /\ n.denom = m.denom
    BY <2>2 DEF SameKind
  <2>7. /\ q \in Sound /\ q.counter.last = r.counter.last /\ q.open = r.open \ {new}
        /\ q.mtps[id] = x /\ \A j \in Ids \ {id, new} : q.mtps[j] = r.mtps[j]
        /\ SameCopy(r, q)
    <3>1. /\ x \in Position /\ SameKind(r.mtps[id], x)
          /\ x.custody = r.mtps[id].custody + r.mtps[new].custody
          /\ x.liabilities = r.mtps[id].liabilities + r.mtps[new].liabilities
          /\ x.collateral = r.mtps[id].collateral + r.mtps[new].collateral
      BY <2>1, <2>4 DEF Merges
    <3>2. r.mtps[new].side = r.mtps[id].side /\ r.mtps[new].denom = r.mtps[id].denom
      BY <2>1, <2>6
    <3> QED BY <1>3, <1>5, <2>2, <2>5, <3>1, <3>2, MergeKeeps, SMTT(40)
  <2>8. x.custody > 0
    <3>1. m.custody > 0 /\ m.custody \in Nat /\ n.custody \in Nat
      BY <1>2, <1>5, <2>1, <2>3 DEF Holds, Position
    <3> QED BY <2>4, <3>1 DEF Merges
  <2>9. Follows(r, q, 0)
    <3>1. ASSUME AllHold(r), NEW j \in q.open PROVE q.mtps[j].custody > 0
      <4>1. j \in r.open /\ j # new /\ j \in Ids
        BY <1>3, <2>7, SoundType
      <4>2. CASE j = id
        BY <2>7, <2>8, <4>2
      <4>3. CASE j # id
        BY <2>7, <3>1, <4>1, <4>3 DEF AllHold
      <4> QED BY <4>2, <4>3
    <3>2. r.counter.last \in Nat
      BY <1>3, SoundType DEF State
    <3> QED BY <2>7, <3>1, <3>2 DEF Follows, AllHold
  <2>10. Follows(q, t, 0) /\ Current(t)
    <3>1. t \in PerpetualUpdates(q)
      BY <1>1, <1>5, <2>1, <2>5
    <3>2. CoinsMoved(q, t)
      BY <2>7, <3>1, SoundType, UpdatesMove
    <3>3. q \in State /\ Slipped(q)
      BY <1>2, <1>5, <2>7, SoundType, CopySlips, SlipsIfAligned
    <3>4. Current(t)
      BY <3>1, <3>3, UpdatesCurrent
    <3> QED BY <2>7, <3>2, <3>4, CoinsFollow
  <2>11. Follows(r, t, 0 + 0)
    BY <1>3, <2>9, <2>10, FollowsTwice
  <2>12. Follows(s, t, 0 + 0)
    BY <1>3, <2>11, FollowsTwice
  <2> QED BY <2>10, <2>12
<1> QED BY <1>4, <1>5

\* A position with custody was added.
LEMMA OpenedFollows ==
  ASSUME NEW s \in Sound, NEW t, NEW m \in Position, m.custody > 0, Opened(s, t, m)
  PROVE  Follows(s, t, 1)
<1>1. t \in Sound /\ t.counter.last = s.counter.last + 1 /\ s.counter.last \in Nat
  BY SoundType DEF Opened, State
<1>2. ASSUME AllHold(s), NEW j \in t.open PROVE t.mtps[j].custody > 0
  <2>1. CASE j = t.counter.last
    BY <2>1 DEF Opened
  <2>2. CASE j # t.counter.last
    <3>1. j \in s.open /\ j \in Ids
      BY <2>2, SoundType DEF Opened
    <3> QED BY <1>2, <2>2, <3>1 DEF Opened, AllHold
  <2> QED BY <2>1, <2>2
<1> QED BY <1>1, <1>2 DEF Follows, AllHold

LEMMA OpenKeeps ==
  ASSUME Market, NEW s \in Sound, s.counter.last < MaxPositions,
         NEW u \in Traders, NEW side \in Sides, NEW d \in Denoms,
         NEW amount \in Nat \ {0}, NEW leverage \in Nat, NEW takeProfit \in Nat,
         NEW t \in Open(s, u, side, d, amount, leverage, takeProfit)
  PROVE  Follows(s, t, 1) /\ Current(t)
<1>1. side = "short" => d = "base"
  BY Constants DEF Open
<1>2. CASE \E r \in ProcessOpen(s, u, side, d, amount, leverage, takeProfit) :
              t \in PerpetualUpdates(r)
  <2>1. PICK r \in ProcessOpen(s, u, side, d, amount, leverage, takeProfit) :
               t \in PerpetualUpdates(r)
    BY <1>2
  <2>2. PICK m \in Position : Opened(s, r, m) /\ m.custody > 0 /\ Slipped(r)
    BY <1>1, <2>1, ProcessOpenKeeps
  <2>3. Follows(s, r, 1) /\ r \in Sound /\ r \in State
    BY <2>2, OpenedFollows, SoundType DEF Opened
  <2>4. Follows(r, t, 0) /\ Current(t)
    BY <2>1, <2>2, <2>3, UpdatesMove, UpdatesCurrent, CoinsFollow
  <2>5. Follows(s, t, 1 + 0)
    BY <2>3, <2>4, FollowsTwice
  <2> QED BY <2>4, <2>5
<1>3. CASE \E id \in Existing(s, u, side, d) : \E n \in {s.mtps[id].takeProfit, takeProfit} :
             \E r \in ProcessOpen(s, u, side, d, amount, leverage, n) :
                t \in OpenConsolidate(r, id, n)
  <2>1. PICK id \in Existing(s, u, side, d) :
             \E n \in {s.mtps[id].takeProfit, takeProfit} :
             \E r \in ProcessOpen(s, u, side, d, amount, leverage, n) :
                t \in OpenConsolidate(r, id, n)
    BY <1>3
  <2>2. PICK n \in {s.mtps[id].takeProfit, takeProfit} :
             \E r \in ProcessOpen(s, u, side, d, amount, leverage, n) :
                t \in OpenConsolidate(r, id, n)
    BY <2>1
  <2>3. PICK r \in ProcessOpen(s, u, side, d, amount, leverage, n) : t \in OpenConsolidate(r, id, n)
    BY <2>2
  <2>4. id \in s.open /\ s.mtps[id].side = side /\ s.mtps[id].denom = d
    BY DEF Existing
  <2>5. n \in Nat /\ id \in Ids
    <3>1. s.mtps[id] \in Position /\ id \in Ids
      BY <2>4, SoundType
    <3> QED BY <3>1 DEF Position
  <2>6. PICK m \in Position : /\ Opened(s, r, m) /\ m.custody > 0
                              /\ m.owner = u /\ m.side = side /\ m.denom = d
    BY <1>1, <2>3, <2>5, ProcessOpenKeeps
  <2>7. PICK new : new = r.counter.last
    OBVIOUS
  <2>8. r \in Sound /\ new \in r.open /\ id \in r.open /\ r.mtps[new] = m /\ id # new
    BY <2>4, <2>6, <2>7 DEF Opened
  <2>9. r.mtps[id] = s.mtps[id]
    BY <2>5, <2>6, <2>7, <2>8 DEF Opened
  <2>10. r.mtps[new].side = r.mtps[id].side /\ r.mtps[new].denom = r.mtps[id].denom
    BY <2>4, <2>6, <2>8, <2>9
  <2>11. Follows(r, t, 0) /\ Current(t)
    BY <2>3, <2>5, <2>7, <2>8, <2>10, ConsolidateKeeps
  <2>12. Follows(s, r, 1)
    BY <2>6, OpenedFollows
  <2>13. Follows(s, t, 1 + 0)
    BY <2>11, <2>12, FollowsTwice
  <2> QED BY <2>11, <2>13
<1>4. CASE Existing(s, u, side, d) = {}
  <2>1. PICK r \in ProcessOpen(s, u, side, d, amount, leverage, takeProfit) :
               t \in PerpetualUpdates(r)
    BY <1>4 DEF Open
  <2> QED BY <1>2, <2>1
<1>5. CASE Existing(s, u, side, d) # {}
  <2> DEFINE Kept(id) == IF leverage = 0 THEN s.mtps[id].takeProfit ELSE takeProfit
  <2>1. t \in UNION {UNION {OpenConsolidate(r, id, Kept(id)) :
                              r \in ProcessOpen(s, u, side, d, amount, leverage, Kept(id))} :
                       id \in Existing(s, u, side, d)}
    BY <1>5 DEF Open
  <2>2. \A id : Kept(id) \in {s.mtps[id].takeProfit, takeProfit}
    OBVIOUS
  <2> HIDE DEF Kept
  <2>3. PICK id \in Existing(s, u, side, d) :
             t \in UNION {OpenConsolidate(r, id, Kept(id)) :
                            r \in ProcessOpen(s, u, side, d, amount, leverage, Kept(id))}
    BY <2>1
  <2>4. PICK r \in ProcessOpen(s, u, side, d, amount, leverage, Kept(id)) :
             t \in OpenConsolidate(r, id, Kept(id))
    BY <2>3
  <2> QED BY <1>3, <2>2, <2>4, Zenon
<1> QED BY <1>4, <1>5

-----------------------------------------------------------------------------
(***************************************************************************)
(* The other messages.                                                     *)
(***************************************************************************)
\* A message settles a position and, if it stays, does something to it.
LEMMA SettledThen ==
  ASSUME Market, NEW s \in Sound, NEW id \in s.open, NEW r \in MTPTriggerChecksAndUpdates(s, id)
  PROVE  /\ r \in Sound /\ Follows(s, r, 0)
         /\ id \notin r.open => Current(r)
         /\ id \in r.open => r.mtps[id].custody > 0 /\ r.mtps[id] \in Position /\ Aligned(r)
         /\ \A t : Follows(r, t, 0) => Follows(s, t, 0)
<1>1. /\ OnlyPosition(s, r, id) /\ Holds(r, id)
      /\ id \notin r.open => Current(r)
      /\ id \in r.open => Aligned(r)
  BY TriggersKeep
<1>2. r \in Sound /\ Follows(s, r, 0)
  BY <1>1, OnlyFollows DEF OnlyPosition
<1>3. ASSUME NEW t, Follows(r, t, 0) PROVE Follows(s, t, 0)
  <2>1. Follows(s, t, 0 + 0)
    BY <1>2, <1>3, FollowsTwice
  <2> QED BY <2>1
<1> QED BY <1>1, <1>2, <1>3, SoundType DEF Holds

LEMMA UpdatesFollow ==
  ASSUME Market, NEW s \in Sound, NEW r, Follows(s, r, 0), Slipped(r), NEW t \in PerpetualUpdates(r)
  PROVE  Follows(s, t, 0) /\ Current(t)
<1>1. r \in Sound /\ r \in State
  BY SoundType DEF Follows
<1>2. Follows(r, t, 0) /\ Current(t)
  BY <1>1, UpdatesMove, UpdatesCurrent, CoinsFollow
<1>3. Follows(s, t, 0 + 0)
  BY <1>2, FollowsTwice
<1> QED BY <1>2, <1>3

LEMMA QuoNat ==
  ASSUME NEW n \in Nat, NEW d \in Nat \ {0}
  PROVE  Quo(n, d) \in Nat
<1>1. 2 * n * One \in Nat
  <2>1. 2 * n \in Nat
    OBVIOUS
  <2> QED BY <2>1, Constants, ProductNat
<1>2. 2 * n * One + d \in Nat /\ 2 * d \in Nat \ {0}
  BY <1>1
<1>3. TruncateInt(2 * n * One + d, 2 * d) \in Nat
  BY <1>2, TruncateNat
<1> QED BY <1>3 DEF Quo, TruncateInt

LEMMA PayDebtKeeps ==
  ASSUME Market, NEW s \in Sound, NEW u, NEW id \in s.open, s.mtps[id].custody > 0,
         NEW amount \in Nat, NEW t \in PayDebt(s, u, id, amount)
  PROVE  Follows(s, t, 0) /\ Current(t)
<1>1. PICK m : m = s.mtps[id]
  OBVIOUS
<1>2. m \in Position /\ m.custody \in Nat /\ m.liabilities \in Nat /\ m.collateral \in Nat
  BY <1>1, SoundType DEF Position
<1>3. MinLiability \in Nat
  BY PerpetualAssumption
<1>4. PICK final : final = MinOf(amount, m.liabilities - MinLiability)
  OBVIOUS
<1>5. final > 0 /\ final \in Nat /\ final <= m.liabilities
  <2>1. ~ (final <= 0)
    BY <1>1, <1>4 DEF PayDebt
  <2>2. final \in Int /\ final <= m.liabilities
    BY <1>2, <1>3, <1>4 DEF MinOf
  <2> QED BY <2>1, <2>2
<1>6. PICK r : r = ChangePosition(s, id, 0, - final, final)
  OBVIOUS
<1>7. t \in PerpetualUpdates(Receive(r, "base", final))
  BY <1>1, <1>4, <1>5, <1>6 DEF PayDebt
<1>8. OnlyPosition(s, r, id) /\ r.mtps[id] = Changed(m, 0, - final, final)
  <2>1. 0 \in Int /\ - final \in Int /\ final \in Int /\ m.custody + 0 >= 0
        /\ m.liabilities + (- final) >= 0 /\ m.collateral + final >= 0
    BY <1>2, <1>5
  <2> QED BY <1>1, <1>6, <2>1, PositionChanged
<1>9. Changed(m, 0, - final, final).custody = m.custody + 0
  <2>1. 0 \in Int /\ - final \in Int /\ final \in Int /\ m.custody + 0 >= 0
        /\ m.liabilities + (- final) >= 0 /\ m.collateral + final >= 0
    BY <1>2, <1>5
  <2>2. PICK n : n = Changed(m, 0, - final, final)
    OBVIOUS
  <2>3. n.custody = m.custody + 0
    BY <1>2, <2>1, <2>2, ChangedType
  <2> QED BY <2>2, <2>3
<1>10. Follows(s, r, 0) /\ r \in Sound /\ r \in State
  <2>1. Holds(r, id)
    BY <1>1, <1>2, <1>8, <1>9 DEF Holds
  <2> QED BY <1>8, <2>1, OnlyFollows, SoundType DEF OnlyPosition
<1>11. PICK q : q = Receive(r, "base", final)
  OBVIOUS
<1>12. Follows(r, q, 0) /\ Slipped(q)
  <2>1. CoinsMoved(r, q) /\ Aligned(q)
    BY <1>5, <1>10, <1>11, Constants, ReceiveMoves
  <2> QED BY <1>10, <2>1, CoinsFollow, SlipsIfAligned DEF CoinsMoved
<1>13. Follows(s, q, 0 + 0)
  BY <1>10, <1>12, FollowsTwice
<1> QED BY <1>7, <1>11, <1>12, <1>13, UpdatesFollow

\* Another price at which the position is to be closed.
LEMMA TargetKeeps ==
  ASSUME NEW s \in Sound, NEW id \in s.open, s.mtps[id].custody > 0, NEW n \in Position,
         SameAmounts(s.mtps[id], n), NEW t, t = SetMTP(s, id, n)
  PROVE  Follows(s, t, 0) /\ SameCopy(s, t)
<1>1. OnlyPosition(s, t, id) /\ t.mtps[id] = n /\ SameCopy(s, t)
  BY SetKeeps
<1>2. Holds(t, id)
  BY <1>1 DEF Holds, SameAmounts
<1> QED BY <1>1, <1>2, OnlyFollows

LEMMA UpdateStopLossKeeps ==
  ASSUME Market, NEW s \in Sound, NEW id \in s.open, NEW stopLoss \in Nat,
         NEW t \in UpdateStopLoss(s, id, stopLoss)
  PROVE  Follows(s, t, 0)
<1>1. PICK r \in MTPTriggerChecksAndUpdates(s, id) :
             \/ t = r
             \/ id \in r.open /\ t = [r EXCEPT !.mtps[id].stopLoss = stopLoss]
  BY DEF UpdateStopLoss
<1>2. /\ r \in Sound /\ Follows(s, r, 0)
      /\ id \in r.open => r.mtps[id].custody > 0 /\ r.mtps[id] \in Position
      /\ \A q : Follows(r, q, 0) => Follows(s, q, 0)
  BY SettledThen
<1>3. CASE t = r
  BY <1>2, <1>3
<1>4. CASE id \in r.open /\ t = [r EXCEPT !.mtps[id].stopLoss = stopLoss]
  <2>1. PICK n : n = [r.mtps[id] EXCEPT !.stopLoss = stopLoss]
    OBVIOUS
  <2>2. n \in Position /\ SameAmounts(r.mtps[id], n)
    BY <1>2, <1>4, <2>1 DEF Position, SameAmounts, SameKind
  <2>3. PICK q : q = SetMTP(r, id, n)
    OBVIOUS
  <2>4. t = q
    BY <1>2, <1>4, <2>1, <2>3, SoundType DEF SetMTP, State
  <2>5. Follows(r, q, 0)
    BY <1>2, <1>4, <2>2, <2>3, TargetKeeps
  <2> QED BY <1>2, <2>4, <2>5
<1> QED BY <1>1, <1>3, <1>4

LEMMA UpdateTakeProfitKeeps ==
  ASSUME Market, NEW s \in Sound, NEW id \in s.open, NEW takeProfit \in Nat,
         NEW t \in UpdateTakeProfitPrice(s, id, takeProfit)
  PROVE  Follows(s, t, 0) /\ Current(t)
<1>1. PICK r \in MTPTriggerChecksAndUpdates(s, id) :
             \/ id \notin r.open /\ t = r
             \/ id \in r.open /\ t \in PerpetualUpdates([r EXCEPT !.mtps[id].takeProfit = takeProfit])
  BY DEF UpdateTakeProfitPrice
<1>2. /\ r \in Sound /\ Follows(s, r, 0) /\ (id \notin r.open => Current(r))
      /\ id \in r.open => r.mtps[id].custody > 0 /\ r.mtps[id] \in Position /\ Aligned(r)
      /\ \A q : Follows(r, q, 0) => Follows(s, q, 0)
  BY SettledThen
<1>3. CASE id \notin r.open /\ t = r
  BY <1>2, <1>3
<1>4. CASE id \in r.open /\ t \in PerpetualUpdates([r EXCEPT !.mtps[id].takeProfit = takeProfit])
  <2>1. PICK n : n = [r.mtps[id] EXCEPT !.takeProfit = takeProfit]
    OBVIOUS
  <2>2. n \in Position /\ SameAmounts(r.mtps[id], n)
    BY <1>2, <1>4, <2>1 DEF Position, SameAmounts, SameKind
  <2>3. PICK q : q = SetMTP(r, id, n)
    OBVIOUS
  <2>4. t \in PerpetualUpdates(q)
    <3>1. q = [r EXCEPT !.mtps[id].takeProfit = takeProfit]
      BY <1>2, <1>4, <2>1, <2>3, SoundType DEF SetMTP, State
    <3> QED BY <1>4, <3>1
  <2>5. Follows(r, q, 0) /\ Slipped(q)
    <3>1. Follows(r, q, 0) /\ SameCopy(r, q)
      BY <1>2, <1>4, <2>2, <2>3, TargetKeeps
    <3> QED BY <1>2, <1>4, <3>1, SoundType, CopySlips, SlipsIfAligned
  <2>6. Follows(r, t, 0) /\ Current(t)
    BY <1>2, <2>4, <2>5, UpdatesFollow
  <2> QED BY <1>2, <2>6
<1> QED BY <1>1, <1>3, <1>4

LEMMA AddCollateralKeeps ==
  ASSUME Market, NEW s \in Sound, NEW u \in Traders, NEW id \in s.open, NEW d \in Denoms,
         NEW amount \in Nat \ {0},
         \/ s.counter.last < MaxPositions
         \/ s.mtps[id].side = "long" /\ s.mtps[id].denom = "base",
         NEW t \in AddCollateral(s, u, id, d, amount)
  PROVE  Follows(s, t, 1) /\ Current(t)
<1>1. CASE s.mtps[id].side = "long" /\ s.mtps[id].denom = "base"
  <2>1. PICK r \in MTPTriggerChecksAndUpdates(s, id) :
               \/ id \notin r.open /\ t = r
               \/ id \in r.open /\ t \in PayDebt(r, u, id, amount)
    BY <1>1 DEF AddCollateral
  <2>2. /\ r \in Sound /\ Follows(s, r, 0) /\ (id \notin r.open => Current(r))
        /\ id \in r.open => r.mtps[id].custody > 0 /\ r.mtps[id] \in Position
        /\ \A q : Follows(r, q, 0) => Follows(s, q, 0)
    BY SettledThen, Zenon
  <2>3. Follows(s, t, 0) /\ Current(t)
    <3>1. CASE id \notin r.open /\ t = r
      BY <2>2, <3>1
    <3>2. CASE id \in r.open /\ t \in PayDebt(r, u, id, amount)
      BY <2>2, <3>2, PayDebtKeeps
    <3> QED BY <2>1, <3>1, <3>2
  <2>4. s.counter.last \in Nat /\ t.counter.last \in Nat
    BY <2>3, SoundType DEF Follows, State
  <2> QED BY <2>3, <2>4 DEF Follows
<1>2. CASE ~ (s.mtps[id].side = "long" /\ s.mtps[id].denom = "base")
  <2>1. t \in Open(s, u, s.mtps[id].side, d, amount, 0, None)
    BY <1>2 DEF AddCollateral
  <2>2. s.mtps[id].side \in Sides
    BY SoundType DEF Position
  <2>3. 0 \in Nat /\ None \in Nat
    BY DEF None
  <2> QED BY <1>2, <2>1, <2>2, <2>3, OpenKeeps
<1> QED BY <1>1, <1>2

LEMMA CloseKeeps ==
  ASSUME Market, NEW s \in Sound, NEW id \in s.open, NEW amount \in Nat,
         NEW t \in Close(s, id, amount)
  PROVE  Follows(s, t, 0) /\ Current(t)
<1> DEFINE Whole(m) == IF m.side = "long" THEN m.custody ELSE m.liabilities
<1>1. PICK r \in MTPTriggerChecksAndUpdates(s, id) :
             \/ id \notin r.open /\ t = r
             \/ /\ id \in r.open /\ Whole(r.mtps[id]) # 0
                /\ \E q \in Repay(r, id, MinOf(One, Quo(amount, Whole(r.mtps[id])))) :
                      t \in PerpetualUpdates(q)
  BY DEF Close
<1>2. /\ r \in Sound /\ Follows(s, r, 0) /\ (id \notin r.open => Current(r))
      /\ id \in r.open => r.mtps[id].custody > 0 /\ r.mtps[id] \in Position /\ Aligned(r)
      /\ \A q : Follows(r, q, 0) => Follows(s, q, 0)
  BY SettledThen
<1>3. CASE id \notin r.open
  BY <1>1, <1>2, <1>3
<1>4. CASE id \in r.open
  <2>1. Whole(r.mtps[id]) \in Nat \ {0}
    <3>1. r.mtps[id].custody \in Nat /\ r.mtps[id].liabilities \in Nat
      BY <1>1, <1>2, <1>4 DEF Position
    <3> QED BY <1>1, <1>4, <3>1
  <2>2. PICK ratio : ratio = MinOf(One, Quo(amount, Whole(r.mtps[id])))
    OBVIOUS
  <2> HIDE DEF Whole
  <2>3. ratio \in Nat /\ ratio <= One
    <3>1. Quo(amount, Whole(r.mtps[id])) \in Nat
      BY <2>1, QuoNat
    <3> QED BY <2>2, <3>1, Constants DEF MinOf
  <2>4. PICK q \in Repay(r, id, ratio) : t \in PerpetualUpdates(q)
    BY <1>1, <1>4, <2>2
  <2>5. OnlyPosition(r, q, id) /\ Holds(q, id) /\ Slipped(q)
    BY <1>1, <1>2, <1>4, <2>3, RepayKeeps
  <2>6. Follows(r, q, 0)
    BY <1>1, <1>2, <1>4, <2>5, OnlyFollows
  <2>7. Follows(r, t, 0) /\ Current(t)
    BY <1>2, <2>4, <2>5, <2>6, UpdatesFollow
  <2> QED BY <1>2, <2>7
<1> QED BY <1>3, <1>4

LEMMA LiquidateKeeps ==
  ASSUME Market, NEW s \in Sound, NEW id \in s.open, NEW t \in CheckAndLiquidatePosition(s, id)
  PROVE  Follows(s, t, 0) /\ Current(t)
<1>1. PICK r \in MTPTriggerChecksAndUpdates(s, id) :
             \/ id \notin r.open /\ t = r
             \/ id \in r.open /\ t \in ForceClose(r, id)
  BY DEF CheckAndLiquidatePosition
<1>2. /\ r \in Sound /\ Follows(s, r, 0) /\ (id \notin r.open => Current(r))
      /\ id \in r.open => Aligned(r)
      /\ \A q : Follows(r, q, 0) => Follows(s, q, 0)
  BY SettledThen
<1>3. CASE id \notin r.open /\ t = r
  BY <1>2, <1>3
<1>4. CASE id \in r.open /\ t \in ForceClose(r, id)
  <2>1. OnlyPosition(r, t, id) /\ Holds(t, id) /\ Current(t)
    BY <1>2, <1>4, ForceCloseKeeps DEF Holds
  <2> QED BY <1>2, <1>4, <2>1, OnlyFollows
<1> QED BY <1>1, <1>3, <1>4

-----------------------------------------------------------------------------
(***************************************************************************)
(* The rates of a block.  What a side has been paid in funding never       *)
(* decreases, so a position is never charged for what it is to receive.    *)
(***************************************************************************)
LEMMA QuoInt ==
  ASSUME NEW n \in Int, NEW d \in Int, d > 0
  PROVE  Quo(n, d) \in Int
<1>1. 2 * n * One \in Int
  <2>1. 2 * n \in Int /\ One \in Int
    BY Constants
  <2> QED BY <2>1
<1>2. PICK x, y : x = 2 * n * One + d /\ y = 2 * d
  OBVIOUS
<1>3. x \in Int /\ y \in Int /\ y > 0
  BY <1>1, <1>2
<1>4. x \div y \in Int
  BY <1>3
<1> QED BY <1>2, <1>4 DEF Quo

LEMMA TimesInt ==
  ASSUME NEW x \in Int, NEW n \in Int
  PROVE  Times(x, n) \in Int
<1>1. PICK p : p = x * n
  OBVIOUS
<1>2. p \in Int
  BY <1>1
<1>3. One \in Int /\ One > 0
  BY Constants
<1>4. p \div One \in Int
  BY <1>2, <1>3
<1> QED BY <1>1, <1>4 DEF Times

LEMMA FundingRateInt ==
  ASSUME NEW popular \in Int, NEW other \in Int, popular + other # 0
  PROVE  FundingRateOf(popular, other) \in Int
<1>1. FundingRate \in Int
  BY PerpetualAssumption
<1>2. PICK net, all : net = popular - other /\ all = popular + other
  OBVIOUS
<1>3. net \in Int /\ all \in Int /\ all # 0
  BY <1>2
<1>4. CASE all > 0
  <2>1. Times(Quo(net, all), FundingRate) \in Int
    BY <1>1, <1>3, <1>4, QuoInt, TimesInt
  <2> QED BY <1>2, <1>4, <2>1 DEF FundingRateOf
<1>5. CASE ~ (all > 0)
  <2>1. - all \in Int /\ - all > 0
    BY <1>3, <1>5
  <2>2. Times(Quo(net, - all), FundingRate) \in Int
    BY <1>1, <1>3, <2>1, QuoInt, TimesInt
  <2> QED BY <1>2, <1>5, <2>2 DEF FundingRateOf
<1> QED BY <1>4, <1>5

LEMMA OpenInterestTypes ==
  ASSUME Chain \in Sound
  PROVE  LongOpenInterest \in Int /\ ShortOpenInterest \in Nat
<1>1. Chain \in State /\ Balanced(Chain) /\ Chain.pool = pool
  BY SoundType DEF Chain
<1>2. pool["long"] \in SideTotals /\ pool["short"] \in SideTotals
  BY <1>1, Constants DEF State
<1>3. LongOpenInterest \in Int
  BY <1>2, Constants DEF LongOpenInterest, SideTotals
<1>4. pool["short"].liabilities = Sum(Column(Chain, "short", "liabilities"), MaxPositions)
  <2>1. Gap(Chain, "short", "liabilities") = 0
    BY <1>1, Constants DEF Balanced, Columns
  <2>2. Column(Chain, "short", "liabilities") \in [1 .. MaxPositions -> Int]
    BY <1>1, Constants, ColumnType, SMTT(40) DEF Columns
  <2>3. Sum(Column(Chain, "short", "liabilities"), MaxPositions) \in Int
    BY <2>2, SumInt, Constants
  <2>4. Recorded(Chain, "short", "liabilities") = pool["short"].liabilities
    BY <1>1 DEF Recorded
  <2>5. pool["short"].liabilities \in Int
    BY <1>2 DEF SideTotals
  <2> QED BY <2>1, <2>3, <2>4, <2>5 DEF Gap
<1>5. Sum(Column(Chain, "short", "liabilities"), MaxPositions) \in Nat
  <2>1. Column(Chain, "short", "liabilities") \in [1 .. MaxPositions -> Nat]
    BY <1>1, Constants, ColumnType DEF Columns
  <2> QED BY <2>1, SumBound, Constants
<1> QED BY <1>3, <1>4, <1>5 DEF ShortOpenInterest

\* The funding of a side that is paid to the holders of the other.
LEMMA SharedNat ==
  ASSUME NEW rate \in Int, NEW interest \in Nat, NEW holders \in Int
  PROVE  (IF holders > 0 THEN Quo(Times(Abs(rate), interest), holders) ELSE 0) \in Nat
<1>1. Times(Abs(rate), interest) \in Nat
  BY AbsNat, TimesNat
<1>2. CASE holders > 0
  BY <1>1, <1>2, QuoNat
<1> QED BY <1>2

LEMMA BlockKeepsMarket ==
  ASSUME Market, Chain \in Sound, NEW borrowRate \in BorrowRates, BeginBlocker(borrowRate)
  PROVE  Market' /\ Len(rates') = Len(rates) + 1
<1> DEFINE L == LongOpenInterest
           S == ShortOpenInterest
           long == IF L = 0 \/ S = 0 \/ L <= S THEN 0 ELSE FundingRateOf(L, S)
           short == IF L = 0 \/ S = 0 \/ L > S THEN 0 ELSE FundingRateOf(S, L)
           Shared(n, holders) == IF holders > 0 THEN Quo(n, holders) ELSE 0
           toShorts == Shared(Times(Abs(long), L), S)
           toLongs == Shared(Times(Abs(short), S), L)
           row == [borrow |-> Now.borrow + borrowRate,
                   long |-> Now.long + long, short |-> Now.short + short,
                   toShorts |-> Now.toShorts + toShorts, toLongs |-> Now.toLongs + toLongs]
<1>1. L \in Int /\ S \in Nat
  BY OpenInterestTypes
<1>2. /\ (L # 0 /\ S # 0) => L + S # 0
      /\ rates' = Append(rates, row) /\ price' = price
  BY DEF BeginBlocker
<1> HIDE DEF L, S
<1>3. long \in Int /\ short \in Int
  <2>1. (L # 0 /\ S # 0) => FundingRateOf(L, S) \in Int /\ FundingRateOf(S, L) \in Int
    BY <1>1, <1>2, FundingRateInt
  <2> QED BY <2>1
<1>4. toShorts \in Nat
  <2>1. CASE L > S
    <3>1. L \in Nat /\ S \in Int
      BY <1>1, <2>1
    <3> HIDE DEF long
    <3> QED BY <1>3, <3>1, SharedNat
  <2>2. CASE ~ (L > S)
    <3>1. long = 0
      BY <1>1, <2>2
    <3>2. Times(Abs(long), L) = Times(Abs(0), 0)
      <4>1. Abs(0) = 0
        BY DEF Abs
      <4>2. 0 * L = 0 /\ 0 * 0 = 0
        BY <1>1
      <4> QED BY <3>1, <4>1, <4>2 DEF Times
    <3>3. 0 \in Int /\ 0 \in Nat /\ S \in Int
      BY <1>1
    <3>4. (IF S > 0 THEN Quo(Times(Abs(0), 0), S) ELSE 0) \in Nat
      BY <3>3, SharedNat
    <3> QED BY <3>2, <3>4
  <2> QED BY <2>1, <2>2
<1>5. toLongs \in Nat
  <2> HIDE DEF short
  <2> QED BY <1>1, <1>3, SharedNat
<1> HIDE DEF long, short, toShorts, toLongs
<1>6. Now \in RateType /\ Len(rates) \in Nat \ {0}
  BY DEF Market, Now
<1>7. row \in RateType
  <2>1. borrowRate \in Int
    BY PerpetualAssumption
  <2> QED BY <1>3, <1>4, <1>5, <1>6, <2>1, SMTT(40) DEF RateType
<1>8. Now.toShorts <= row.toShorts /\ Now.toLongs <= row.toLongs
  BY <1>4, <1>5, <1>6 DEF RateType
<1> HIDE DEF row
<1>9. /\ rates' \in Seq(RateType) /\ Len(rates') = Len(rates) + 1
      /\ rates'[Len(rates')] = row
      /\ \A i \in 1 .. Len(rates) : rates'[i] = rates[i]
  BY <1>2, <1>7 DEF Market
<1>10. ASSUME NEW i \in 1 .. Len(rates')
       PROVE  rates'[i].toShorts <= row.toShorts /\ rates'[i].toLongs <= row.toLongs
  <2>1. CASE i = Len(rates')
    <3>1. row.toShorts \in Int /\ row.toLongs \in Int
      BY <1>7 DEF RateType
    <3> QED BY <1>9, <2>1, <3>1
  <2>2. CASE i # Len(rates')
    <3>1. i \in 1 .. Len(rates) /\ rates'[i] = rates[i]
      BY <1>6, <1>9, <2>2
    <3>2. rates[i].toShorts <= Now.toShorts /\ rates[i].toLongs <= Now.toLongs
      BY <3>1 DEF Market
    <3>3. rates[i] \in RateType
      BY <3>1 DEF Market
    <3> QED BY <1>6, <1>7, <1>8, <3>1, <3>2, <3>3, SMTT(40) DEF RateType
  <2> QED BY <2>1, <2>2
<1>11. Now' = row
  BY <1>9 DEF Now
<1>12. Market'
  BY <1>2, <1>6, <1>9, <1>10, <1>11 DEF Market
<1> QED BY <1>9, <1>12

\* A message becomes one of its outcomes, and its handler's copy is gone.
LEMMA BecomeChain ==
  ASSUME NEW t \in Sound, Become(t)
  PROVE  Chain' \in Sound /\ SamePositions(t, Chain')
<1>1. t \in State
  BY SoundType
<1>2. Chain' = GetAmmPool(t)
  BY <1>1 DEF State, Become, Chain, GetAmmPool
<1>3. PICK r : r = GetAmmPool(t)
  OBVIOUS
<1>4. CoinsMoved(t, r)
  BY <1>1, <1>3, PoolRead
<1>5. r \in Sound /\ SamePositions(t, r)
  BY <1>4, CoinsSound DEF CoinsMoved
<1> QED BY <1>2, <1>3, <1>5

\* With the same rates the same states are sound.
LEMMA SoundUnchanged ==
  ASSUME UNCHANGED rates
  PROVE  Sound' = Sound /\ Position' = Position
BY DEF Sound, State, Stored, Balanced, Position

LEMMA MarketUnchanged ==
  ASSUME Market, UNCHANGED <<price, rates>>
  PROVE  Market'
BY DEF Market, Now

-----------------------------------------------------------------------------
(***************************************************************************)
(* The steps of x/perpetual.                                               *)
(***************************************************************************)
PerpInv ==
    /\ price \in Prices /\ flows \in Nat /\ moves \in Nat
    /\ Market
    /\ Chain \in Sound

LEMMA PerpInit == Init => PerpInv /\ AllHold(Chain)
<1> SUFFICES ASSUME Init PROVE PerpInv /\ AllHold(Chain)
  OBVIOUS
<1>1. price \in Prices /\ price \in Nat \ {0} /\ flows \in Nat /\ moves \in Nat
  BY PerpetualAssumption DEF Init
<1>2. PICK row : row = [borrow |-> 0, long |-> 0, short |-> 0, toShorts |-> 0, toLongs |-> 0]
  OBVIOUS
<1>3. rates = <<row>> /\ row \in RateType /\ rates[1] = row /\ Len(rates) = 1
  BY <1>2 DEF Init, RateType
<1>4. Market
  <2>1. rates \in Seq(RateType)
    BY <1>3
  <2>2. Now = row
    BY <1>3 DEF Now
  <2>3. \A i \in 1 .. Len(rates) : rates[i] = row
    BY <1>3
  <2>4. row.toShorts <= row.toShorts /\ row.toLongs <= row.toLongs
    BY <1>3 DEF RateType
  <2> QED BY <1>1, <1>3, <2>1, <2>2, <2>3, <2>4 DEF Market
<1>5. Chain \in State
  <2>1. /\ mtps \in [Ids -> Position \cup {NoMTP}] /\ open \in SUBSET Ids
        /\ counter \in [last : Nat, totalOpen : Int]
    BY DEF Init
  <2>2. Nothing \in [Denoms -> Nat] /\ Nothing \in [Denoms -> Int]
    BY DEF Nothing
  <2>3. pool \in [Sides -> SideTotals]
    BY <2>2 DEF Init, SideTotals
  <2>4. Liquidity \in [Denoms -> Nat] /\ Liquidity \in [Denoms -> Int]
    BY PerpetualAssumption
  <2> QED BY <2>1, <2>2, <2>3, <2>4 DEF Init, Chain, State
<1>6. Stored(Chain)
  <2>1. Cardinality({}) = 0
    BY FS_EmptySet
  <2>2. MaxPositions >= 0
    BY Constants
  <2> QED BY <2>1, <2>2 DEF Init, Stored, Chain
<1>7. ASSUME NEW side \in Sides, NEW c \in Columns PROVE Gap(Chain, side, c) = 0
  <2>1. Column(Chain, side, c) \in [1 .. MaxPositions -> Int]
    BY <1>5, ColumnType
  <2>2. \A id \in 1 .. MaxPositions : Column(Chain, side, c)[id] = 0
    BY Constants DEF Column, Ids, Init, Chain, NoMTP, Part
  <2>3. Sum(Column(Chain, side, c), MaxPositions) = 0
    BY <2>1, <2>2, SumZero, Constants
  <2>4. Recorded(Chain, side, c) = 0
    BY DEF Recorded, Init, Chain, Nothing, Columns, Denoms
  <2> QED BY <2>3, <2>4 DEF Gap
<1>8. AllHold(Chain)
  BY DEF AllHold, Init, Chain
<1> QED BY <1>1, <1>4, <1>5, <1>6, <1>7, <1>8 DEF PerpInv, Sound, Balanced

LEMMA DeliverKeeps ==
  ASSUME PerpInv, NEW n, NEW S, \A t \in S : Follows(Chain, t, n), Deliver(S)
  PROVE  PerpInv' /\ (AllHold(Chain) => AllHold(Chain)')
<1>1. PICK t \in S : Become(t) /\ UNCHANGED <<price, rates, flows, moves>>
  BY DEF Deliver
<1>2. t \in Sound /\ (AllHold(Chain) => AllHold(t))
  BY DEF Follows
<1>3. Chain' \in Sound /\ SamePositions(t, Chain')
  BY <1>1, <1>2, BecomeChain
<1>4. Sound' = Sound /\ Market'
  BY <1>1, SoundUnchanged, MarketUnchanged DEF PerpInv
<1>5. AllHold(Chain)' <=> AllHold(t)
  BY <1>3 DEF AllHold, SamePositions
<1> QED BY <1>1, <1>2, <1>3, <1>4, <1>5 DEF PerpInv

\* A block, a price or a flow of the pool leaves the positions alone.
LEMMA SoundLonger ==
  ASSUME Chain \in Sound, UNCHANGED chain, Len(rates') = Len(rates) + 1, Len(rates) \in Nat
  PROVE  Chain' \in Sound'
<1>1. \A m \in Position : m \in Position'
  BY DEF Position
<1>2. Chain' = Chain
  BY DEF Chain, chain
<1>3. Chain \in State /\ Stored(Chain) /\ Balanced(Chain)
  BY SoundType
<1>4. Chain \in State'
  <2>1. Chain.mtps \in [Ids -> Position' \cup {NoMTP}]
    BY <1>1, <1>3 DEF State
  <2> QED BY <1>3, <2>1 DEF State
<1>5. Stored(Chain)'
  BY <1>1, <1>2, <1>3 DEF Stored
<1>6. Balanced(Chain)'
  BY <1>2, <1>3 DEF Balanced
<1> QED BY <1>2, <1>4, <1>5, <1>6 DEF Sound

LEMMA InputTypes ==
  /\ Collaterals \subseteq Nat \ {0} /\ CloseAmounts \subseteq Nat
  /\ Targets \cup {None} \subseteq Nat /\ Leverages \cup {0} \subseteq Nat
BY PerpetualAssumption DEF None

LEMMA PerpSame ==
  ASSUME PerpInv, UNCHANGED <<price, rates, chain>>, flows' \in Nat, moves' \in Nat
  PROVE  PerpInv' /\ (AllHold(Chain) => AllHold(Chain)')
<1>1. Chain' = Chain
  BY DEF Chain, chain
<1>2. Sound' = Sound /\ Market'
  BY SoundUnchanged, MarketUnchanged DEF PerpInv
<1>3. AllHold(Chain)' <=> AllHold(Chain)
  BY <1>1 DEF AllHold
<1> QED BY <1>1, <1>2, <1>3 DEF PerpInv

LEMMA AmmFlowKeeps ==
  ASSUME PerpInv, NEW change \in Flows, AmmFlow(change)
  PROVE  PerpInv' /\ (AllHold(Chain) => AllHold(Chain)')
<1> DEFINE a == [d \in Denoms |-> amm[d] + change[d]]
           b == [d \in Denoms |-> bank[d] + change[d]]
<1>1. Chain \in Sound /\ Chain \in State
  BY SoundType DEF PerpInv
<1>2. a \in [Denoms -> Nat] /\ b \in [Denoms -> Nat]
  <2>1. amm \in [Denoms -> Nat] /\ bank \in [Denoms -> Nat]
    BY <1>1 DEF State, Chain
  <2>2. change \in [Denoms -> Int]
    BY PerpetualAssumption
  <2>3. \A d \in Denoms : amm[d] + change[d] >= 0 /\ bank[d] + change[d] >= 0
    BY DEF AmmFlow
  <2>4. ASSUME NEW d \in Denoms PROVE amm[d] + change[d] \in Nat /\ bank[d] + change[d] \in Nat
    <3>1. amm[d] \in Int /\ bank[d] \in Int /\ change[d] \in Int
      BY <2>1, <2>2
    <3> QED BY <2>3, <3>1
  <2> QED BY <2>4
<1>3. PICK r : r = [Chain EXCEPT !.amm = a, !.bank = b]
  OBVIOUS
<1>4. Become(AmmChanged(r)) /\ UNCHANGED <<price, rates, moves>> /\ flows' = flows + 1
  BY <1>3 DEF AmmFlow
<1> HIDE DEF a, b
<1>5. CoinsMoved(Chain, r)
  BY <1>1, <1>2, <1>3 DEF CoinsMoved, SamePositions, State
<1>6. PICK t : t = AmmChanged(r)
  OBVIOUS
<1>7. CoinsMoved(Chain, t)
  BY <1>5, <1>6, AmmChangedMoves, MovedTwice DEF CoinsMoved
<1>8. Follows(Chain, t, 0) /\ t \in Sound
  BY <1>1, <1>7, CoinsFollow DEF Follows
<1>9. Chain' \in Sound /\ SamePositions(t, Chain')
  BY <1>4, <1>6, <1>8, BecomeChain
<1>10. Sound' = Sound /\ Market'
  BY <1>4, SoundUnchanged, MarketUnchanged DEF PerpInv
<1>11. AllHold(Chain)' <=> AllHold(t)
  BY <1>9 DEF AllHold, SamePositions
<1> QED BY <1>4, <1>8, <1>9, <1>10, <1>11 DEF PerpInv, Follows

LEMMA BeginBlockerKeeps ==
  ASSUME PerpInv, NEW borrowRate \in BorrowRates, BeginBlocker(borrowRate)
  PROVE  PerpInv' /\ (AllHold(Chain) => AllHold(Chain)')
<1>1. UNCHANGED <<price, chain, flows, moves>>
  BY DEF BeginBlocker
<1>2. Market' /\ Len(rates') = Len(rates) + 1 /\ Len(rates) \in Nat
  BY BlockKeepsMarket DEF PerpInv, Market
<1>3. Chain' \in Sound'
  BY <1>1, <1>2, SoundLonger DEF PerpInv
<1>4. Chain' = Chain
  BY <1>1 DEF Chain, chain
<1>5. AllHold(Chain)' <=> AllHold(Chain)
  BY <1>4 DEF AllHold
<1> QED BY <1>1, <1>2, <1>3, <1>5 DEF PerpInv

LEMMA PerpStep == PerpInv /\ [Next]_vars => PerpInv' /\ (AllHold(Chain) => AllHold(Chain)')
<1> SUFFICES ASSUME PerpInv, [Next]_vars
             PROVE  PerpInv' /\ (AllHold(Chain) => AllHold(Chain)')
  OBVIOUS
<1>1. /\ Market /\ Chain \in Sound /\ price \in Prices /\ flows \in Nat /\ moves \in Nat
      /\ Chain.open = open /\ Chain.counter = counter /\ Chain.mtps = mtps
  BY DEF PerpInv, Chain
<1>2. ASSUME NEW u \in Traders, NEW side \in Sides, NEW d \in Denoms, NEW amount \in Collaterals,
             NEW leverage \in Leverages \cup {0}, NEW takeProfit \in Targets \cup {None},
             MsgOpen(u, side, d, amount, leverage, takeProfit)
      PROVE  PerpInv' /\ (AllHold(Chain) => AllHold(Chain)')
  <2>1. Chain.counter.last < MaxPositions
        /\ Deliver(Open(Chain, u, side, d, amount, leverage, takeProfit))
    BY <1>1, <1>2 DEF MsgOpen
  <2>2. amount \in Nat \ {0} /\ leverage \in Nat /\ takeProfit \in Nat
    BY InputTypes
  <2>3. \A t \in Open(Chain, u, side, d, amount, leverage, takeProfit) : Follows(Chain, t, 1)
    BY <1>1, <2>1, <2>2, OpenKeeps
  <2> QED BY <2>1, <2>3, DeliverKeeps
<1>3. ASSUME NEW id \in open, NEW d \in Denoms, NEW amount \in Collaterals,
             MsgAddCollateral(id, d, amount)
      PROVE  PerpInv' /\ (AllHold(Chain) => AllHold(Chain)')
  <2>1. Deliver(AddCollateral(Chain, Chain.mtps[id].owner, id, d, amount))
    BY <1>1, <1>3 DEF MsgAddCollateral
  <2>2. \/ Chain.counter.last < MaxPositions
        \/ Chain.mtps[id].side = "long" /\ Chain.mtps[id].denom = "base"
    BY <1>1, <1>3 DEF MsgAddCollateral
  <2>3. amount \in Nat \ {0} /\ id \in Chain.open /\ Chain.mtps[id].owner \in Traders
    <3>1. Chain.mtps[id] \in Position
      BY <1>1, SoundType
    <3> QED BY <1>1, <3>1, InputTypes DEF Position
  <2>4. \A t \in AddCollateral(Chain, Chain.mtps[id].owner, id, d, amount) : Follows(Chain, t, 1)
    BY <1>1, <2>2, <2>3, AddCollateralKeeps
  <2> QED BY <2>1, <2>4, DeliverKeeps
<1>4. ASSUME NEW id \in open, NEW stopLoss \in Targets \cup {None}, MsgUpdateStopLoss(id, stopLoss)
      PROVE  PerpInv' /\ (AllHold(Chain) => AllHold(Chain)')
  <2>1. \A t \in UpdateStopLoss(Chain, id, stopLoss) : Follows(Chain, t, 0)
    BY <1>1, InputTypes, UpdateStopLossKeeps
  <2> QED BY <1>4, <2>1, DeliverKeeps DEF MsgUpdateStopLoss
<1>5. ASSUME NEW id \in open, NEW takeProfit \in Targets, MsgUpdateTakeProfitPrice(id, takeProfit)
      PROVE  PerpInv' /\ (AllHold(Chain) => AllHold(Chain)')
  <2>1. \A t \in UpdateTakeProfitPrice(Chain, id, takeProfit) : Follows(Chain, t, 0)
    BY <1>1, InputTypes, UpdateTakeProfitKeeps
  <2> QED BY <1>5, <2>1, DeliverKeeps DEF MsgUpdateTakeProfitPrice
<1>6. ASSUME NEW id \in open, NEW amount \in CloseAmounts, MsgClose(id, amount)
      PROVE  PerpInv' /\ (AllHold(Chain) => AllHold(Chain)')
  <2>1. \A t \in Close(Chain, id, amount) : Follows(Chain, t, 0)
    BY <1>1, InputTypes, CloseKeeps
  <2> QED BY <1>6, <2>1, DeliverKeeps DEF MsgClose
<1>7. ASSUME NEW id \in open, MsgClosePositions(id)
      PROVE  PerpInv' /\ (AllHold(Chain) => AllHold(Chain)')
  <2>1. \A t \in CheckAndLiquidatePosition(Chain, id) : Follows(Chain, t, 0)
    BY <1>1, LiquidateKeeps
  <2> QED BY <1>7, <2>1, DeliverKeeps DEF MsgClosePositions
<1>8. ASSUME NEW p \in Prices, SetPrice(p)
      PROVE  PerpInv' /\ (AllHold(Chain) => AllHold(Chain)')
  <2>1. price' \in Prices /\ price' \in Nat \ {0} /\ moves' \in Nat /\ UNCHANGED <<rates, chain, flows>>
    BY <1>1, <1>8, PerpetualAssumption DEF SetPrice
  <2>2. Sound' = Sound /\ Chain' = Chain
    BY <2>1, SoundUnchanged DEF Chain, chain
  <2>3. Market'
    BY <1>1, <2>1 DEF Market, Now
  <2>4. AllHold(Chain)' <=> AllHold(Chain)
    BY <2>2 DEF AllHold
  <2> QED BY <1>1, <2>1, <2>2, <2>3, <2>4 DEF PerpInv
<1>9. CASE UNCHANGED vars
  BY <1>1, <1>9, PerpSame DEF vars
<1> QED BY <1>2, <1>3, <1>4, <1>5, <1>6, <1>7, <1>8, <1>9, AmmFlowKeeps, BeginBlockerKeeps DEF Next

LEMMA InvTyped ==
  ASSUME PerpInv, AllHold(Chain)
  PROVE  TypeOK
<1>1. Chain \in State /\ Stored(Chain) /\ Market
  BY SoundType DEF PerpInv
<1>2. /\ open \subseteq Ids /\ counter \in [last : Nat, totalOpen : Int]
      /\ amm \in [Denoms -> Nat] /\ bank \in [Denoms -> Nat] /\ insurance \in [Denoms -> Nat]
      /\ accounted \in [Denoms -> Int] /\ nonAmm \in [Denoms -> Int]
  BY <1>1 DEF State, Chain
<1>3. counter \in [last : 0 .. MaxPositions, totalOpen : Nat]
  <2>1. counter.last \in 0 .. MaxPositions
    BY <1>1, <1>2, Constants DEF Stored, Chain
  <2>2. counter.totalOpen \in Nat
    <3>1. Cardinality(Chain.open) \in Nat
      BY <1>1, OpenFinite, FS_CardinalityType
    <3> QED BY <1>1, <3>1 DEF Stored, Chain
  <2> QED BY <1>2, <2>1, <2>2
<1>4. ASSUME NEW id \in open
      PROVE  /\ mtps[id] \in [owner : Traders, side : Sides, denom : Denoms, collateral : Nat,
                              liabilities : Nat, custody : Nat \ {0}, unpaid : Nat,
                              stopLoss : Nat, takeProfit : Nat, block : 1 .. Len(rates)]
             /\ mtps[id].side = "short" => mtps[id].denom = "base"
  <2>1. mtps[id] \in Position /\ (mtps[id].side = "short" => mtps[id].denom = "base")
    BY <1>1 DEF Stored, Chain
  <2>2. mtps[id].custody > 0
    BY DEF AllHold, Chain
  <2> QED BY <2>1, <2>2 DEF Position
<1>5. \A id \in Ids \ open : mtps[id] = NoMTP
  BY <1>1 DEF Stored, Chain
<1>6. DOMAIN rates = 1 .. Len(rates)
  BY <1>1 DEF Market
<1> QED BY <1>2, <1>3, <1>4, <1>5, <1>6 DEF TypeOK, PerpInv

LEMMA InvTotals ==
  ASSUME PerpInv
  PROVE  PoolTotals
<1>1. Chain \in State /\ Stored(Chain) /\ Balanced(Chain) /\ Chain.mtps = mtps /\ Chain.pool = pool
  BY SoundType DEF PerpInv, Chain
<1>2. ASSUME NEW side \in Sides, NEW c \in Columns
      PROVE  Recorded(Chain, side, c) =
               Sum([id \in Ids |-> IF id \in open /\ mtps[id].side = side
                                   THEN Amount(mtps[id], c) ELSE 0], MaxPositions)
  <2>1. ASSUME NEW id \in Ids
        PROVE  Part(mtps[id], side, c) = IF id \in open /\ mtps[id].side = side
                                         THEN Amount(mtps[id], c) ELSE 0
    <3>1. id \notin open => mtps[id].side = "none"
      BY <1>1 DEF Stored, Chain, NoMTP
    <3> QED BY <3>1, Constants DEF Part
  <2>2. Column(Chain, side, c) = [id \in Ids |-> IF id \in open /\ mtps[id].side = side
                                                 THEN Amount(mtps[id], c) ELSE 0]
    BY <1>1, <2>1 DEF Column
  <2>3. Recorded(Chain, side, c) = Sum(Column(Chain, side, c), MaxPositions)
    <3>1. Gap(Chain, side, c) = 0
      BY <1>1 DEF Balanced
    <3>2. Column(Chain, side, c) \in [1 .. MaxPositions -> Int]
      BY <1>1, ColumnType
    <3>3. Sum(Column(Chain, side, c), MaxPositions) \in Int
      BY <3>2, SumInt, Constants
    <3>4. Recorded(Chain, side, c) \in Int
      BY <1>1, RecordedType
    <3> QED BY <3>1, <3>3, <3>4 DEF Gap
  <2> QED BY <2>2, <2>3
<1>3. ASSUME NEW side \in Sides
      PROVE  /\ pool[side].custody = TotalOf(side, LAMBDA m : m.custody)
             /\ pool[side].liabilities = TotalOf(side, LAMBDA m : m.liabilities)
             /\ \A d \in Denoms : pool[side].collateral[d] =
                   TotalOf(side, LAMBDA m : IF m.denom = d THEN m.collateral ELSE 0)
  <2>1. pool[side].custody = TotalOf(side, LAMBDA m : m.custody)
    <3>1. "custody" \in Columns /\ Recorded(Chain, side, "custody") = pool[side].custody
          /\ \A m : Amount(m, "custody") = m.custody
      BY <1>1 DEF Columns, Recorded, Amount
    <3> QED BY <1>2, <3>1 DEF TotalOf
  <2>2. pool[side].liabilities = TotalOf(side, LAMBDA m : m.liabilities)
    <3>1. "liabilities" \in Columns /\ Recorded(Chain, side, "liabilities") = pool[side].liabilities
          /\ \A m : Amount(m, "liabilities") = m.liabilities
      BY <1>1 DEF Columns, Recorded, Amount
    <3> QED BY <1>2, <3>1 DEF TotalOf
  <2>3. ASSUME NEW d \in Denoms
        PROVE  pool[side].collateral[d] =
                 TotalOf(side, LAMBDA m : IF m.denom = d THEN m.collateral ELSE 0)
    <3>1. d \in Columns /\ Recorded(Chain, side, d) = pool[side].collateral[d]
          /\ \A m : Amount(m, d) = IF m.denom = d THEN m.collateral ELSE 0
      BY <1>1 DEF Columns, Denoms, Recorded, Amount
    <3> QED BY <1>2, <3>1 DEF TotalOf
  <2> QED BY <2>1, <2>2, <2>3
<1> QED BY <1>3 DEF PoolTotals

(***************************************************************************)
(* What the store holds is typed, a position of the store holds something, *)
(* and no balance is ever negative.                                        *)
(***************************************************************************)
THEOREM PerpetualTyped == Spec => []TypeOK
<1> DEFINE IInv == PerpInv /\ AllHold(Chain)
<1>1. Init => IInv
  BY PerpInit
<1>2. IInv /\ [Next]_vars => IInv'
  BY PerpStep
<1>3. IInv => TypeOK
  BY InvTyped
<1> HIDE DEF IInv
<1> QED BY <1>1, <1>2, <1>3, PTL DEF Spec

(***************************************************************************)
(* The record of the pool is the sum of its positions: whatever messages   *)
(* open, merge, settle, close in part or close by force.                   *)
(***************************************************************************)
THEOREM TotalsFollowPositions == Spec => []PoolTotals
<1>1. Init => PerpInv
  BY PerpInit
<1>2. PerpInv /\ [Next]_vars => PerpInv'
  BY PerpStep
<1>3. PerpInv => PoolTotals
  BY InvTotals
<1> QED BY <1>1, <1>2, <1>3, PTL DEF Spec

\* The outcomes of a message have current accounted balances.
LEMMA DeliverCurrent ==
  ASSUME PerpInv, NEW n, NEW S, \A t \in S : Follows(Chain, t, n) /\ Current(t), Deliver(S)
  PROVE  AccountedCurrent'
<1>1. PICK t \in S : Become(t) /\ price' = price
  BY DEF Deliver
<1>2. Current(t)
  OBVIOUS
<1>3. amm' = t.amm /\ accounted' = t.accounted /\ Chain'.pool = t.pool
  BY <1>1 DEF Become, Chain
<1>4. \A d : Beyond(d)' = Ahead(t, d)
  BY <1>3 DEF Beyond, Ahead, TotalLiabilities, TotalCustody
<1> QED BY <1>1, <1>2, <1>4 DEF AccountedCurrent, Current

LEMMA StepCurrent ==
  ASSUME PerpInv, Next
  PROVE  \/ UNCHANGED chain \/ AccountedCurrent' \/ flows' # flows
         \/ \E id \in open, stopLoss \in Targets \cup {None} : MsgUpdateStopLoss(id, stopLoss)
<1>1. /\ Market /\ Chain \in Sound /\ flows \in Nat
      /\ Chain.open = open /\ Chain.counter = counter /\ Chain.mtps = mtps
  BY DEF PerpInv, Chain
<1>2. ASSUME NEW u \in Traders, NEW side \in Sides, NEW d \in Denoms, NEW amount \in Collaterals,
             NEW leverage \in Leverages \cup {0}, NEW takeProfit \in Targets \cup {None},
             MsgOpen(u, side, d, amount, leverage, takeProfit)
      PROVE  AccountedCurrent'
  <2>1. Chain.counter.last < MaxPositions
        /\ Deliver(Open(Chain, u, side, d, amount, leverage, takeProfit))
    BY <1>1, <1>2 DEF MsgOpen
  <2>2. amount \in Nat \ {0} /\ leverage \in Nat /\ takeProfit \in Nat
    BY InputTypes
  <2>3. \A t \in Open(Chain, u, side, d, amount, leverage, takeProfit) :
           Follows(Chain, t, 1) /\ Current(t)
    BY <1>1, <2>1, <2>2, OpenKeeps
  <2> QED BY <2>1, <2>3, DeliverCurrent
<1>3. ASSUME NEW id \in open, NEW d \in Denoms, NEW amount \in Collaterals,
             MsgAddCollateral(id, d, amount)
      PROVE  AccountedCurrent'
  <2>1. Deliver(AddCollateral(Chain, Chain.mtps[id].owner, id, d, amount))
    BY <1>1, <1>3 DEF MsgAddCollateral
  <2>2. \/ Chain.counter.last < MaxPositions
        \/ Chain.mtps[id].side = "long" /\ Chain.mtps[id].denom = "base"
    BY <1>1, <1>3 DEF MsgAddCollateral
  <2>3. amount \in Nat \ {0} /\ id \in Chain.open /\ Chain.mtps[id].owner \in Traders
    <3>1. Chain.mtps[id] \in Position
      BY <1>1, SoundType
    <3> QED BY <1>1, <3>1, InputTypes DEF Position
  <2>4. \A t \in AddCollateral(Chain, Chain.mtps[id].owner, id, d, amount) :
           Follows(Chain, t, 1) /\ Current(t)
    BY <1>1, <2>2, <2>3, AddCollateralKeeps
  <2> QED BY <2>1, <2>4, DeliverCurrent
<1>4. ASSUME NEW id \in open, NEW takeProfit \in Targets, MsgUpdateTakeProfitPrice(id, takeProfit)
      PROVE  AccountedCurrent'
  <2>1. \A t \in UpdateTakeProfitPrice(Chain, id, takeProfit) : Follows(Chain, t, 0) /\ Current(t)
    BY <1>1, InputTypes, UpdateTakeProfitKeeps
  <2> QED BY <1>4, <2>1, DeliverCurrent DEF MsgUpdateTakeProfitPrice
<1>5. ASSUME NEW id \in open, NEW amount \in CloseAmounts, MsgClose(id, amount)
      PROVE  AccountedCurrent'
  <2>1. \A t \in Close(Chain, id, amount) : Follows(Chain, t, 0) /\ Current(t)
    BY <1>1, InputTypes, CloseKeeps
  <2> QED BY <1>5, <2>1, DeliverCurrent DEF MsgClose
<1>6. ASSUME NEW id \in open, MsgClosePositions(id)
      PROVE  AccountedCurrent'
  <2>1. \A t \in CheckAndLiquidatePosition(Chain, id) : Follows(Chain, t, 0) /\ Current(t)
    BY <1>1, LiquidateKeeps
  <2> QED BY <1>6, <2>1, DeliverCurrent DEF MsgClosePositions
<1>7. ASSUME NEW borrowRate \in BorrowRates, BeginBlocker(borrowRate)
      PROVE  UNCHANGED chain
  BY <1>7 DEF BeginBlocker
<1>8. ASSUME NEW p \in Prices, SetPrice(p)
      PROVE  UNCHANGED chain
  BY <1>8 DEF SetPrice
<1>9. ASSUME NEW change \in Flows, AmmFlow(change)
      PROVE  flows' # flows
  BY <1>1, <1>9 DEF AmmFlow
<1> QED BY <1>2, <1>3, <1>4, <1>5, <1>6, <1>7, <1>8, <1>9 DEF Next

(***************************************************************************)
(* Whatever branch a message ends in, the balances that swaps are priced   *)
(* against are current after it, unless it only sets a stop-loss price.    *)
(***************************************************************************)
THEOREM AccountedBalancesFollow == Spec => AccountedFollows
<1>1. Init => PerpInv
  BY PerpInit
<1>2. PerpInv /\ [Next]_vars => PerpInv'
  BY PerpStep
<1>3. PerpInv /\ [Next]_vars =>
        [\/ UNCHANGED chain \/ AccountedCurrent' \/ flows' # flows
         \/ \E id \in open, stopLoss \in Targets \cup {None} : MsgUpdateStopLoss(id, stopLoss)]_vars
  BY StepCurrent
<1> QED BY <1>1, <1>2, <1>3, PTL DEF Spec, AccountedFollows

-----------------------------------------------------------------------------
(***************************************************************************)
(* The order book with the positions.                                      *)
(***************************************************************************)
SpotOrder ==
    [type : {"stoploss", "limitsell", "limitbuy"}, owner : Traders, denom : Denoms,
     amount : Nat \ {0}, trigger : Nat]
OpenOrder ==
    [type : {"limitopen"}, owner : Traders, side : Sides, denom : Denoms, amount : Nat \ {0},
     leverage : Nat, takeProfit : Nat, trigger : Nat]
CloseOrder ==
    [type : {"limitclose"}, owner : Traders, position : Ids, percentage : Nat, trigger : Nat]

OrderOf(kind) == (IF kind = "spot" THEN SpotOrder ELSE OpenOrder \cup CloseOrder) \cup {NoOrder}
AnyOrder == SpotOrder \cup OpenOrder \cup CloseOrder \cup {NoOrder}
Balances == [Denoms -> Int]

Desk ==
    [chain : State, orders : [Kinds -> [OrderIds -> AnyOrder]], counts : [Kinds -> Nat],
     escrow : [Kinds -> [OrderIds -> Balances]], queued : SUBSET OrderIds]

\* An order is of its kind, and its address holds what it spends.
Entries(w) ==
    \A kind \in Kinds, id \in OrderIds :
        /\ w.orders[kind][id] \in OrderOf(kind)
        /\ w.escrow[kind][id] = Cost(w.orders[kind][id])

Book == {w \in Desk : w.chain \in Sound /\ Entries(w)}

LEMMA OrderKinds ==
  /\ "spot" \in Kinds /\ "perp" \in Kinds
  /\ \A kind \in Kinds : NoOrder \in OrderOf(kind) /\ OrderOf(kind) \subseteq AnyOrder
  /\ OrderOf("perp") = OpenOrder \cup CloseOrder \cup {NoOrder}
BY DEF Kinds, OrderOf, AnyOrder

LEMMA CostType ==
  ASSUME NEW order \in AnyOrder
  PROVE  Cost(order) \in Balances
<1>1. Nothing \in Balances
  BY DEF Nothing, Balances
<1>2. CASE order = NoOrder
  BY <1>1, <1>2 DEF NoOrder, Cost
<1>3. CASE order \in CloseOrder
  BY <1>1, <1>3 DEF CloseOrder, Cost
<1>4. CASE order \in SpotOrder \cup OpenOrder
  <2>1. order.denom \in Denoms /\ order.amount \in Int
    BY <1>4 DEF SpotOrder, OpenOrder
  <2>2. Coins(order.denom, order.amount) \in Balances
    BY <1>1, <2>1 DEF Coins, Balances
  <2> QED BY <1>1, <2>2 DEF Cost
<1> QED BY <1>2, <1>3, <1>4 DEF AnyOrder

LEMMA CostOfNone == Cost(NoOrder) = Nothing
BY DEF Cost, NoOrder

\* One entry of the book is another.
With(f, kind, id, x) == [f EXCEPT ![kind] = [f[kind] EXCEPT ![id] = x]]

Written(g, f, T, kind, id, x) ==
    /\ g \in [Kinds -> [OrderIds -> T]] /\ g[kind][id] = x
    /\ \A k \in Kinds, j \in OrderIds : k # kind \/ j # id => g[k][j] = f[k][j]

LEMMA WithValue ==
  ASSUME NEW T, NEW f \in [Kinds -> [OrderIds -> T]], NEW kind \in Kinds, NEW id \in OrderIds,
         NEW x \in T
  PROVE  Written(With(f, kind, id, x), f, T, kind, id, x)
<1>1. PICK g : g = [f[kind] EXCEPT ![id] = x]
  OBVIOUS
<1>2. g \in [OrderIds -> T] /\ g[id] = x /\ \A j \in OrderIds : j # id => g[j] = f[kind][j]
  <2>1. f[kind] \in [OrderIds -> T]
    OBVIOUS
  <2> QED BY <1>1, <2>1
<1>3. PICK h : h = [f EXCEPT ![kind] = g]
  OBVIOUS
<1>4. h \in [Kinds -> [OrderIds -> T]] /\ h[kind] = g /\ \A k \in Kinds : k # kind => h[k] = f[k]
  BY <1>2, <1>3
<1>5. With(f, kind, id, x) = h
  BY <1>1, <1>3 DEF With
<1>6. Written(h, f, T, kind, id, x)
  BY <1>2, <1>4 DEF Written
<1> QED BY <1>5, <1>6

LEMMA EntryWritten ==
  ASSUME NEW w \in Book, NEW kind \in Kinds, NEW id \in OrderIds, NEW order \in OrderOf(kind),
         NEW v, v.orders = With(w.orders, kind, id, order),
         v.escrow = With(w.escrow, kind, id, Cost(order)),
         v.orders \in [Kinds -> [OrderIds -> AnyOrder]] /\ v.escrow \in [Kinds -> [OrderIds -> Balances]]
           => v \in Desk,
         v.chain \in Sound
  PROVE  v \in Book
<1>1. w \in Desk /\ Entries(w)
  BY DEF Book
<1>2. w.orders \in [Kinds -> [OrderIds -> AnyOrder]] /\ w.escrow \in [Kinds -> [OrderIds -> Balances]]
  BY <1>1 DEF Desk
<1>3. order \in AnyOrder /\ Cost(order) \in Balances
  BY OrderKinds, CostType
<1>4. /\ v.orders \in [Kinds -> [OrderIds -> AnyOrder]] /\ v.orders[kind][id] = order
      /\ \A k \in Kinds, j \in OrderIds : k # kind \/ j # id => v.orders[k][j] = w.orders[k][j]
  <2>1. Written(With(w.orders, kind, id, order), w.orders, AnyOrder, kind, id, order)
    BY <1>2, <1>3, WithValue, Zenon
  <2>2. Written(v.orders, w.orders, AnyOrder, kind, id, order)
    BY <2>1
  <2> QED BY <2>2 DEF Written
<1>5. /\ v.escrow \in [Kinds -> [OrderIds -> Balances]] /\ v.escrow[kind][id] = Cost(order)
      /\ \A k \in Kinds, j \in OrderIds : k # kind \/ j # id => v.escrow[k][j] = w.escrow[k][j]
  <2>1. Written(With(w.escrow, kind, id, Cost(order)), w.escrow, Balances, kind, id, Cost(order))
    BY <1>2, <1>3, WithValue, Zenon
  <2>2. Written(v.escrow, w.escrow, Balances, kind, id, Cost(order))
    BY <2>1
  <2> QED BY <2>2 DEF Written
<1>6. ASSUME NEW k \in Kinds, NEW j \in OrderIds
      PROVE  v.orders[k][j] \in OrderOf(k) /\ v.escrow[k][j] = Cost(v.orders[k][j])
  <2>1. CASE k = kind /\ j = id
    BY <1>4, <1>5, <2>1
  <2>2. CASE k # kind \/ j # id
    BY <1>1, <1>4, <1>5, <2>2 DEF Entries
  <2> QED BY <2>1, <2>2
<1> QED BY <1>4, <1>5, <1>6 DEF Book, Entries

LEMMA BookType ==
  ASSUME NEW w \in Book
  PROVE  /\ w \in Desk /\ w.chain \in Sound /\ Entries(w)
         /\ w.orders \in [Kinds -> [OrderIds -> AnyOrder]]
         /\ w.escrow \in [Kinds -> [OrderIds -> Balances]]
         /\ w.counts \in [Kinds -> Nat] /\ w.queued \in SUBSET OrderIds
BY DEF Book, Desk

LEMMA ChainReplaced ==
  ASSUME NEW w \in Book, NEW c \in Sound, NEW v, v = [w EXCEPT !.chain = c]
  PROVE  v \in Book /\ v.chain = c
<1>1. c \in State /\ w \in Desk /\ Entries(w)
  BY SoundType, BookType
<1>2. v \in Desk /\ v.chain = c /\ v.orders = w.orders /\ v.escrow = w.escrow
  BY <1>1 DEF Desk
<1>3. Entries(v)
  BY <1>1, <1>2 DEF Entries
<1> QED BY <1>2, <1>3 DEF Book

LEMMA QueueGrows ==
  ASSUME NEW w \in Book, NEW id \in OrderIds, NEW v, v = [w EXCEPT !.queued = @ \cup {id}]
  PROVE  v \in Book /\ v.chain = w.chain
<1>1. w \in Desk /\ Entries(w) /\ w.chain \in Sound
  BY BookType
<1>2. PICK q : q = w.queued \cup {id}
  OBVIOUS
<1>3. q \in SUBSET OrderIds
  BY <1>1, <1>2 DEF Desk
<1>4. v = [w EXCEPT !.queued = q]
  BY <1>1, <1>2 DEF Desk
<1>5. v \in Desk /\ v.chain = w.chain /\ v.orders = w.orders /\ v.escrow = w.escrow
  BY <1>1, <1>3, <1>4 DEF Desk
<1>6. Entries(v)
  BY <1>1, <1>5 DEF Entries
<1> QED BY <1>1, <1>5, <1>6 DEF Book

\* An order is paid out and removed.
LEMMA PaidAndRemoved ==
  ASSUME NEW w \in Book, NEW kind \in Kinds, NEW id \in OrderIds, NEW r \in PayOut(w, kind, id),
         NEW v, v = RemovePending(r, kind, id)
  PROVE  v \in Book /\ v.chain = w.chain /\ r.chain = w.chain
<1>1. w \in Desk /\ Entries(w) /\ w.chain \in Sound
  BY BookType
<1>2. PICK left : left = [d \in Denoms |-> w.escrow[kind][id][d] - Cost(w.orders[kind][id])[d]]
  OBVIOUS
<1>3. left = Nothing
  <2>1. w.escrow[kind][id] = Cost(w.orders[kind][id]) /\ w.orders[kind][id] \in AnyOrder
    BY <1>1, OrderKinds DEF Entries
  <2>2. Cost(w.orders[kind][id]) \in Balances
    BY <2>1, CostType
  <2>3. ASSUME NEW d \in Denoms
        PROVE  w.escrow[kind][id][d] - Cost(w.orders[kind][id])[d] = 0
    BY <2>1, <2>2 DEF Balances
  <2> QED BY <1>2, <2>3 DEF Nothing
<1>4. PICK E : E = With(w.escrow, kind, id, Nothing)
  OBVIOUS
<1>5. r = [w EXCEPT !.escrow = E]
  BY <1>1, <1>2, <1>3, <1>4 DEF PayOut, With, Desk
<1>6. r.orders = w.orders /\ r.chain = w.chain /\ r.escrow = E
      /\ r.counts = w.counts /\ r.queued = w.queued
  BY <1>1, <1>5 DEF Desk
<1>7. PICK O : O = With(w.orders, kind, id, NoOrder)
  OBVIOUS
<1>8. v = [r EXCEPT !.orders = O]
  BY <1>6, <1>7 DEF RemovePending, With
<1>9. v = [w EXCEPT !.escrow = E, !.orders = O]
  BY <1>5, <1>8
<1>10. /\ v.orders = O /\ v.escrow = E /\ v.chain = w.chain
       /\ O \in [Kinds -> [OrderIds -> AnyOrder]] /\ E \in [Kinds -> [OrderIds -> Balances]]
            => v \in Desk
  BY <1>1, <1>9 DEF Desk
<1>11. v.escrow = With(w.escrow, kind, id, Cost(NoOrder)) /\ NoOrder \in OrderOf(kind)
  BY <1>4, <1>10, OrderKinds, CostOfNone
<1>12. v \in Book
  BY <1>1, <1>7, <1>10, <1>11, EntryWritten
<1> QED BY <1>6, <1>10, <1>12

LEMMA ExecuteSpotKeeps ==
  ASSUME NEW w \in Book, NEW id \in OrderIds, NEW trial, NEW v \in ExecuteSpot(w, id, trial)
  PROVE  v \in Book /\ v.chain = w.chain
<1>1. CASE v = w
  BY <1>1
<1>2. CASE \E r \in PayOut(w, "spot", id) :
              v = [RemovePending(r, "spot", id) EXCEPT !.queued = @ \cup {id}]
  <2>1. PICK r \in PayOut(w, "spot", id) :
              v = [RemovePending(r, "spot", id) EXCEPT !.queued = @ \cup {id}]
    BY <1>2
  <2>2. PICK x : x = RemovePending(r, "spot", id)
    OBVIOUS
  <2>3. x \in Book /\ x.chain = w.chain
    BY <2>2, OrderKinds, PaidAndRemoved
  <2>4. v = [x EXCEPT !.queued = @ \cup {id}]
    BY <2>1, <2>2
  <2>5. v \in Book /\ v.chain = x.chain
    BY <2>3, <2>4, QueueGrows
  <2> QED BY <2>3, <2>5
<1> QED BY <1>1, <1>2 DEF ExecuteSpot

(***************************************************************************)
(* A close that fails leaves what it has paid written, and the position    *)
(* perhaps with nothing; the totals follow all the same.                   *)
(***************************************************************************)
LEMMA UnfinishedKeeps ==
  ASSUME Market, NEW s \in Sound, NEW id \in s.open, NEW t \in Unfinished(s, id)
  PROVE  t \in Sound /\ t.counter.last = s.counter.last
<1>1. PICK p, r : p = GetAmmPool(s) /\ r = SettleFunding(p, id)
  OBVIOUS
<1>2. OnlyPosition(s, r, id) /\ r.open = s.open /\ r \in Sound /\ r \in State /\ id \in r.open
      /\ r.insurance = s.insurance
  <2>1. CoinsMoved(s, p) /\ p.insurance = s.insurance
    BY <1>1, SoundType, PoolRead DEF GetAmmPool, State
  <2>2. OnlyPosition(s, p, id) /\ p.open = s.open /\ p \in Sound
    BY <2>1, OnlyCoins DEF CoinsMoved, SamePositions, OnlyPosition
  <2>3. OnlyPosition(p, r, id) /\ r.open = p.open
    BY <1>1, <2>2, SettleKeeps
  <2>4. OnlyPosition(s, r, id) /\ r \in Sound /\ r \in State
    BY <2>2, <2>3, OnlyTwice, SoundType DEF OnlyPosition
  <2>5. r.insurance = p.insurance
    <3>1. p \in State /\ p.mtps[id] \in Position
      BY <2>2, SoundType
    <3> QED BY <1>1, <3>1 DEF SettleFunding, MoveCustody, ChangePosition, SetMTP, ChangeTotals, State
  <2> QED BY <2>1, <2>2, <2>3, <2>4, <2>5
<1>3. r.mtps[id] \in Position
  BY <1>2, SoundType
<1>4. InterestInCustody(r.mtps[id]) \in Nat /\ r.mtps[id].custody \in Nat
  BY <1>3, DueTypes DEF Position
<1>5. PICK d, missing : /\ d = CustodyDenom(r.mtps[id].side)
                        /\ missing = InterestInCustody(r.mtps[id]) - r.mtps[id].custody
  OBVIOUS
<1>6. d \in Denoms
  BY <1>3, <1>5, SideDenoms DEF Position
<1>7. \/ t = r
      \/ /\ missing > 0 /\ r.insurance[d] >= missing
         /\ t = [Receive(r, d, missing) EXCEPT !.insurance[d] = @ - missing]
      \/ ~ (missing > 0) /\ t \in PayInterest(r, id)
  BY <1>1, <1>2, <1>5 DEF Unfinished
<1>8. CASE t = r
  BY <1>2, <1>8 DEF OnlyPosition
<1>9. CASE /\ missing > 0 /\ r.insurance[d] >= missing
           /\ t = [Receive(r, d, missing) EXCEPT !.insurance[d] = @ - missing]
  <2>1. missing > 0
    BY <1>9, Zenon
  <2>2. missing \in Nat
    BY <1>4, <1>5, <2>1
  <2>3. PICK q : q = Receive(r, d, missing)
    OBVIOUS
  <2>4. CoinsMoved(r, q)
    BY <1>2, <1>6, <2>2, <2>3, ReceiveMoves
  <2>5. q.insurance = r.insurance /\ q \in State
    BY <1>2, <2>3, <2>4 DEF Receive, Moved, State, CoinsMoved
  <2>6. t = [q EXCEPT !.insurance[d] = @ - missing] /\ q.insurance[d] >= missing
    BY <1>9, <2>3, <2>5
  <2>7. CoinsMoved(q, t)
    BY <1>6, <2>2, <2>5, <2>6, InsurancePaid
  <2>8. CoinsMoved(r, t)
    BY <2>4, <2>7, MovedTwice
  <2> QED BY <1>2, <2>8, CoinsSound DEF CoinsMoved, SamePositions, OnlyPosition
<1>10. CASE ~ (missing > 0) /\ t \in PayInterest(r, id)
  <2>1. InterestInCustody(r.mtps[id]) <= r.mtps[id].custody
    BY <1>4, <1>5, <1>10
  <2>2. OnlyPosition(r, t, id)
    BY <1>2, <1>10, <2>1, PayInterestKeeps
  <2> QED BY <1>2, <2>2 DEF OnlyPosition
<1> QED BY <1>7, <1>8, <1>9, <1>10

\* An executed order leaves the book in order, and gives at most one new id.
Executed(w, v) ==
    /\ v \in Book
    /\ v.chain.counter.last <= w.chain.counter.last + 1

LEMMA LimitOpenKeeps ==
  ASSUME Market, NEW w \in Book, w.chain.counter.last < MaxPositions, NEW id \in OrderIds,
         w.orders["perp"][id] \in OpenOrder, NEW v \in ExecuteLimitOpen(w, id)
  PROVE  Executed(w, v)
<1>1. PICK o : o = w.orders["perp"][id]
  OBVIOUS
<1>2. /\ o.owner \in Traders /\ o.side \in Sides /\ o.denom \in Denoms /\ o.amount \in Nat \ {0}
      /\ o.leverage \in Nat /\ o.takeProfit \in Nat
  BY <1>1 DEF OpenOrder
<1>3. w.chain \in Sound /\ w.chain.counter.last \in Nat
  BY BookType, SoundType DEF State
<1>4. CASE v = w
  BY <1>3, <1>4 DEF Executed
<1>5. CASE \E r \in PayOut(w, "perp", id) :
            \E t \in Open(r.chain, o.owner, o.side, o.denom, o.amount, o.leverage, o.takeProfit) :
               v = [RemovePending(r, "perp", id) EXCEPT !.chain = t]
  <2>1. PICK r \in PayOut(w, "perp", id) :
             \E t \in Open(r.chain, o.owner, o.side, o.denom, o.amount, o.leverage, o.takeProfit) :
                v = [RemovePending(r, "perp", id) EXCEPT !.chain = t]
    BY <1>5
  <2>2. PICK t \in Open(r.chain, o.owner, o.side, o.denom, o.amount, o.leverage, o.takeProfit) :
             v = [RemovePending(r, "perp", id) EXCEPT !.chain = t]
    BY <2>1
  <2>3. PICK x : x = RemovePending(r, "perp", id)
    OBVIOUS
  <2>4. x \in Book /\ r.chain = w.chain
    BY <2>3, OrderKinds, PaidAndRemoved
  <2>5. Follows(w.chain, t, 1)
    BY <1>2, <1>3, <2>4, OpenKeeps
  <2>6. t \in Sound /\ t.counter.last <= w.chain.counter.last + 1
    BY <2>5 DEF Follows
  <2>7. v = [x EXCEPT !.chain = t]
    BY <2>2, <2>3
  <2>8. v \in Book /\ v.chain = t
    BY <2>4, <2>6, <2>7, ChainReplaced
  <2> QED BY <2>6, <2>8 DEF Executed
<1> QED BY <1>1, <1>4, <1>5, SMTT(40) DEF ExecuteLimitOpen, Reverted

LEMMA LimitCloseKeeps ==
  ASSUME Market, NEW w \in Book, NEW id \in OrderIds,
         w.orders["perp"][id] \in CloseOrder, NEW v \in ExecuteLimitClose(w, id)
  PROVE  Executed(w, v)
<1>1. PICK o : o = w.orders["perp"][id]
  OBVIOUS
<1>2. PICK p, amount : p = o.position /\ amount = (o.percentage * w.chain.mtps[o.position].custody) \div 100
  OBVIOUS
<1>3. w.chain \in Sound /\ w.chain.counter.last \in Nat /\ w \in Desk
  BY BookType, SoundType DEF State
<1>4. \/ v = w
      \/ p \in w.chain.open /\ \E t \in Unfinished(w.chain, p) : v = [w EXCEPT !.chain = t]
      \/ p \in w.chain.open
         /\ \E t \in Close(w.chain, p, amount) : v = [RemovePending(w, "perp", id) EXCEPT !.chain = t]
  BY <1>1, <1>2 DEF ExecuteLimitClose
<1>5. CASE v = w
  BY <1>3, <1>5 DEF Executed
<1>6. CASE p \in w.chain.open /\ \E t \in Unfinished(w.chain, p) : v = [w EXCEPT !.chain = t]
  <2>1. PICK t \in Unfinished(w.chain, p) : v = [w EXCEPT !.chain = t]
    BY <1>6
  <2>2. t \in Sound /\ t.counter.last = w.chain.counter.last
    BY <1>3, <1>6, UnfinishedKeeps
  <2>3. v \in Book /\ v.chain = t
    BY <2>1, <2>2, ChainReplaced
  <2> QED BY <1>3, <2>2, <2>3 DEF Executed
<1>7. CASE p \in w.chain.open
           /\ \E t \in Close(w.chain, p, amount) : v = [RemovePending(w, "perp", id) EXCEPT !.chain = t]
  <2>1. PICK t \in Close(w.chain, p, amount) : v = [RemovePending(w, "perp", id) EXCEPT !.chain = t]
    BY <1>7
  <2>2. amount \in Nat
    <3>1. w.chain.mtps[p].custody \in Nat
      BY <1>3, <1>7, SoundType DEF Position
    <3>2. o.percentage \in Nat
      BY <1>1 DEF CloseOrder
    <3>3. PICK a : a = o.percentage * w.chain.mtps[p].custody
      OBVIOUS
    <3>4. a \in Nat
      BY <3>1, <3>2, <3>3, ProductNat
    <3> QED BY <1>2, <3>3, <3>4
  <2>3. t \in Sound /\ t.counter.last <= w.chain.counter.last
    <3>1. Follows(w.chain, t, 0)
      BY <1>3, <1>7, <2>2, CloseKeeps
    <3>2. t.counter.last \in Nat
      BY <3>1, SoundType DEF Follows, State
    <3> QED BY <1>3, <3>1, <3>2 DEF Follows
  <2>4. PICK x : x = RemovePending(w, "perp", id)
    OBVIOUS
  <2>5. x \in Book
    <3>1. PICK O : O = With(w.orders, "perp", id, NoOrder)
      OBVIOUS
    <3>2. x = [w EXCEPT !.orders = O]
      BY <1>3, <2>4, <3>1 DEF RemovePending, With, Desk
    <3>3. /\ x.orders = O /\ x.escrow = w.escrow /\ x.chain = w.chain
          /\ O \in [Kinds -> [OrderIds -> AnyOrder]] => x \in Desk
      BY <1>3, <3>2 DEF Desk
    <3>4. Written(O, w.orders, AnyOrder, "perp", id, NoOrder)
      BY <3>1, BookType, OrderKinds, WithValue DEF AnyOrder
    <3>5. Cost(NoOrder) = w.escrow["perp"][id]
      <4>1. w.escrow["perp"][id] = Cost(w.orders["perp"][id])
        BY BookType, OrderKinds DEF Entries
      <4> QED BY <4>1, CostOfNone DEF Cost, CloseOrder
    <3>6. ASSUME NEW k \in Kinds, NEW j \in OrderIds
          PROVE  x.orders[k][j] \in OrderOf(k) /\ x.escrow[k][j] = Cost(x.orders[k][j])
      <4>1. w.orders[k][j] \in OrderOf(k) /\ w.escrow[k][j] = Cost(w.orders[k][j])
        BY BookType DEF Entries
      <4>2. CASE k = "perp" /\ j = id
        BY <3>3, <3>4, <3>5, <4>2, OrderKinds DEF Written
      <4>3. CASE ~ (k = "perp" /\ j = id)
        BY <3>3, <3>4, <4>1, <4>3 DEF Written
      <4> QED BY <4>2, <4>3
    <3> QED BY <1>3, <3>3, <3>4, <3>6 DEF Written, Book, Entries
  <2>6. v = [x EXCEPT !.chain = t]
    BY <2>1, <2>4
  <2>7. v \in Book /\ v.chain = t
    BY <2>3, <2>5, <2>6, ChainReplaced
  <2>8. t.counter.last \in Nat
    BY <2>3, SoundType DEF State
  <2> QED BY <1>3, <2>3, <2>7, <2>8 DEF Executed
<1> QED BY <1>4, <1>5, <1>6, <1>7

LEMMA ExecutePerpKeeps ==
  ASSUME Market, NEW w \in Book, w.chain.counter.last < MaxPositions, NEW id,
         NEW v \in ThenPerp(w, id)
  PROVE  Executed(w, v)
<1>1. id \in OrderIds /\ w.orders["perp"][id] # NoOrder /\ v \in ExecutePerp(w, id)
  BY DEF ThenPerp, Pending
<1>2. w.orders["perp"][id] \in OpenOrder \cup CloseOrder
  BY <1>1, BookType, OrderKinds DEF Entries
<1>3. CASE w.orders["perp"][id].type = "limitopen"
  <2>1. w.orders["perp"][id] \in OpenOrder
    BY <1>2, <1>3 DEF CloseOrder
  <2> QED BY <1>1, <1>3, <2>1, LimitOpenKeeps DEF ExecutePerp
<1>4. CASE w.orders["perp"][id].type # "limitopen"
  <2>1. w.orders["perp"][id] \in CloseOrder
    BY <1>2, <1>4 DEF OpenOrder
  <2> QED BY <1>1, <1>4, <2>1, LimitCloseKeeps DEF ExecutePerp
<1> QED BY <1>3, <1>4

-----------------------------------------------------------------------------
(***************************************************************************)
(* Lists of orders.  What is after each order of a list is within a level  *)
(* when the order leads from every state of the last level to one of it.   *)
(***************************************************************************)
LEMMA LevelInduction ==
  ASSUME NEW n \in Nat, NEW f, NEW level, f[0] \subseteq level[0],
         \A i \in 1 .. n : f[i-1] \subseteq level[i-1] => f[i] \subseteq level[i]
  PROVE  \A i \in 0 .. n : f[i] \subseteq level[i]
<1> DEFINE g == [i \in 0 .. n |-> IF f[i] \subseteq level[i] THEN 1 ELSE 0]
<1>1. \A i \in 0 .. n : g[i] \in {1} <=> f[i] \subseteq level[i]
  OBVIOUS
<1>2. \A i \in 1 .. n : i \in 0 .. n /\ i - 1 \in 0 .. n
  OBVIOUS
<1>3. 0 \in 0 .. n
  OBVIOUS
<1> HIDE DEF g
<1>4. PICK T : T = {1}
  OBVIOUS
<1>5. g[0] \in T /\ \A i \in 1 .. n : g[i-1] \in T => g[i] \in T
  BY <1>1, <1>2, <1>3, <1>4
<1>6. \A i \in 0 .. n : g[i] \in T
  BY <1>5, StepInduction
<1> QED BY <1>1, <1>4, <1>6

OnChain(S, c) == \A w \in S : w \in Book /\ w.chain = c

LEMMA SpotRunKeeps ==
  ASSUME NEW c, NEW S, NEW list, NEW trial, NEW n \in Nat, n = Len(list), OnChain(S, c),
         NEW R, R = SpotRun(S, list, trial)[n]
  PROVE  OnChain(R, c)
<1> USE DEF OnChain
<1> DEFINE U == {w \in Book : w.chain = c}
           T == SUBSET U
           Step(i, x) == UNION {ThenSpot(t, list[i], trial) : t \in x}
           step == [i \in 1 .. n |-> [x \in T |-> Step(i, x)]]
<1>1. S \in T
  OBVIOUS
<1>2. \A i \in 1 .. n, x \in T : Step(i, x) \in T
  <2>1. ASSUME NEW w \in U, NEW id, NEW v \in ThenSpot(w, id, trial) PROVE v \in U
    <3>1. id \in OrderIds /\ v \in ExecuteSpot(w, id, trial[id])
      BY DEF ThenSpot, Pending
    <3> QED BY <3>1, ExecuteSpotKeeps
  <2> HIDE DEF U
  <2> QED BY <2>1
<1>3. step \in [1 .. n -> [T -> T]]
  BY <1>2
<1>4. PICK f : Iterates(f, T, S, step, n)
  <2> HIDE DEF T, step
  <2> QED BY <1>1, <1>3, Recursion
<1>5. f = [i \in 0 .. n |-> IF i = 0 THEN S ELSE Step(i, f[i-1])]
  <2>1. f \in [0 .. n -> T] /\ f[0] = S
    BY <1>4 DEF Iterates
  <2>2. ASSUME NEW i \in 1 .. n PROVE f[i] = Step(i, f[i-1])
    <3>1. f[i] = step[i][f[i-1]]
      BY <1>4 DEF Iterates
    <3>2. f[i-1] \in T
      BY <2>1
    <3> QED BY <3>1, <3>2
  <2> HIDE DEF T, Step
  <2>3. \A i \in 0 .. n : i # 0 => i \in 1 .. n
    OBVIOUS
  <2> QED BY <2>1, <2>2, <2>3
<1> DEFINE H == SpotRun(S, list, trial)
<1>6. H = [i \in 0 .. n |-> IF i = 0 THEN S ELSE Step(i, H[i-1])]
  BY <1>5, Zenon DEF SpotRun
<1> HIDE DEF H
<1>7. H[0] \in T
  BY <1>1, <1>6
<1>8. \A i \in 1 .. n : H[i-1] \in T => H[i] \in T
  <2>1. \A i \in 1 .. n : H[i] = Step(i, H[i-1])
    <3> HIDE DEF Step
    <3> QED BY <1>6
  <2> QED BY <1>2, <2>1
<1>9. \A i \in 0 .. n : H[i] \in T
  <2> HIDE DEF T
  <2> QED BY <1>7, <1>8, StepInduction
<1>10. H[n] \in T
  BY <1>9
<1> QED BY <1>10 DEF H

LEMMA PerpRunKeeps ==
  ASSUME Market, NEW start \in Nat, NEW S, NEW list, NEW n \in Nat, Len(list) = n,
         start + n <= MaxPositions,
         \A w \in S : w \in Book /\ w.chain.counter.last <= start
  PROVE  \A w \in PerpRun(S, list)[n] : w \in Book
<1> DEFINE Level(i) == {w \in Book : w.chain.counter.last <= start + i}
           level == [i \in 0 .. n |-> Level(i)]
           T == SUBSET Book
           Step(i, x) == UNION {ThenPerp(t, list[i]) : t \in x}
           step == [i \in 1 .. n |-> [x \in T |-> IF x \subseteq Level(i-1) THEN Step(i, x) ELSE {}]]
<1>1. S \in T /\ S \subseteq level[0]
  OBVIOUS
<1>2. ASSUME NEW i \in 1 .. n, NEW x, x \subseteq Level(i-1) PROVE Step(i, x) \subseteq Level(i)
  <2>1. ASSUME NEW w \in Level(i-1), NEW v \in ThenPerp(w, list[i]) PROVE v \in Level(i)
    <3>1. w \in Book /\ w.chain.counter.last <= start + (i - 1) /\ w.chain.counter.last \in Nat
      BY BookType, SoundType DEF State
    <3>2. w.chain.counter.last < MaxPositions
      BY <3>1, Constants
    <3>3. v \in Book /\ v.chain.counter.last <= w.chain.counter.last + 1
      BY <3>1, <3>2, ExecutePerpKeeps DEF Executed
    <3>4. v.chain.counter.last \in Nat
      BY <3>3, BookType, SoundType DEF State
    <3> QED BY <3>1, <3>3, <3>4
  <2> HIDE DEF Level
  <2> QED BY <1>2, <2>1
<1>3. step \in [1 .. n -> [T -> T]]
  <2>1. \A i \in 1 .. n, x \in T : (IF x \subseteq Level(i-1) THEN Step(i, x) ELSE {}) \in T
    <3>1. \A i : Level(i) \subseteq Book
      OBVIOUS
    <3> HIDE DEF Level, Step
    <3> QED BY <1>2, <3>1
  <2> QED BY <2>1
<1>4. PICK f : Iterates(f, T, S, step, n)
  <2> HIDE DEF T, step
  <2> QED BY <1>1, <1>3, Recursion
<1>5. \A i \in 0 .. n : level[i] = Level(i)
  OBVIOUS
<1>6. \A i \in 1 .. n : i \in 0 .. n /\ i - 1 \in 0 .. n /\ i # 0
  OBVIOUS
<1>7. ASSUME NEW i \in 1 .. n, f[i-1] \subseteq level[i-1]
      PROVE  f[i] = Step(i, f[i-1]) /\ f[i] \subseteq level[i]
  <2>1. f[i] = step[i][f[i-1]] /\ f[i-1] \in T
    BY <1>4, <1>6 DEF Iterates
  <2>2. f[i-1] \subseteq Level(i-1)
    BY <1>5, <1>6, <1>7
  <2>3. f[i] = Step(i, f[i-1])
    <3> HIDE DEF Level, Step, T
    <3> QED BY <2>1, <2>2 DEF step
  <2> HIDE DEF Level, Step
  <2> QED BY <1>2, <1>5, <1>6, <2>2, <2>3
<1> HIDE DEF Level, level, step
<1>8. \A i \in 0 .. n : f[i] \subseteq level[i]
  <2>1. f[0] = S
    BY <1>4 DEF Iterates
  <2> HIDE DEF Step
  <2> QED BY <1>1, <1>7, <2>1, LevelInduction
<1>9. f = [i \in 0 .. n |-> IF i = 0 THEN S ELSE Step(i, f[i-1])]
  <2>1. f \in [0 .. n -> T] /\ f[0] = S
    BY <1>4 DEF Iterates
  <2>2. \A i \in 0 .. n : i # 0 => i \in 1 .. n
    OBVIOUS
  <2> HIDE DEF T, Step
  <2> QED BY <1>6, <1>7, <1>8, <2>1, <2>2
<1> DEFINE H == PerpRun(S, list)
<1>10. H = [i \in 0 .. n |-> IF i = 0 THEN S ELSE Step(i, H[i-1])]
  BY <1>9, Zenon DEF PerpRun
<1> HIDE DEF H, Step, T
<1>11. H[0] \subseteq level[0]
  BY <1>1, <1>10
<1>12. \A i \in 1 .. n : H[i-1] \subseteq level[i-1] => H[i] \subseteq level[i]
  <2>1. \A i \in 1 .. n : H[i] = Step(i, H[i-1])
    BY <1>6, <1>10
  <2> QED BY <1>2, <1>5, <1>6, <2>1
<1>13. \A i \in 0 .. n : H[i] \subseteq level[i]
  BY <1>11, <1>12, LevelInduction
<1>14. H[n] \subseteq level[n]
  BY <1>13
<1> QED BY <1>5, <1>14 DEF H, Level

-----------------------------------------------------------------------------
(***************************************************************************)
(* The steps of x/tradeshield.                                             *)
(***************************************************************************)
Shelf(w) ==
    /\ w.orders \in [Kinds -> [OrderIds -> AnyOrder]]
    /\ w.escrow \in [Kinds -> [OrderIds -> Balances]]
    /\ w.counts \in [Kinds -> Nat] /\ w.queued \in SUBSET OrderIds
    /\ Entries(w)

OrdersInv == PerpInv /\ Shelf(World)

LEMMA WorldInBook ==
  ASSUME OrdersInv
  PROVE  World \in Book /\ World.chain = Chain
<1>1. Chain \in Sound /\ Chain \in State /\ World.chain = Chain
  BY SoundType DEF OrdersInv, PerpInv, World
<1>2. World \in Desk
  BY <1>1 DEF OrdersInv, Shelf, World, Desk
<1> QED BY <1>1, <1>2 DEF OrdersInv, Shelf, Book

LEMMA DeliverWorldKeeps ==
  ASSUME OrdersInv, NEW S, \A w \in S : w \in Book, DeliverWorld(S)
  PROVE  OrdersInv'
<1>1. PICK w \in S : BecomeWorld(w) /\ UNCHANGED <<price, rates, flows, moves, scope>>
  BY DEF DeliverWorld
<1>2. w \in Desk /\ w.chain \in Sound /\ Entries(w) /\ Become(w.chain)
  BY <1>1, BookType DEF BecomeWorld
<1>3. Chain' \in Sound
  BY <1>2, BecomeChain
<1>4. Sound' = Sound /\ Market'
  BY <1>1, SoundUnchanged, MarketUnchanged DEF OrdersInv, PerpInv
<1>5. PerpInv'
  BY <1>1, <1>2, <1>3, <1>4 DEF PerpInv, OrdersInv
<1>6. orders' = w.orders /\ counts' = w.counts /\ escrow' = w.escrow /\ queued' = w.queued
  BY <1>1 DEF BecomeWorld
<1>7. Shelf(World)'
  BY <1>1, <1>2, <1>6, BookType DEF Shelf, World, Entries
<1> QED BY <1>5, <1>7 DEF OrdersInv

LEMMA AppendKeeps ==
  ASSUME NEW w \in Book, NEW kind \in Kinds, w.counts[kind] < MaxOrders,
         NEW order \in OrderOf(kind), NEW v, v = AppendPending(w, kind, order)
  PROVE  v \in Book
<1>1. w \in Desk /\ w.chain \in Sound /\ w.counts \in [Kinds -> Nat]
  BY BookType
<1>2. PICK id : id = w.counts[kind] + 1
  OBVIOUS
<1>3. id \in OrderIds /\ id \in Nat
  <2>1. w.counts[kind] \in Nat /\ MaxOrders \in Nat
    BY <1>1, TradeshieldAssumption
  <2> QED BY <1>2, <2>1 DEF OrderIds
<1>4. PICK O, E, C : /\ O = With(w.orders, kind, id, order)
                     /\ E = With(w.escrow, kind, id, Cost(order))
                     /\ C = [w.counts EXCEPT ![kind] = id]
  OBVIOUS
<1>5. C \in [Kinds -> Nat]
  BY <1>1, <1>3, <1>4
<1>6. v = [w EXCEPT !.counts = C, !.orders = O, !.escrow = E]
  BY <1>1, <1>2, <1>4 DEF AppendPending, With, Desk
<1>7. /\ v.orders = O /\ v.escrow = E /\ v.chain = w.chain
      /\ O \in [Kinds -> [OrderIds -> AnyOrder]] /\ E \in [Kinds -> [OrderIds -> Balances]]
           => v \in Desk
  BY <1>1, <1>5, <1>6 DEF Desk
<1> QED BY <1>1, <1>3, <1>4, <1>7, EntryWritten

LEMMA RetriggerKeeps ==
  ASSUME NEW w \in Book, NEW kind \in Kinds, NEW id \in OrderIds, w.orders[kind][id] # NoOrder,
         NEW trigger \in Nat, NEW v, v = [w EXCEPT !.orders[kind][id].trigger = trigger]
  PROVE  v \in Book
<1>1. w \in Desk /\ w.chain \in Sound /\ Entries(w)
      /\ w.escrow \in [Kinds -> [OrderIds -> Balances]]
  BY BookType
<1>2. PICK o, n : o = w.orders[kind][id] /\ n = [w.orders[kind][id] EXCEPT !.trigger = trigger]
  OBVIOUS
<1>3. n \in OrderOf(kind) /\ Cost(n) = Cost(o)
  <2>1. o \in OrderOf(kind) /\ o # NoOrder
    BY <1>1, <1>2 DEF Entries
  <2>2. CASE kind = "spot"
    <3>1. o \in SpotOrder
      BY <2>1, <2>2 DEF OrderOf
    <3>2. n \in SpotOrder /\ n.type = o.type /\ n.denom = o.denom /\ n.amount = o.amount
      BY <1>2, <3>1 DEF SpotOrder
    <3> QED BY <2>2, <3>2 DEF OrderOf, Cost
  <2>3. CASE kind # "spot" /\ o \in OpenOrder
    <3>1. n \in OpenOrder /\ n.type = o.type /\ n.denom = o.denom /\ n.amount = o.amount
      BY <1>2, <2>3 DEF OpenOrder
    <3> QED BY <2>3, <3>1 DEF OrderOf, Cost
  <2>4. CASE kind # "spot" /\ o \in CloseOrder
    <3>1. n \in CloseOrder /\ n.type = "limitclose" /\ o.type = "limitclose"
      BY <1>2, <2>4 DEF CloseOrder
    <3> QED BY <2>4, <3>1 DEF OrderOf, Cost
  <2> QED BY <2>1, <2>2, <2>3, <2>4 DEF OrderOf
<1>4. PICK O : O = With(w.orders, kind, id, n)
  OBVIOUS
<1>5. v = [w EXCEPT !.orders = O]
  BY <1>1, <1>2, <1>4 DEF With, Desk
<1>6. /\ v.orders = O /\ v.escrow = w.escrow /\ v.chain = w.chain
      /\ O \in [Kinds -> [OrderIds -> AnyOrder]] => v \in Desk
  BY <1>1, <1>5 DEF Desk
<1>7. w.escrow = With(w.escrow, kind, id, Cost(n))
  <2>1. Cost(n) = w.escrow[kind][id]
    BY <1>1, <1>2, <1>3 DEF Entries
  <2>2. [w.escrow[kind] EXCEPT ![id] = w.escrow[kind][id]] = w.escrow[kind]
    BY <1>1
  <2>3. [w.escrow EXCEPT ![kind] = w.escrow[kind]] = w.escrow
    BY <1>1
  <2> QED BY <2>1, <2>2, <2>3 DEF With
<1>8. /\ v.orders = With(w.orders, kind, id, n) /\ v.escrow = With(w.escrow, kind, id, Cost(n))
      /\ v.chain \in Sound
      /\ v.orders \in [Kinds -> [OrderIds -> AnyOrder]] /\ v.escrow \in [Kinds -> [OrderIds -> Balances]]
           => v \in Desk
  <2>1. v.orders = With(w.orders, kind, id, n) /\ v.chain \in Sound
    BY <1>1, <1>4, <1>6
  <2>2. v.escrow = With(w.escrow, kind, id, Cost(n))
    BY <1>6, <1>7, Zenon
  <2>3. v.orders \in [Kinds -> [OrderIds -> AnyOrder]] => v \in Desk
    BY <1>6
  <2> QED BY <2>1, <2>2, <2>3
<1> QED BY <1>3, <1>8, EntryWritten

LEMMA CancelKeeps ==
  ASSUME NEW w \in Book, NEW kind \in Kinds, NEW ids \in SUBSET OrderIds,
         NEW v, v = Cancel(w, kind, ids)
  PROVE  v \in Book
<1>1. w \in Desk /\ w.chain \in Sound /\ Entries(w)
      /\ w.orders \in [Kinds -> [OrderIds -> AnyOrder]]
      /\ w.escrow \in [Kinds -> [OrderIds -> Balances]]
  BY BookType
<1>2. PICK o, e : /\ o = [id \in OrderIds |-> IF id \in ids THEN NoOrder ELSE w.orders[kind][id]]
                  /\ e = [id \in OrderIds |-> IF id \in ids THEN Nothing ELSE w.escrow[kind][id]]
  OBVIOUS
<1>3. o \in [OrderIds -> AnyOrder] /\ e \in [OrderIds -> Balances]
  <2>1. NoOrder \in AnyOrder /\ Nothing \in Balances
    BY DEF AnyOrder, Nothing, Balances
  <2> QED BY <1>1, <1>2, <2>1
<1>4. PICK O, E : O = [w.orders EXCEPT ![kind] = o] /\ E = [w.escrow EXCEPT ![kind] = e]
  OBVIOUS
<1>5. /\ O \in [Kinds -> [OrderIds -> AnyOrder]] /\ O[kind] = o
      /\ E \in [Kinds -> [OrderIds -> Balances]] /\ E[kind] = e
      /\ \A k \in Kinds : k # kind => O[k] = w.orders[k] /\ E[k] = w.escrow[k]
  BY <1>1, <1>3, <1>4
<1>6. v = [w EXCEPT !.orders = O, !.escrow = E]
  BY <1>1, <1>2, <1>4 DEF Cancel, Desk
<1>7. v \in Desk /\ v.orders = O /\ v.escrow = E /\ v.chain = w.chain
  BY <1>1, <1>5, <1>6 DEF Desk
<1>8. ASSUME NEW k \in Kinds, NEW j \in OrderIds
      PROVE  O[k][j] \in OrderOf(k) /\ E[k][j] = Cost(O[k][j])
  <2>1. w.orders[k][j] \in OrderOf(k) /\ w.escrow[k][j] = Cost(w.orders[k][j])
    BY <1>1 DEF Entries
  <2>2. CASE k # kind
    BY <1>5, <2>1, <2>2
  <2>3. CASE k = kind /\ j \in ids
    <3>1. O[k][j] = NoOrder /\ E[k][j] = Nothing
      BY <1>2, <1>5, <2>3
    <3> QED BY <3>1, OrderKinds, CostOfNone
  <2>4. CASE k = kind /\ j \notin ids
    <3>1. O[k][j] = w.orders[k][j] /\ E[k][j] = w.escrow[k][j]
      BY <1>2, <1>5, <2>4
    <3> QED BY <2>1, <3>1
  <2> QED BY <2>2, <2>3, <2>4
<1> QED BY <1>1, <1>7, <1>8 DEF Book, Entries

LEMMA ListLength ==
  ASSUME NEW kind, NEW list \in Lists(kind)
  PROVE  Len(list) \in Nat
<1>1. PICK n \in 0 .. MaxList : list \in [1 .. n -> Pending(World, kind)]
  BY DEF Lists
<1>2. list \in Seq(Pending(World, kind))
  BY <1>1, TradeshieldAssumption
<1> QED BY <1>2

LEMMA ExecuteOrdersKeeps ==
  ASSUME OrdersInv, NEW spot \in Lists("spot"), NEW perp \in Lists("perp"), NEW trial,
         ExecuteOrders(spot, perp, trial)
  PROVE  OrdersInv'
<1>1. Market /\ World \in Book /\ World.chain = Chain /\ Chain.counter = counter
  BY WorldInBook DEF OrdersInv, PerpInv, Chain
<1>2. counter.last \in Nat
  BY <1>1, BookType, SoundType DEF State
<1>3. PICK n, k : n = Len(spot) /\ k = Len(perp)
  OBVIOUS
<1>4. n \in Nat /\ k \in Nat /\ counter.last + k <= MaxPositions
  BY <1>3, ListLength DEF ExecuteOrders
<1>5. PICK S : S = {World}
  OBVIOUS
<1>6. \A w \in S : w \in Book /\ w.chain = Chain
  BY <1>1, <1>5
<1>7. PICK R : R = SpotRun(S, spot, trial)[n]
  OBVIOUS
<1>8. \A w \in R : w \in Book /\ w.chain = Chain
  <2>1. PICK c : c = Chain
    OBVIOUS
  <2>2. n \in Nat /\ n = Len(spot) /\ OnChain(S, c)
    BY <1>3, <1>4, <1>6, <2>1 DEF OnChain
  <2>3. OnChain(R, c)
    BY <1>7, <2>2, SpotRunKeeps
  <2> QED BY <2>1, <2>3 DEF OnChain
<1>9. \A w \in R : w \in Book /\ w.chain.counter.last <= counter.last
  BY <1>1, <1>2, <1>8
<1>10. \A w \in PerpRun(R, perp)[k] : w \in Book
  BY <1>1, <1>2, <1>3, <1>4, <1>9, PerpRunKeeps
<1>11. DeliverWorld(PerpRun(R, perp)[k])
  BY <1>3, <1>5, <1>7 DEF ExecuteOrders, ExecuteAll
<1> QED BY <1>10, <1>11, DeliverWorldKeeps

LEMMA AppendDelivered ==
  ASSUME OrdersInv, NEW kind \in Kinds, NEW order \in OrderOf(kind), counts[kind] < MaxOrders,
         DeliverWorld({AppendPending(World, kind, order)})
  PROVE  OrdersInv'
<1>1. World \in Book /\ World.counts[kind] < MaxOrders
  BY WorldInBook DEF World
<1>2. PICK S : S = {AppendPending(World, kind, order)}
  OBVIOUS
<1>3. \A w \in S : w \in Book
  BY <1>1, <1>2, AppendKeeps
<1> QED BY <1>2, <1>3, DeliverWorldKeeps

LEMMA OrderCreatedKeeps ==
  ASSUME OrdersInv, SpotOrderCreated \/ PerpetualOrderCreated
  PROVE  OrdersInv'
<1>1. CASE SpotOrderCreated
  <2>1. PICK u \in Traders, type \in {"stoploss", "limitsell", "limitbuy"}, d \in Denoms,
             amount \in Collaterals, trigger \in Triggers :
             CreateSpotOrder(u, type, d, amount, trigger)
    BY <1>1 DEF SpotOrderCreated
  <2>2. PICK order : order = [type |-> type, owner |-> u, denom |-> d, amount |-> amount,
                              trigger |-> trigger]
    OBVIOUS
  <2>3. order \in SpotOrder
    <3>1. amount \in Nat \ {0} /\ trigger \in Nat
      BY InputTypes, TradeshieldAssumption
    <3> QED BY <2>2, <3>1 DEF SpotOrder
  <2>4. order \in OrderOf("spot")
    BY <2>3 DEF OrderOf
  <2>5. counts["spot"] < MaxOrders /\ DeliverWorld({AppendPending(World, "spot", order)})
    BY <2>1, <2>2 DEF CreateSpotOrder
  <2> QED BY <2>4, <2>5, OrderKinds, AppendDelivered
<1>2. ASSUME NEW u \in Traders, NEW side \in Sides, NEW d \in Denoms, NEW amount \in Collaterals,
             NEW leverage \in Leverages, NEW takeProfit \in Targets \cup {None},
             NEW trigger \in Triggers,
             CreatePerpetualOpenOrder(u, side, d, amount, leverage, takeProfit, trigger)
      PROVE  OrdersInv'
  <2>1. PICK order : order =
          [type |-> "limitopen", owner |-> u, side |-> side, denom |-> d, amount |-> amount,
           leverage |-> leverage, takeProfit |-> takeProfit, trigger |-> trigger]
    OBVIOUS
  <2>2. order \in OpenOrder
    <3>1. amount \in Nat \ {0} /\ trigger \in Nat /\ leverage \in Nat /\ takeProfit \in Nat
      BY InputTypes, TradeshieldAssumption
    <3> QED BY <2>1, <3>1 DEF OpenOrder
  <2>3. order \in OrderOf("perp")
    BY <2>2, OrderKinds
  <2>4. counts["perp"] < MaxOrders /\ DeliverWorld({AppendPending(World, "perp", order)})
    BY <1>2, <2>1 DEF CreatePerpetualOpenOrder
  <2> QED BY <2>3, <2>4, OrderKinds, AppendDelivered
<1>3. ASSUME NEW id \in open, NEW percentage \in Percentages, NEW trigger \in Triggers,
             CreatePerpetualCloseOrder(id, percentage, trigger)
      PROVE  OrdersInv'
  <2>1. PICK order : order =
          [type |-> "limitclose", owner |-> mtps[id].owner, position |-> id,
           percentage |-> percentage, trigger |-> trigger]
    OBVIOUS
  <2>2. order \in CloseOrder
    <3>1. percentage \in Nat /\ trigger \in Nat
      BY TradeshieldAssumption
    <3>2. id \in Ids /\ mtps[id] \in Position
      BY SoundType DEF OrdersInv, PerpInv, Chain
    <3> QED BY <2>1, <3>1, <3>2 DEF CloseOrder, Position
  <2>3. order \in OrderOf("perp")
    BY <2>2, OrderKinds
  <2>4. counts["perp"] < MaxOrders /\ DeliverWorld({AppendPending(World, "perp", order)})
    BY <1>3, <2>1 DEF CreatePerpetualCloseOrder
  <2> QED BY <2>3, <2>4, OrderKinds, AppendDelivered
<1> QED BY <1>1, <1>2, <1>3 DEF PerpetualOrderCreated

LEMMA UpdateOrderKeeps ==
  ASSUME OrdersInv, NEW kind \in Kinds, NEW id \in OrderIds, NEW trigger \in Triggers,
         UpdateOrder(kind, id, trigger)
  PROVE  OrdersInv'
<1>1. World \in Book /\ World.orders[kind][id] # NoOrder
  BY WorldInBook DEF UpdateOrder, Pending
<1>2. trigger \in Nat
  BY TradeshieldAssumption
<1>3. PICK v : v = [World EXCEPT !.orders[kind][id].trigger = trigger]
  OBVIOUS
<1>4. v \in Book
  BY <1>1, <1>2, <1>3, RetriggerKeeps
<1>5. DeliverWorld({v})
  BY <1>3 DEF UpdateOrder
<1> QED BY <1>4, <1>5, DeliverWorldKeeps

LEMMA CancelOrdersKeeps ==
  ASSUME OrdersInv, NEW u, NEW kind \in Kinds, NEW ids \in SUBSET OrderIds,
         CancelOrders(u, kind, ids)
  PROVE  OrdersInv'
<1>1. PICK v : v = Cancel(World, kind, ids)
  OBVIOUS
<1>2. v \in Book
  BY <1>1, WorldInBook, CancelKeeps
<1>3. DeliverWorld({v})
  BY <1>1 DEF CancelOrders
<1> QED BY <1>2, <1>3, DeliverWorldKeeps

LEMMA OrdersStart == OrdersInit => OrdersInv
<1> SUFFICES ASSUME OrdersInit PROVE OrdersInv
  OBVIOUS
<1>1. PerpInv
  BY PerpInit DEF OrdersInit
<1>2. Nothing \in Balances /\ NoOrder \in AnyOrder
  BY DEF Nothing, Balances, AnyOrder
<1>3. /\ World.orders = [kind \in Kinds |-> [id \in OrderIds |-> NoOrder]]
      /\ World.escrow = [kind \in Kinds |-> [id \in OrderIds |-> Nothing]]
      /\ World.counts = [kind \in Kinds |-> 0] /\ World.queued = {}
  BY DEF OrdersInit, World
<1>4. Entries(World)
  BY <1>3, OrderKinds, CostOfNone DEF Entries
<1> QED BY <1>1, <1>2, <1>3, <1>4 DEF OrdersInv, Shelf

LEMMA OrdersStep == OrdersInv /\ [OrdersNext]_allVars => OrdersInv'
<1> SUFFICES ASSUME OrdersInv, [OrdersNext]_allVars PROVE OrdersInv'
  OBVIOUS
<1>1. ASSUME [Next]_vars, UNCHANGED orderVars PROVE OrdersInv'
  <2>1. PerpInv'
    BY <1>1, PerpStep DEF OrdersInv
  <2>2. Shelf(World)'
    BY <1>1 DEF OrdersInv, Shelf, Entries, World, orderVars, book
  <2> QED BY <2>1, <2>2 DEF OrdersInv
<1>2. CASE UNCHANGED allVars
  BY <1>1, <1>2 DEF allVars
<1>3. CASE Next /\ UNCHANGED orderVars
  BY <1>1, <1>3
<1>4. CASE SpotOrderCreated \/ PerpetualOrderCreated
  BY <1>4, OrderCreatedKeeps
<1>5. CASE AboutOrders
  <2>1. CASE Besides /\ UNCHANGED orderVars
    <3>1. Next
      BY <2>1 DEF Besides, Next
    <3> QED BY <1>1, <2>1, <3>1
  <2>2. CASE ~ (Besides /\ UNCHANGED orderVars)
    BY <1>5, <2>2, UpdateOrderKeeps, CancelOrdersKeeps, ExecuteOrdersKeeps DEF AboutOrders
  <2> QED BY <2>1, <2>2
<1> QED BY <1>2, <1>3, <1>4, <1>5 DEF OrdersNext

(***************************************************************************)
(* The totals follow the positions through lists of orders as well, those  *)
(* of a limit close included that fails when it has settled the position   *)
(* and written what it paid.                                               *)
(***************************************************************************)
THEOREM OrdersKeepTotals == OrdersSpec => []PoolTotals
<1>1. OrdersInit => OrdersInv
  BY OrdersStart
<1>2. OrdersInv /\ [OrdersNext]_allVars => OrdersInv'
  BY OrdersStep
<1>3. OrdersInv => PoolTotals
  BY InvTotals DEF OrdersInv
<1> QED BY <1>1, <1>2, <1>3, PTL DEF OrdersSpec

(***************************************************************************)
(* The address of an order holds what the order spends until it is         *)
(* executed or cancelled, and nothing after, whatever lists it was in.     *)
(***************************************************************************)
THEOREM EscrowsHold == OrdersSpec => []EscrowHoldsOrder
<1>1. OrdersInit => OrdersInv
  BY OrdersStart
<1>2. OrdersInv /\ [OrdersNext]_allVars => OrdersInv'
  BY OrdersStep
<1>3. OrdersInv => EscrowHoldsOrder
  BY DEF OrdersInv, Shelf, Entries, World, EscrowHoldsOrder
<1> QED BY <1>1, <1>2, <1>3, PTL DEF OrdersSpec
=============================================================================
