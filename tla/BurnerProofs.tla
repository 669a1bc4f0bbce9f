---------------------------- MODULE BurnerProofs ----------------------------
(***************************************************************************)
(* Proofs about the timers of Epochs and the burner that hangs on one of   *)
(* them, for any set of timers, durations and block times, any denoms and  *)
(* any amounts.  The timers' invariant is inductive once its three         *)
(* parts are taken together: that an epoch is not early is known from the  *)
(* block in which it started, and the first epoch's start time from the    *)
(* timer's start time.                                                     *)
(***************************************************************************)
EXTENDS Burner, ElysMathTheorems

IInv == TypeOK /\ EpochsOnGrid /\ NoEarlyEpoch

(***************************************************************************)
(* The invariant holds at genesis, where no timer counts.                  *)
(***************************************************************************)
LEMMA InitIInv == Init => IInv
BY EpochsAssumption DEF Init, IInv, TypeOK, EpochsOnGrid, NoEarlyEpoch

(***************************************************************************)
(* A block keeps the types.                                                *)
(***************************************************************************)
LEMMA BlockTypes ==
  ASSUME IInv, NEW gap \in BlockGaps \cup Outages, BeginBlock(gap)
  PROVE  TypeOK'
<1> DEFINE t == time + gap
<1>1. /\ gap \in Nat /\ time \in Nat /\ height \in Nat
      /\ startTime \in [Identifiers -> Nat] /\ Duration \in [Identifiers -> Nat \ {0}]
      /\ currentEpoch \in [Identifiers -> Nat] /\ currentEpochStartTime \in [Identifiers -> Nat]
      /\ currentEpochStartHeight \in [Identifiers -> Nat]
      /\ begun \in [Identifiers -> Nat]
  BY EpochsAssumption DEF IInv, TypeOK
<1>2. \A i \in Identifiers : NewEpochNumber(i, t) \in Nat /\ NewEpochStartTime(i, t) \in Nat
  BY <1>1 DEF NewEpochNumber, NewEpochStartTime, EndEpoch
<1>3. epochCountingStarted' \subseteq Identifiers
  BY DEF IInv, TypeOK, BeginBlock
<1>4. time' \in Nat /\ height' \in Nat /\ startTime' \in [Identifiers -> Nat]
  BY <1>1 DEF BeginBlock
<1>5. currentEpoch' \in [Identifiers -> Nat] /\ begun' \in [Identifiers -> Nat]
  BY <1>1, <1>2 DEF BeginBlock
<1>6. currentEpochStartTime' \in [Identifiers -> Nat]
  BY <1>1, <1>2 DEF BeginBlock
<1>7. currentEpochStartHeight' \in [Identifiers -> Nat]
  BY <1>1 DEF BeginBlock
<1> QED BY <1>3, <1>4, <1>5, <1>6, <1>7 DEF TypeOK

(***************************************************************************)
(* A block keeps every timer on its grid, and starts no epoch early: the   *)
(* first epoch starts at the start time, each next one a duration later.   *)
(***************************************************************************)
LEMMA BlockTimer ==
  ASSUME IInv, NEW gap \in BlockGaps \cup Outages, BeginBlock(gap), NEW i \in Identifiers
  PROVE  /\ i \in epochCountingStarted' =>
              /\ currentEpoch'[i] >= 1
              /\ currentEpochStartTime'[i] = startTime'[i] + (currentEpoch'[i] - 1) * Duration[i]
         /\ currentEpoch'[i] >= 1 <=> i \in epochCountingStarted'
         /\ currentEpoch'[i] >= 1 => currentEpochStartTime'[i] <= time'
         /\ currentEpoch'[i] >= 2 => currentEpochStartTime'[i] < time'
         /\ begun'[i] = currentEpoch'[i]
<1> DEFINE t == time + gap
           n == currentEpoch[i]
           s == currentEpochStartTime[i]
           D == Duration[i]
<1>1. /\ gap \in Nat /\ time \in Nat /\ t \in Nat /\ n \in Nat /\ s \in Nat /\ D \in Nat \ {0}
      /\ startTime[i] \in Nat /\ currentEpoch \in [Identifiers -> Nat]
  BY EpochsAssumption DEF IInv, TypeOK
<1>2. /\ n >= 1 <=> i \in epochCountingStarted
      /\ n >= 1 => s <= time
      /\ n >= 2 => s < time
      /\ begun[i] = n
      /\ i \in epochCountingStarted => s = startTime[i] + (n - 1) * D
  BY DEF IInv, EpochsOnGrid, NoEarlyEpoch
<1>3. /\ time' = t /\ startTime'[i] = startTime[i]
      /\ i \in epochCountingStarted' <=>
           i \in epochCountingStarted \/ ShouldInitialEpochStart(i, t)
      /\ currentEpoch'[i] = IF StartsEpoch(i, t) THEN NewEpochNumber(i, t) ELSE n
      /\ currentEpochStartTime'[i] = IF StartsEpoch(i, t) THEN NewEpochStartTime(i, t) ELSE s
      /\ begun'[i] = IF StartsEpoch(i, t) THEN NewEpochNumber(i, t) ELSE begun[i]
  BY DEF BeginBlock
<1>4. CASE ShouldInitialEpochStart(i, t)
  <2>1. /\ currentEpoch'[i] = 1 /\ begun'[i] = 1 /\ currentEpochStartTime'[i] = startTime[i]
        /\ i \in epochCountingStarted' /\ startTime[i] <= t
    BY <1>3, <1>4 DEF StartsEpoch, NewEpochNumber, NewEpochStartTime, ShouldInitialEpochStart
  <2>2. currentEpochStartTime'[i] = startTime'[i] + (currentEpoch'[i] - 1) * Duration[i]
    <3>1. (1 - 1) * D = 0
      BY <1>1
    <3> QED BY <1>1, <1>3, <2>1, <3>1
  <2>3. currentEpoch'[i] >= 1 /\ ~ (currentEpoch'[i] >= 2) /\ begun'[i] = currentEpoch'[i]
    BY <2>1
  <2>4. currentEpochStartTime'[i] <= time'
    BY <1>1, <1>3, <2>1
  <2> QED BY <2>1, <2>2, <2>3, <2>4
<1>5. CASE ~ ShouldInitialEpochStart(i, t) /\ ShouldEpochEnd(i, t)
  <2>1. /\ currentEpoch'[i] = n + 1 /\ begun'[i] = n + 1 /\ currentEpochStartTime'[i] = s + D
        /\ s + D < t /\ startTime[i] <= t
    BY <1>3, <1>5 DEF StartsEpoch, NewEpochNumber, NewEpochStartTime, EndEpoch, ShouldEpochEnd
  <2>2. i \in epochCountingStarted /\ i \in epochCountingStarted'
    BY <1>3, <1>5, <2>1 DEF ShouldInitialEpochStart
  <2>3. s + D = startTime[i] + ((n + 1) - 1) * D
    BY <1>1, <1>2, <2>2
  <2> QED BY <1>1, <1>3, <2>1, <2>2, <2>3
<1>6. CASE ~ StartsEpoch(i, t)
  <2>1. /\ currentEpoch'[i] = n /\ begun'[i] = n /\ currentEpochStartTime'[i] = s
        /\ i \in epochCountingStarted' <=> i \in epochCountingStarted
    BY <1>2, <1>3, <1>6 DEF StartsEpoch
  <2>2. time <= t
    BY <1>1
  <2> QED BY <1>1, <1>2, <1>3, <2>1, <2>2
<1> QED BY <1>4, <1>5, <1>6 DEF StartsEpoch

(***************************************************************************)
(* The timers' invariant holds in every reachable state.                   *)
(***************************************************************************)
LEMMA Invariance == Spec => []IInv
<1>1. Init => IInv
  BY InitIInv
<1>2. IInv /\ [Next]_epochVars => IInv'
  <2> SUFFICES ASSUME IInv, [Next]_epochVars PROVE IInv'
    OBVIOUS
  <2>1. ASSUME NEW gap \in BlockGaps \cup Outages, BeginBlock(gap) PROVE IInv'
    <3>1. TypeOK'
      BY <2>1, BlockTypes
    <3>2. epochCountingStarted' \subseteq Identifiers
      BY <3>1 DEF TypeOK
    <3>3. EpochsOnGrid' /\ NoEarlyEpoch'
      BY <2>1, <3>2, BlockTimer DEF EpochsOnGrid, NoEarlyEpoch
    <3> QED BY <3>1, <3>3 DEF IInv
  <2>2. CASE UNCHANGED epochVars
    BY <2>2 DEF epochVars, clock, infos, IInv, TypeOK, EpochsOnGrid, NoEarlyEpoch
  <2> QED BY <2>1, <2>2 DEF Next
<1> QED BY <1>1, <1>2, PTL DEF Spec

(***************************************************************************)
(* The timers' state is well typed.                                        *)
(***************************************************************************)
THEOREM EpochsTypeCorrect == Spec => []TypeOK
<1>1. IInv => TypeOK
  BY DEF IInv
<1> QED BY <1>1, Invariance, PTL

(***************************************************************************)
(* BeginBlocker never lets a timer drift from its grid, whatever the block *)
(* times and however long the chain was halted.                            *)
(***************************************************************************)
THEOREM EpochsNeverDrift == Spec => []EpochsOnGrid
<1>1. IInv => EpochsOnGrid
  BY DEF IInv
<1> QED BY <1>1, Invariance, PTL

(***************************************************************************)
(* BeginBlocker starts no epoch before a block's time reached it.          *)
(***************************************************************************)
THEOREM EpochsNeverEarly == Spec => []NoEarlyEpoch
<1>1. IInv => NoEarlyEpoch
  BY DEF IInv
<1> QED BY <1>1, Invariance, PTL

-----------------------------------------------------------------------------
(***************************************************************************)
(* The burner implements the timers: BurnerBeginBlock is BeginBlock and    *)
(* what the hook does, and no message touches a timer.                     *)
(***************************************************************************)
LEMMA BurnerStep == [BurnerNext]_burnerVars => [Next]_epochVars
<1> SUFFICES ASSUME [BurnerNext]_burnerVars PROVE [Next]_epochVars
  OBVIOUS
<1>1. ASSUME NEW gap \in BlockGaps \cup Outages, BurnerBeginBlock(gap) PROVE Next
  BY <1>1 DEF BurnerBeginBlock, Next
<1>2. ASSUME NEW d \in Denoms, NEW amount \in Amounts, SendToZero(d, amount)
      PROVE  UNCHANGED epochVars
  BY <1>2 DEF SendToZero
<1>3. ASSUME NEW id \in EpochIdentifiers, UpdateParams(id) PROVE UNCHANGED epochVars
  BY <1>3 DEF UpdateParams
<1>4. CASE UNCHANGED burnerVars
  BY <1>4 DEF burnerVars
<1> QED BY <1>1, <1>2, <1>3, <1>4 DEF BurnerNext

(***************************************************************************)
(* The timers behave with the burner's hook as they do alone: everything   *)
(* proved of Epochs holds in the composition.                              *)
(***************************************************************************)
THEOREM BurnerRunsTimers == BurnerSpec => Spec
<1>1. BurnerInit => Init
  BY DEF BurnerInit
<1> QED BY <1>1, BurnerStep, PTL DEF BurnerSpec, Spec

(***************************************************************************)
(* The timers' state is well typed under the burner.                       *)
(***************************************************************************)
THEOREM BurnerTypeCorrect == BurnerSpec => []TypeOK
BY BurnerRunsTimers, EpochsTypeCorrect, PTL

(***************************************************************************)
(* No burn, and no failure of one, makes a timer drift (BeginBlocker).     *)
(***************************************************************************)
THEOREM BurnerNeverDrifts == BurnerSpec => []EpochsOnGrid
BY BurnerRunsTimers, EpochsNeverDrift, PTL

-----------------------------------------------------------------------------
(***************************************************************************)
(* What has to be known besides: the history has entries of past blocks    *)
(* only, so that SetHistory does not overwrite one; and the zero address   *)
(* has no more than there is, so that BurnCoins does not fail.             *)
(***************************************************************************)
HistoryPast ==
    /\ DOMAIN history \subseteq 1 .. height
    /\ \A h \in DOMAIN history : history[h] \in [Denoms -> Nat]

ZeroAddressCovered ==
    /\ zeroBalance \in [Denoms -> Nat] /\ supply \in [Denoms -> Nat]
    /\ \A d \in Denoms : zeroBalance[d] <= supply[d]

BurnInv ==
    /\ height \in Nat /\ height <= MaxHeight
    /\ HistoryPast /\ ZeroAddressCovered /\ HistoryComplete

\* The burns of a denom, block by block.
BurntAt(d) == [h \in 1 .. MaxHeight |-> IF h \in DOMAIN history THEN history[h][d] ELSE 0]

LEMMA BurntAtType ==
  ASSUME HistoryPast, NEW d \in Denoms
  PROVE  BurntAt(d) \in [1 .. MaxHeight -> Int]
BY DEF HistoryPast, BurntAt

(***************************************************************************)
(* At genesis nothing has been burnt.                                      *)
(***************************************************************************)
LEMMA InitBurnInv == BurnerInit => BurnInv
<1> SUFFICES ASSUME BurnerInit PROVE BurnInv
  OBVIOUS
<1>1. height = 0 /\ MaxHeight \in Nat /\ DOMAIN history = {}
  BY EpochsAssumption DEF BurnerInit, Init
<1>2. zeroBalance = [d \in Denoms |-> 0] /\ supply = [d \in Denoms |-> GenesisSupply]
  BY DEF BurnerInit, NoCoins
<1>3. HistoryPast
  BY <1>1 DEF HistoryPast
<1>4. ZeroAddressCovered
  BY <1>2, BurnerAssumption DEF ZeroAddressCovered
<1>5. ASSUME NEW d \in Denoms PROVE supply[d] + Burnt(d) = GenesisSupply
  <2>1. BurntAt(d) \in [1 .. MaxHeight -> Int] /\ \A h \in 1 .. MaxHeight : BurntAt(d)[h] = 0
    BY <1>1, <1>3, BurntAtType DEF BurntAt
  <2>2. Sum(BurntAt(d), MaxHeight) = 0
    BY <1>1, <2>1, SumZero
  <2> QED BY <1>2, <2>2, BurnerAssumption DEF Burnt, BurntAt
<1> QED BY <1>1, <1>3, <1>4, <1>5 DEF BurnInv, HistoryComplete

(***************************************************************************)
(* BurnTokensForAllDenoms takes from the supply what it writes down.       *)
(***************************************************************************)
LEMMA BurnStep ==
  ASSUME BurnInv, height' = height + 1, height < MaxHeight, BurnTokensForAllDenoms
  PROVE  HistoryPast' /\ ZeroAddressCovered' /\ HistoryComplete'
<1>1. /\ height \in Nat /\ MaxHeight \in Nat /\ height + 1 \in 1 .. MaxHeight
      /\ height + 1 \notin DOMAIN history
      /\ DOMAIN history \subseteq 1 .. height
      /\ \A h \in DOMAIN history : history[h] \in [Denoms -> Nat]
  BY EpochsAssumption DEF BurnInv, HistoryPast
<1>2. zeroBalance \in [Denoms -> Nat] /\ supply \in [Denoms -> Nat]
      /\ \A d \in Denoms : zeroBalance[d] <= supply[d]
  BY DEF BurnInv, ZeroAddressCovered
<1>3. PICK c : c = CoinsToBurn
  OBVIOUS
<1>4. c \in [Denoms -> Nat] /\ \A d \in Denoms : c[d] <= zeroBalance[d]
  BY <1>2, <1>3 DEF CoinsToBurn
<1>5. /\ zeroBalance' = [d \in Denoms |-> zeroBalance[d] - c[d]]
      /\ supply' = [d \in Denoms |-> supply[d] - c[d]]
      /\ history' = IF c = NoCoins THEN history ELSE SetHistory(c)
  BY <1>3 DEF BurnTokensForAllDenoms
<1>6. /\ DOMAIN history' \subseteq DOMAIN history \cup {height + 1}
      /\ \A h \in DOMAIN history : h \in DOMAIN history' /\ history'[h] = history[h]
      /\ height + 1 \in DOMAIN history' => history'[height + 1] = c
      /\ height + 1 \notin DOMAIN history' => c = NoCoins
  <2>1. CASE c = NoCoins
    BY <1>1, <1>5, <2>1
  <2>2. CASE c # NoCoins
    BY <1>1, <1>5, <2>2 DEF SetHistory
  <2> QED BY <2>1, <2>2
<1>7. HistoryPast'
  <2>1. DOMAIN history' \subseteq 1 .. height'
    BY <1>1, <1>6
  <2>2. \A h \in DOMAIN history' : history'[h] \in [Denoms -> Nat]
    BY <1>1, <1>4, <1>6
  <2> QED BY <2>1, <2>2 DEF HistoryPast
<1>8. ZeroAddressCovered'
  <2>1. ASSUME NEW d \in Denoms
        PROVE  /\ zeroBalance'[d] \in Nat /\ supply'[d] \in Nat /\ zeroBalance'[d] <= supply'[d]
    BY <1>2, <1>4, <1>5
  <2>2. zeroBalance' \in [Denoms -> Nat] /\ supply' \in [Denoms -> Nat]
    BY <1>5, <2>1
  <2> QED BY <2>1, <2>2 DEF ZeroAddressCovered
<1>9. ASSUME NEW d \in Denoms PROVE supply'[d] + Burnt(d)' = GenesisSupply
  <2>1. PICK g, h : g = BurntAt(d) /\ h = BurntAt(d)'
    OBVIOUS
  <2>2. g \in [1 .. MaxHeight -> Int]
    BY <2>1, BurntAtType DEF BurnInv
  <2>3. h \in [1 .. MaxHeight -> Int]
    BY <1>7, <2>1 DEF HistoryPast, BurntAt
  <2>4. \A i \in 1 .. MaxHeight : i # height + 1 => h[i] = g[i]
    BY <1>6, <2>1 DEF BurntAt
  <2>5. h[height + 1] = c[d] /\ g[height + 1] = 0
    BY <1>1, <1>6, <2>1 DEF BurntAt, NoCoins
  <2>6. Sum(h, MaxHeight) = Sum(g, MaxHeight) + h[height + 1] - g[height + 1]
    BY <1>1, <2>2, <2>3, <2>4, SumUpdate
  <2>7. Burnt(d) = Sum(g, MaxHeight) /\ Burnt(d)' = Sum(h, MaxHeight)
    BY <2>1 DEF Burnt, BurntAt
  <2>8. Sum(g, MaxHeight) \in Int
    BY <1>1, <2>2, SumInt
  <2>9. supply[d] + Sum(g, MaxHeight) = GenesisSupply
    BY <2>7 DEF BurnInv, HistoryComplete
  <2>10. supply'[d] = supply[d] - c[d] /\ supply[d] \in Nat /\ c[d] \in Nat
    BY <1>2, <1>4, <1>5
  <2> QED BY <2>5, <2>6, <2>7, <2>8, <2>9, <2>10
<1> QED BY <1>7, <1>8, <1>9 DEF HistoryComplete

(***************************************************************************)
(* The ledgers of the burner are not touched.                              *)
(***************************************************************************)
LEMMA BurntKept ==
  ASSUME UNCHANGED <<supply, history>>, HistoryComplete
  PROVE  HistoryComplete'
BY DEF HistoryComplete, Burnt

(***************************************************************************)
(* Every step keeps the burner's invariant.                                *)
(***************************************************************************)
LEMMA BurnInvKept == BurnInv /\ [BurnerNext]_burnerVars => BurnInv'
<1> SUFFICES ASSUME BurnInv, [BurnerNext]_burnerVars PROVE BurnInv'
  OBVIOUS
<1>1. ASSUME NEW gap \in BlockGaps \cup Outages, BurnerBeginBlock(gap) PROVE BurnInv'
  <2>1. height < MaxHeight /\ height' = height + 1 /\ height \in Nat /\ MaxHeight \in Nat
    BY <1>1, EpochsAssumption DEF BurnerBeginBlock, BeginBlock, BurnInv
  <2>2. CASE BurnTokensForAllDenoms
    BY <2>1, <2>2, BurnStep DEF BurnInv
  <2>3. CASE UNCHANGED <<zeroBalance, supply, history>>
    <3>1. HistoryPast' /\ ZeroAddressCovered'
      BY <2>1, <2>3 DEF BurnInv, HistoryPast, ZeroAddressCovered
    <3>2. HistoryComplete'
      BY <2>3, BurntKept DEF BurnInv
    <3> QED BY <2>1, <3>1, <3>2 DEF BurnInv
  <2> QED BY <1>1, <2>2, <2>3 DEF BurnerBeginBlock, AfterEpochEnd
<1>2. ASSUME NEW d \in Denoms, NEW amount \in Amounts, SendToZero(d, amount) PROVE BurnInv'
  <2>1. /\ zeroBalance' = [zeroBalance EXCEPT ![d] = @ + amount]
        /\ zeroBalance[d] + amount <= supply[d] /\ amount \in Nat
        /\ supply' = supply /\ history' = history /\ height' = height
    BY <1>2, BurnerAssumption DEF SendToZero, epochVars, clock
  <2>2. ZeroAddressCovered'
    BY <2>1 DEF BurnInv, ZeroAddressCovered
  <2>3. HistoryPast' /\ HistoryComplete'
    BY <2>1, BurntKept DEF BurnInv, HistoryPast
  <2> QED BY <2>1, <2>2, <2>3 DEF BurnInv
<1>3. ASSUME UNCHANGED <<height, zeroBalance, supply, history>> PROVE BurnInv'
  <2>1. HistoryPast' /\ ZeroAddressCovered'
    BY <1>3 DEF BurnInv, HistoryPast, ZeroAddressCovered
  <2> QED BY <1>3, <2>1, BurntKept DEF BurnInv
<1>4. ASSUME NEW id \in EpochIdentifiers, UpdateParams(id) PROVE BurnInv'
  BY <1>3, <1>4 DEF UpdateParams, epochVars, clock
<1>5. CASE UNCHANGED burnerVars
  BY <1>3, <1>5 DEF burnerVars, epochVars, clock
<1> QED BY <1>1, <1>2, <1>4, <1>5 DEF BurnerNext

(***************************************************************************)
(* The history accounts for every coin that left the supply, for any       *)
(* timers, denoms, amounts and parameters (BurnTokensForAllDenoms).        *)
(***************************************************************************)
THEOREM HistoryCompleteHolds == BurnerSpec => []HistoryComplete
<1>1. BurnInv => HistoryComplete
  BY DEF BurnInv
<1> QED BY <1>1, InitBurnInv, BurnInvKept, PTL DEF BurnerSpec

(***************************************************************************)
(* The zero address never has more of a denom than its supply, so that a   *)
(* burn of its whole balance does not fail.                                *)
(***************************************************************************)
THEOREM ZeroAddressCoveredHolds == BurnerSpec => []ZeroAddressCovered
<1>1. BurnInv => ZeroAddressCovered
  BY DEF BurnInv
<1> QED BY <1>1, InitBurnInv, BurnInvKept, PTL DEF BurnerSpec
=============================================================================
