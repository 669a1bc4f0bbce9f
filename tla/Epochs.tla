------------------------------- MODULE Epochs -------------------------------
(***************************************************************************)
(* The on-chain timers of x/epochs.                                        *)
(*                                                                         *)
(* Every timer counts epochs of a fixed duration from its start time.  The *)
(* timers are looked at once per block, at its beginning: a timer whose    *)
(* epoch is over starts the next one, at most one per block, and tells the *)
(* modules that hooked on to it.  The hooks that do something are composed *)
(* with this module in the modules of their keepers.                       *)
(***************************************************************************)
EXTENDS Integers

CONSTANTS
    Identifiers,     \* the timers
    Duration,        \* [Identifiers -> Nat \ {0}], seconds
    GenesisStart,    \* StartTime of each timer at genesis, 0 if it has none
    GenesisTime,     \* block time of the genesis block
    BlockGaps,       \* seconds between two blocks
    Outages,         \* longer gaps, when the chain was halted
    OutageHeight,    \* bound: last height after which the chain may be halted
    MaxHeight        \* bound: last block height

ASSUME EpochsAssumption ==
    /\ Duration \in [Identifiers -> Nat \ {0}]
    /\ GenesisStart \in [Identifiers -> Nat]
    /\ GenesisTime \in Nat \ {0}
    /\ BlockGaps \subseteq Nat /\ Outages \subseteq Nat
    /\ OutageHeight \in Nat /\ MaxHeight \in Nat

VARIABLES
    time,                     \* ctx.BlockTime(), in seconds
    height,                   \* ctx.BlockHeight()
    startTime,                \* EpochInfo.StartTime
    epochCountingStarted,     \* the timers whose EpochCountingStarted is set
    currentEpoch,             \* EpochInfo.CurrentEpoch
    currentEpochStartTime,    \* EpochInfo.CurrentEpochStartTime
    currentEpochStartHeight,  \* EpochInfo.CurrentEpochStartHeight
    begun                     \* history: number last passed to BeforeEpochStart

clock == <<time, height>>
infos == <<startTime, epochCountingStarted, currentEpoch, currentEpochStartTime,
           currentEpochStartHeight>>
epochVars == <<clock, infos, begun>>

(***************************************************************************)
(* InitGenesis: a timer without a start time starts with the chain.        *)
(***************************************************************************)
Init ==
    /\ time = GenesisTime
    /\ height = 0
    /\ startTime = [i \in Identifiers |->
         IF GenesisStart[i] = 0 THEN GenesisTime ELSE GenesisStart[i]]
    /\ epochCountingStarted = {}
    /\ currentEpoch = [i \in Identifiers |-> 0]
    /\ currentEpochStartTime = [i \in Identifiers |-> 0]
    /\ currentEpochStartHeight = [i \in Identifiers |-> 0]
    /\ begun = [i \in Identifiers |-> 0]

(***************************************************************************)
(* What the BeginBlocker of a block with time t decides for a timer.       *)
(***************************************************************************)
ShouldInitialEpochStart(i, t) ==
    i \notin epochCountingStarted /\ startTime[i] <= t

ShouldEpochEnd(i, t) ==
    /\ t > currentEpochStartTime[i] + Duration[i]
    /\ ~ ShouldInitialEpochStart(i, t)
    /\ startTime[i] <= t

StartsEpoch(i, t) == ShouldInitialEpochStart(i, t) \/ ShouldEpochEnd(i, t)

(***************************************************************************)
(* StartInitialEpoch and EndEpoch.                                         *)
(***************************************************************************)
\* Mutant: the new epoch starts with the block that ends the old one.
EndEpochAtBlock(i, t) == t

\* Mutant: the start time of the epoch is not moved.
EndEpochNotMoved(i, t) == currentEpochStartTime[i]

\* Mutant: the start time is moved the wrong way.
EndEpochBackwards(i, t) == currentEpochStartTime[i] - Duration[i]

EndEpoch(i, t) == currentEpochStartTime[i] + Duration[i]

NewEpochNumber(i, t) ==
    IF ShouldInitialEpochStart(i, t) THEN 1 ELSE currentEpoch[i] + 1

NewEpochStartTime(i, t) ==
    IF ShouldInitialEpochStart(i, t) THEN startTime[i] ELSE EndEpoch(i, t)

(***************************************************************************)
(* BeginBlocker.  EndEpoch precedes the hook: AfterEpochEnd is passed the  *)
(* number that BeforeEpochStart is passed right after it.                  *)
(***************************************************************************)
MayPass(gap) == gap \in BlockGaps \/ (gap \in Outages /\ height <= OutageHeight)

BeginBlock(gap) ==
    LET t == time + gap
    IN  /\ height < MaxHeight
        /\ MayPass(gap)
        /\ time' = t
        /\ height' = height + 1
        /\ epochCountingStarted' =
             epochCountingStarted \cup {i \in Identifiers : ShouldInitialEpochStart(i, t)}
        /\ currentEpoch' = [i \in Identifiers |->
             IF StartsEpoch(i, t) THEN NewEpochNumber(i, t) ELSE currentEpoch[i]]
        /\ currentEpochStartTime' = [i \in Identifiers |->
             IF StartsEpoch(i, t) THEN NewEpochStartTime(i, t) ELSE currentEpochStartTime[i]]
        /\ currentEpochStartHeight' = [i \in Identifiers |->
             IF StartsEpoch(i, t) THEN height + 1 ELSE currentEpochStartHeight[i]]
        /\ begun' = [i \in Identifiers |->
             IF StartsEpoch(i, t) THEN NewEpochNumber(i, t) ELSE begun[i]]
        /\ UNCHANGED startTime

Next == \E gap \in BlockGaps \cup Outages : BeginBlock(gap)

Spec == Init /\ [][Next]_epochVars

(***************************************************************************)
(* Blocks keep coming: the consensus engine proposes the next block as     *)
(* soon as the last one is committed.                                      *)
(***************************************************************************)
FairSpec == Spec /\ WF_epochVars(Next)
-----------------------------------------------------------------------------
(***************************************************************************)
(* Type correctness.                                                       *)
(***************************************************************************)
TypeOK ==
    /\ time \in Nat /\ height \in Nat
    /\ startTime \in [Identifiers -> Nat]
    /\ epochCountingStarted \subseteq Identifiers
    /\ currentEpoch \in [Identifiers -> Nat]
    /\ currentEpochStartTime \in [Identifiers -> Nat]
    /\ currentEpochStartHeight \in [Identifiers -> Nat]
    /\ begun \in [Identifiers -> Nat]

(***************************************************************************)
(* Epochs do not drift: epoch n starts (n - 1) durations after the timer's *)
(* start time, however late the block that starts it comes and however     *)
(* long the chain was halted (EndEpoch).                                   *)
(***************************************************************************)
EpochsOnGrid ==
    \A i \in epochCountingStarted :
        /\ currentEpoch[i] >= 1
        /\ currentEpochStartTime[i] = startTime[i] + (currentEpoch[i] - 1) * Duration[i]

(***************************************************************************)
(* No epoch starts before its time has come: after the first one, strictly *)
(* after it (shouldEpochEnd).  A timer that does not count has told nobody *)
(* of an epoch.                                                            *)
(***************************************************************************)
NoEarlyEpoch ==
    \A i \in Identifiers :
        /\ currentEpoch[i] >= 1 <=> i \in epochCountingStarted
        /\ currentEpoch[i] >= 1 => currentEpochStartTime[i] <= time
        /\ currentEpoch[i] >= 2 => currentEpochStartTime[i] < time
        /\ begun[i] = currentEpoch[i]

(***************************************************************************)
(* After the chain was halted for many epochs, the missed epochs are made  *)
(* up for one per block, until the timer's epoch is the current one again. *)
(***************************************************************************)
Behind(i) == i \in epochCountingStarted /\ time > currentEpochStartTime[i] + Duration[i]

CatchesUp == \A i \in Identifiers : Behind(i) ~> ~ Behind(i)
=============================================================================
