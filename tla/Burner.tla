------------------------------- MODULE Burner -------------------------------
(***************************************************************************)
(* x/burner: coins sent to the zero address are burnt at the end of every  *)
(* epoch of one of the timers.  Composed with Epochs: the burner runs in   *)
(* the hook that the timers' BeginBlocker calls, so a burn is part of the  *)
(* step that ends the epoch.                                               *)
(***************************************************************************)
EXTENDS Epochs, ElysMath

CONSTANTS
    Denoms,            \* bank denoms
    MetaDenoms,        \* the denoms that have bank metadata
    GenesisSupply,     \* supply of each denom, all of it with users
    Amounts,           \* amounts users send to the zero address
    SendHeight,        \* bound: last height at which users send
    EpochIdentifiers   \* what governance may set Params.EpochIdentifier to

ASSUME BurnerAssumption ==
    /\ MetaDenoms \subseteq Denoms
    /\ GenesisSupply \in Nat
    /\ Amounts \subseteq Nat \ {0}
    /\ SendHeight \in Nat

VARIABLES
    zeroBalance,       \* what the zero address holds
    supply,            \* bank supply
    history,           \* types.History: burnt coins, by block height
    epochIdentifier    \* Params.EpochIdentifier

burnerVars == <<epochVars, zeroBalance, supply, history, epochIdentifier>>

NoCoins == [d \in Denoms |-> 0]

BurnerInit ==
    /\ Init
    /\ zeroBalance = NoCoins
    /\ supply = [d \in Denoms |-> GenesisSupply]
    /\ history = [h \in {} |-> NoCoins]
    /\ epochIdentifier \in EpochIdentifiers

(***************************************************************************)
(* BurnTokensForAllDenoms looks at the denoms that have metadata only.     *)
(***************************************************************************)
CoinsToBurn == [d \in Denoms |-> IF d \in MetaDenoms THEN zeroBalance[d] ELSE 0]

\* Mutant: history entries are keyed by the number of the epoch, not the height.
SetHistoryByEpoch(coins) ==
    [k \in DOMAIN history \cup {currentEpoch[epochIdentifier]} |->
        IF k = currentEpoch[epochIdentifier] THEN coins ELSE history[k]]

SetHistory(coins) ==
    [k \in DOMAIN history \cup {height + 1} |-> IF k = height + 1 THEN coins ELSE history[k]]

BurnTokensForAllDenoms ==
    /\ zeroBalance' = [d \in Denoms |-> zeroBalance[d] - CoinsToBurn[d]]
    /\ supply' = [d \in Denoms |-> supply[d] - CoinsToBurn[d]]
    /\ history' = IF CoinsToBurn = NoCoins THEN history ELSE SetHistory(CoinsToBurn)

\* Mutant: the timer's first epoch only.
ShouldBurnTokensOnce(i) == i = epochIdentifier /\ currentEpoch[i] = 1

ShouldBurnTokens(i) == i = epochIdentifier

AfterEpochEnd(ends) ==
    IF \E i \in ends : ShouldBurnTokens(i)
    THEN BurnTokensForAllDenoms
    ELSE UNCHANGED <<zeroBalance, supply, history>>

BurnerBeginBlock(gap) ==
    /\ BeginBlock(gap)
    /\ AfterEpochEnd({i \in Identifiers : ShouldEpochEnd(i, time + gap)})
    /\ UNCHANGED epochIdentifier

\* Any account may send to the zero address.
SendToZero(d, amount) ==
    /\ height <= SendHeight
    /\ zeroBalance[d] + amount <= supply[d]
    /\ zeroBalance' = [zeroBalance EXCEPT ![d] = @ + amount]
    /\ UNCHANGED <<epochVars, supply, history, epochIdentifier>>

UpdateParams(id) ==
    /\ height <= SendHeight
    /\ epochIdentifier' = id
    /\ UNCHANGED <<epochVars, zeroBalance, supply, history>>

BurnerNext ==
    \/ \E gap \in BlockGaps \cup Outages : BurnerBeginBlock(gap)
    \/ \E d \in Denoms, amount \in Amounts : SendToZero(d, amount)
    \/ \E id \in EpochIdentifiers : UpdateParams(id)

BurnerSpec ==
    /\ BurnerInit /\ [][BurnerNext]_burnerVars
    /\ WF_burnerVars(\E gap \in BlockGaps \cup Outages : BurnerBeginBlock(gap))
-----------------------------------------------------------------------------
(***************************************************************************)
(* The history accounts for every coin that ever left the supply, however  *)
(* the timers are configured: no burn overwrites the entry of another.     *)
(***************************************************************************)
Burnt(d) ==
    Sum([h \in 1 .. MaxHeight |-> IF h \in DOMAIN history THEN history[h][d] ELSE 0], MaxHeight)

HistoryComplete == \A d \in Denoms : supply[d] + Burnt(d) = GenesisSupply

(***************************************************************************)
(* Coins with metadata that reach the zero address are burnt in the end,   *)
(* as long as governance names a timer that exists.                        *)
(***************************************************************************)
ZeroAddressEmptied ==
    \A d \in MetaDenoms : zeroBalance[d] > 0 ~> zeroBalance[d] = 0
=============================================================================
