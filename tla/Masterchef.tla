----------------------------- MODULE Masterchef -----------------------------
(***************************************************************************)
(* x/masterchef: rewards of liquidity providers.  A pool keeps, for every  *)
(* reward denom, what a share has earned since the pool began (acc); an    *)
(* account keeps what its shares had earned when they last changed (debt)  *)
(* and what it has not claimed yet (pending).  x/amm and x/stablestake     *)
(* call the hooks of a deposit or a withdrawal after the committed shares  *)
(* have changed; EndBlocker pays Eden, fees and external incentives.       *)
(*                                                                         *)
(* Earnings per share have units of 1/(OneShare * Prec) coin, what is      *)
(* pending units of 1/Prec coin, as the two decimals of the code have.     *)
(***************************************************************************)
EXTENDS ElysMath, FiniteSets

CONSTANTS
    NumUsers,          \* accounts are numbered
    NumPools,          \* reward pools are numbered
    Vaults,            \* those of x/stablestake; the others are x/amm pools
    UsdcVault,         \* types.UsdcPoolId
    ExternalDenoms,    \* denoms an incentive may pay
    OneShare, Prec,    \* ammtypes.OneShare; the precision of a LegacyDec
    PortionDen,        \* a portion is a number of PortionDen-ths
    LpPortion, StakersPortion,   \* Params.RewardPortionForLps, ...ForStakers
    MaxEden,           \* Eden per unit of proxy TVL that MaxEdenRewardAprLps allows
    BlockRewards,      \* what a block brings, see BlockRewardsType
    ShareAmounts,      \* shares of a deposit or a withdrawal
    IncentiveAmounts,  \* AmountPerBlock of an incentive
    MinAmount,         \* SupportedRewardDenom.MinAmount
    MaxShares,         \* bound: shares of a pool
    MaxIncentives,     \* bound: incentives ever added
    GenesisPools,      \* x/amm pools of the genesis state, with Eden rewards
    MaxMoves,          \* bound: deposits, withdrawals and claims
    MaxDecisions,      \* bound: messages of governance
    MaxHeight          \* bound: last block

Users == 1 .. NumUsers
Pools == 1 .. NumPools
Denoms == {"USDC", "Eden"} \cup ExternalDenoms
Incentives == 1 .. MaxIncentives

BlockRewardsType ==
    [gas : Nat,                  \* gas fees, converted to USDC
     revenue : [Pools -> Nat],   \* USDC on the revenue address of every pool
     eden : Nat,                 \* LmRewards of the inflation schedule, per block
     tvl : [Pools -> Nat]]       \* TVL * Multiplier of every pool

ASSUME MasterchefAssumption ==
    /\ NumUsers \in Nat /\ NumPools \in Nat /\ MaxIncentives \in Nat
    /\ Vaults \subseteq Pools /\ UsdcVault \in Vaults
    /\ OneShare \in Nat \ {0} /\ Prec \in Nat \ {0} /\ PortionDen \in Nat \ {0}
    /\ LpPortion \in Nat /\ StakersPortion \in Nat
    /\ LpPortion + StakersPortion <= PortionDen
    /\ MaxEden \in Nat /\ BlockRewards \subseteq BlockRewardsType
    /\ ShareAmounts \subseteq Nat \ {0} /\ IncentiveAmounts \subseteq Nat \ {0}
    /\ MinAmount \in Nat /\ MaxMoves \in Nat /\ MaxDecisions \in Nat /\ MaxHeight \in Nat
    /\ GenesisPools \subseteq Pools \ Vaults

VARIABLES
    height,            \* block height
    created,           \* pools that exist in x/amm or x/stablestake
    poolInfos,         \* pools with a PoolInfo
    edenOn,            \* PoolInfo.EnableEdenRewards
    listed,            \* PoolInfo.ExternalRewardDenoms
    shares,            \* committed shares, by pool and account
    acc,               \* PoolRewardInfo.PoolAccRewardPerShare
    debt,              \* UserRewardInfo.RewardDebt
    pending,           \* UserRewardInfo.RewardPending
    bank,              \* balances of the module account
    supported,         \* Params.SupportedRewardDenoms
    incentives,        \* the ExternalIncentives ever added, by index
    live,              \* indices of those still in the store
    lastIndex,         \* ExternalIncentiveIndex
    granted,           \* history: earned by the shares held when it was paid
    paid,              \* history: coins claimed
    dust,              \* history: earnings that roundings dropped
    stale,             \* history: ledgers whose debt missed a change of shares
    slots,             \* history: blocks for which an incentive was paid
    moves,             \* history: deposits, withdrawals and claims
    decisions          \* history: messages of governance

poolState == <<created, poolInfos, edenOn, listed>>
ledger == <<acc, debt, pending>>
program == <<supported, incentives, live, lastIndex, slots>>
counts == <<moves, decisions>>
history == <<granted, paid, dust, stale, counts>>
vars == <<height, poolState, shares, ledger, bank, program, history>>

ZeroLedger == [p \in Pools |-> [u \in Users |-> [d \in Denoms |-> 0]]]
NoIncentive == [pool |-> 1, denom |-> "none", from |-> 0, to |-> 0, perBlock |-> 0,
                onTime |-> "no"]

Init ==
    /\ height = 1
    /\ created = GenesisPools /\ poolInfos = GenesisPools /\ edenOn = GenesisPools
    /\ listed = [p \in Pools |-> {}]
    /\ shares = [p \in Pools |-> [u \in Users |-> 0]]
    /\ acc = [p \in Pools |-> [d \in Denoms |-> 0]]
    /\ debt = ZeroLedger /\ pending = ZeroLedger
    /\ bank = [d \in Denoms |-> 0]
    /\ supported = ExternalDenoms /\ live = {} /\ lastIndex = 0
    /\ incentives = [i \in Incentives |-> NoIncentive]
    /\ granted = ZeroLedger /\ paid = ZeroLedger /\ dust = ZeroLedger
    /\ stale = [p \in Pools |-> {}]
    /\ slots = [i \in Incentives |-> 0]
    /\ moves = 0 /\ decisions = 0

-----------------------------------------------------------------------------
(***************************************************************************)
(* Ledgers of an account.                                                  *)
(***************************************************************************)
RewardDenoms(p) ==
    IF p \in poolInfos
    THEN {"USDC"} \cup (IF p \in edenOn THEN {"Eden"} ELSE {}) \cup (listed[p] \ {"Eden"})
    ELSE {}

TotalCommit(p) == Sum(shares[p], NumUsers)

\* Mutant: the balance before a deposit or a withdrawal is not restored.
BalanceNow(p, u, change) == shares[p][u] + change

\* UpdateUserRewardPending and UpdateUserRewardDebt run when the shares have
\* changed; what was earned is earned by the shares there were before.
BalanceBefore(p, u, change) == shares[p][u]

\* Truncated toward zero, as a LegacyDec is.
Quotient(n, d) == IF n >= 0 THEN n \div d ELSE - ((- n) \div d)

\* UserRewardInfo.RewardPending after UpdateUserRewardPending, in finer units.
Earned(p, u, d, change) ==
    OneShare * pending[p][u][d] + acc[p][d] * BalanceBefore(p, u, change) - debt[p][u][d]

DebtAt(p, u, d, balance) == acc[p][d] * balance

\* AfterDeposit, AfterWithdraw: every denom the pool rewards at present.
Settle(p, u, change) ==
    LET balance == shares[p][u] + change IN
    /\ pending' = [pending EXCEPT ![p][u] = [d \in Denoms |->
            IF d \in RewardDenoms(p) THEN Quotient(Earned(p, u, d, change), OneShare)
                                     ELSE pending[p][u][d]]]
    /\ debt' = [debt EXCEPT ![p][u] = [d \in Denoms |->
            IF d \in RewardDenoms(p) THEN DebtAt(p, u, d, balance) ELSE debt[p][u][d]]]
    /\ dust' = [dust EXCEPT ![p][u] = [d \in Denoms |->
            IF d \in RewardDenoms(p)
            THEN dust[p][u][d] + Earned(p, u, d, change)
                 - OneShare * Quotient(Earned(p, u, d, change), OneShare)
            ELSE dust[p][u][d]]]
    /\ stale' = [stale EXCEPT ![p] =
            @ \cup {d \in Denoms \ RewardDenoms(p) : acc[p][d] # 0}]

\* x/amm and x/stablestake: the shares change, then the hook runs.
Deposit(u, p, amount) ==
    /\ moves < MaxMoves /\ moves' = moves + 1
    /\ p \in created /\ TotalCommit(p) + amount <= MaxShares
    /\ shares' = [shares EXCEPT ![p][u] = shares[p][u] + amount]
    /\ Settle(p, u, amount)
    /\ UNCHANGED <<height, poolState, acc, bank, program, granted, paid, decisions>>

\* Mutant: more shares may leave than are committed.
CanDeductAny(u, p, amount) == p \in created

\* Commitments.DeductFromCommitted
CanDeduct(u, p, amount) == p \in created /\ amount <= shares[p][u]

Withdraw(u, p, amount) ==
    /\ moves < MaxMoves /\ moves' = moves + 1
    /\ CanDeduct(u, p, amount)
    /\ shares' = [shares EXCEPT ![p][u] = shares[p][u] - amount]
    /\ Settle(p, u, - amount)
    /\ UNCHANGED <<height, poolState, acc, bank, program, granted, paid, decisions>>

\* What a claim pays of one ledger: whole coins, and only if it is positive.
Claimable(p, u, d) ==
    LET settled == Quotient(Earned(p, u, d, 0), OneShare) IN
    IF d \in RewardDenoms(p) /\ settled > 0 THEN settled \div Prec ELSE 0

ClaimedCoins(u, P, d) ==
    Sum([p \in Pools |-> IF p \in P THEN Claimable(p, u, d) ELSE 0], NumPools)

\* What is left pending; the fraction of a coin is lost.
PendingAfterClaim(p, u, d) ==
    LET settled == Quotient(Earned(p, u, d, 0), OneShare) IN
    IF settled > 0 THEN 0 ELSE settled

\* ClaimRewards: the module account must have the coins, or nothing happens.
ClaimRewards(u, P) ==
    /\ moves < MaxMoves /\ moves' = moves + 1
    /\ \A d \in Denoms : ClaimedCoins(u, P, d) <= bank[d]
    /\ bank' = [d \in Denoms |-> bank[d] - ClaimedCoins(u, P, d)]
    /\ pending' = [p \in Pools |-> [pending[p] EXCEPT ![u] = [d \in Denoms |->
            IF p \in P /\ d \in RewardDenoms(p) THEN PendingAfterClaim(p, u, d)
                                                ELSE pending[p][u][d]]]]
    /\ debt' = [p \in Pools |-> [debt[p] EXCEPT ![u] = [d \in Denoms |->
            IF p \in P /\ d \in RewardDenoms(p) THEN DebtAt(p, u, d, shares[p][u])
                                                ELSE debt[p][u][d]]]]
    /\ paid' = [p \in Pools |-> [paid[p] EXCEPT ![u] = [d \in Denoms |->
            paid[p][u][d] + (IF p \in P THEN Claimable(p, u, d) ELSE 0)]]]
    /\ dust' = [p \in Pools |-> [dust[p] EXCEPT ![u] = [d \in Denoms |->
            IF p \in P /\ d \in RewardDenoms(p)
            THEN dust[p][u][d] + Earned(p, u, d, 0)
                 - OneShare * (Prec * Claimable(p, u, d) + PendingAfterClaim(p, u, d))
            ELSE dust[p][u][d]]]]
    /\ UNCHANGED <<height, poolState, shares, acc, program, granted, stale, decisions>>

-----------------------------------------------------------------------------
(***************************************************************************)
(* Pools and governance.  An x/amm pool gets its PoolInfo when it is       *)
(* created, a vault at the end of the block.  A message that changes       *)
(* nothing is a stuttering step and has no action.                         *)
(***************************************************************************)
CreatePool(p) ==
    /\ p \notin created
    /\ created' = created \cup {p}
    /\ poolInfos' = IF p \in Vaults THEN poolInfos ELSE poolInfos \cup {p}
    /\ UNCHANGED <<height, edenOn, listed, shares, ledger, bank, program, history>>

TogglePoolEdenRewards(p, enable) ==
    /\ decisions < MaxDecisions /\ decisions' = decisions + 1
    /\ p \in poolInfos /\ enable # (p \in edenOn)
    /\ edenOn' = IF enable THEN edenOn \cup {p} ELSE edenOn \ {p}
    /\ UNCHANGED <<height, created, poolInfos, listed, shares, ledger, bank, program,
                   granted, paid, dust, stale, moves>>

AddExternalRewardDenom(d, isSupported) ==
    /\ decisions < MaxDecisions /\ decisions' = decisions + 1
    /\ isSupported # (d \in supported)
    /\ supported' = IF isSupported THEN supported \cup {d} ELSE supported \ {d}
    /\ UNCHANGED <<height, poolState, shares, ledger, bank, incentives, live, lastIndex,
                   slots, granted, paid, dust, stale, moves>>

BlocksFunded(from, to) == to - from

\* The sponsor pays for the whole range at once.  Nothing checks the pool.
AddExternalIncentive(p, d, from, to, perBlock) ==
    /\ lastIndex < MaxIncentives
    /\ from >= height /\ from < to /\ d \in supported
    /\ perBlock * BlocksFunded(from, to) >= MinAmount
    /\ bank' = [bank EXCEPT ![d] = bank[d] + perBlock * BlocksFunded(from, to)]
    /\ lastIndex' = lastIndex + 1
    /\ live' = live \cup {lastIndex + 1}
    /\ incentives' = [incentives EXCEPT ![lastIndex + 1] =
            [pool |-> p, denom |-> d, from |-> from, to |-> to, perBlock |-> perBlock,
             onTime |-> IF p \in created THEN "yes" ELSE "no"]]
    /\ UNCHANGED <<height, poolState, shares, ledger, supported, slots, history>>

-----------------------------------------------------------------------------
(***************************************************************************)
(* EndBlocker.                                                             *)
(***************************************************************************)
\* The pools UpdateLPRewards visits: a USDC vault is added if there is none.
LpPools(b) == {p \in poolInfos \cup {UsdcVault} : p \in created /\ b.tvl[p] > 0}

TotalTVL(b) == Sum([p \in Pools |-> IF p \in LpPools(b) THEN b.tvl[p] ELSE 0], NumPools)
EdenTVL(b) ==
    Sum([p \in Pools |-> IF p \in LpPools(b) \cap edenOn THEN b.tvl[p] ELSE 0], NumPools)

Portion(amount, part) == TruncateInt(amount * part, PortionDen)

\* CollectGasFees sends the whole coins of the providers' part.
GasCollected(b) == Portion(b.gas, LpPortion)

\* CollectDEXRevenue: all the revenue comes in, the stakers' and the protocol's
\* whole coins leave.
RevenueKept(b, p) ==
    IF p \in created \ Vaults
    THEN b.revenue[p] - Portion(b.revenue[p], StakersPortion)
         - Portion(b.revenue[p], PortionDen - LpPortion - StakersPortion)
    ELSE 0

USDCCollected(b) ==
    GasCollected(b) + Sum([p \in Pools |-> RevenueKept(b, p)], NumPools)

\* Mutant: the revenue is paid out before the others' parts are taken.
WholeRevenueFor(b, p) ==
    IF p \in LpPools(b)
    THEN TruncateInt(b.gas * LpPortion * b.tvl[p]
                     + (IF p \in Vaults THEN 0 ELSE b.revenue[p] * PortionDen * TotalTVL(b)),
                     PortionDen * TotalTVL(b))
    ELSE 0

\* The pool's share of the gas fees and the providers' part of its revenue,
\* added up as decimals and truncated once.
USDCFor(b, p) ==
    IF p \in LpPools(b)
    THEN TruncateInt(b.gas * LpPortion * b.tvl[p]
                     + (IF p \in Vaults THEN 0 ELSE b.revenue[p] * LpPortion * TotalTVL(b)),
                     PortionDen * TotalTVL(b))
    ELSE 0

EdenFor(b, p) ==
    IF p \in LpPools(b) \cap edenOn
    THEN MinOf(TruncateInt(b.eden * b.tvl[p], EdenTVL(b)), MaxEden * b.tvl[p])
    ELSE 0

\* Pools with a PoolInfo when external rewards are paid: UpdateAmmStablePoolAPR
\* has given one to every pool.
InfosAtEnd == poolInfos \cup created \cup {UsdcVault}

\* Mutant: the block of the end of the range is not paid.
DueBeforeEnd(i) ==
    /\ i \in live /\ incentives[i].pool \in InfosAtEnd
    /\ incentives[i].from < height /\ height < incentives[i].to

Due(i) ==
    /\ i \in live /\ incentives[i].pool \in InfosAtEnd
    /\ incentives[i].from < height /\ height <= incentives[i].to

Ended(i) == incentives[i].pool \in InfosAtEnd /\ height = incentives[i].to

\* UpdateAccPerShare: nothing, when no share is committed.
PerShare(p, amount) ==
    IF TotalCommit(p) = 0 THEN 0 ELSE TruncateInt(amount * OneShare * Prec, TotalCommit(p))

ExternalPerShare(p, d) ==
    Sum([i \in Incentives |->
            IF Due(i) /\ incentives[i].pool = p /\ incentives[i].denom = d
            THEN PerShare(p, incentives[i].perBlock) ELSE 0], MaxIncentives)

\* What UpdateLPRewards pays to a pool.
PoolReward(b, p, d) ==
    CASE d = "USDC" -> USDCFor(b, p)
      [] d = "Eden" -> EdenFor(b, p)
      [] OTHER -> 0

NewPerShare(b, p, d) == PerShare(p, PoolReward(b, p, d)) + ExternalPerShare(p, d)

EndBlocker(b) ==
    /\ height < MaxHeight /\ height' = height + 1
    /\ acc' = [p \in Pools |-> [d \in Denoms |-> acc[p][d] + NewPerShare(b, p, d)]]
    /\ granted' = [p \in Pools |-> [u \in Users |-> [d \in Denoms |->
            granted[p][u][d] + NewPerShare(b, p, d) * shares[p][u]]]]
    /\ bank' = [bank EXCEPT
            !["USDC"] = bank["USDC"] + USDCCollected(b),
            !["Eden"] = bank["Eden"] + Sum([p \in Pools |-> EdenFor(b, p)], NumPools)]
    /\ poolInfos' = InfosAtEnd
    /\ listed' = [p \in Pools |-> listed[p] \cup
            {incentives[i].denom : i \in {j \in live : Due(j) /\ incentives[j].pool = p}}]
    /\ live' = {i \in live : ~ Ended(i)}
    /\ slots' = [i \in Incentives |-> slots[i] + (IF Due(i) THEN 1 ELSE 0)]
    /\ UNCHANGED <<created, edenOn, shares, debt, pending, supported, incentives, lastIndex,
                   paid, dust, stale, counts>>

Next ==
    \/ \E p \in Pools : CreatePool(p)
    \/ \E u \in Users, p \in Pools, amount \in ShareAmounts : Deposit(u, p, amount)
    \/ \E u \in Users, p \in Pools, amount \in ShareAmounts : Withdraw(u, p, amount)
    \/ \E u \in Users, P \in (SUBSET Pools) \ {{}} : ClaimRewards(u, P)
    \/ \E p \in Pools, enable \in BOOLEAN : TogglePoolEdenRewards(p, enable)
    \/ \E d \in ExternalDenoms, isSupported \in BOOLEAN : AddExternalRewardDenom(d, isSupported)
    \/ \E p \in Pools, d \in ExternalDenoms, from, to \in 1 .. MaxHeight,
          perBlock \in IncentiveAmounts : AddExternalIncentive(p, d, from, to, perBlock)
    \/ \E b \in BlockRewards : EndBlocker(b)

Spec == Init /\ [][Next]_vars

-----------------------------------------------------------------------------
(***************************************************************************)
(* Types.  RewardDebt and PoolAccRewardPerShare are never negative; what   *)
(* is pending may be, in a ledger that missed a change of shares.          *)
(***************************************************************************)
LedgerType(T) == [Pools -> [Users -> [Denoms -> T]]]

TypeOK ==
    /\ height \in Nat
    /\ created \subseteq Pools /\ poolInfos \subseteq Pools /\ edenOn \subseteq Pools
    /\ listed \in [Pools -> SUBSET ExternalDenoms]
    /\ shares \in [Pools -> [Users -> Nat]]
    /\ acc \in [Pools -> [Denoms -> Nat]]
    /\ debt \in LedgerType(Nat) /\ pending \in LedgerType(Int)
    /\ bank \in [Denoms -> Nat]
    /\ supported \subseteq ExternalDenoms
    /\ live \subseteq Incentives /\ lastIndex \in 0 .. MaxIncentives
    /\ incentives \in [Incentives ->
            [pool : Pools, denom : ExternalDenoms \cup {"none"}, from : Nat, to : Nat,
             perBlock : Nat, onTime : {"yes", "no"}]]
    /\ granted \in LedgerType(Nat) /\ paid \in LedgerType(Nat) /\ dust \in LedgerType(Int)
    /\ stale \in [Pools -> SUBSET Denoms]
    /\ slots \in [Incentives -> Nat] /\ moves \in Nat /\ decisions \in Nat

(***************************************************************************)
(* Every reward paid while an account held shares is, to the last unit,    *)
(* claimed, pending, still to be settled, or lost to a rounding; nothing   *)
(* is earned by shares deposited after it was paid, and a withdrawal loses *)
(* nothing.  Ledgers that missed a change of shares are excepted.          *)
(***************************************************************************)
RewardsExact ==
    \A p \in Pools, u \in Users : \A d \in Denoms \ stale[p] :
        OneShare * (Prec * paid[p][u][d] + pending[p][u][d]) + dust[p][u][d]
        + acc[p][d] * shares[p][u] - debt[p][u][d]
        = granted[p][u][d]

\* Blocks an incentive is still to be paid for.
BlocksLeft(i) ==
    IF i \in live /\ height <= incentives[i].to
    THEN incentives[i].to - MaxOf(incentives[i].from, height - 1) ELSE 0

Unspent(d) ==
    Sum([i \in Incentives |->
        IF incentives[i].denom = d THEN incentives[i].perBlock * BlocksLeft(i) ELSE 0],
        MaxIncentives)

ClaimableOfAll(d) ==
    Sum([p \in Pools |-> Sum([u \in Users |-> Claimable(p, u, d)], NumUsers)], NumPools)

(***************************************************************************)
(* The module account has what all accounts may claim and what running     *)
(* incentives still have to pay, so that no order of claims leaves one     *)
(* unpaid, whatever EndBlocker's shares and portions round to.             *)
(***************************************************************************)
ClaimsFunded ==
    \A d \in Denoms :
        (\A p \in Pools : d \notin stale[p]) => ClaimableOfAll(d) + Unspent(d) <= bank[d]

(***************************************************************************)
(* An incentive for a pool that existed when it was added leaves the store *)
(* after it was paid for exactly the blocks its sponsor funded, and until  *)
(* then for every block since its start.                                   *)
(***************************************************************************)
IncentivesRunInFull ==
    \A i \in Incentives : incentives[i].onTime = "yes" =>
        IF i \in live
        THEN /\ height <= incentives[i].to
             /\ slots[i] = MaxOf(0, height - 1 - incentives[i].from)
        ELSE slots[i] = incentives[i].to - incentives[i].from
=============================================================================
