----------------------------- MODULE Commitment -----------------------------
(***************************************************************************)
(* x/commitment with x/estaking: Eden and EdenB are not bank coins, they   *)
(* are figures in an account's Commitments, claimed or committed.  What is *)
(* committed counts as a delegation to a virtual validator, one per denom, *)
(* on which the SDK's distribution module pays rewards; claimed Eden is    *)
(* converted to Elys by vesting; EdenB is burnt in proportion when its     *)
(* owner reduces the Elys or the Eden that earned it.                      *)
(*                                                                         *)
(* The distribution and staking modules are external: a delegation has     *)
(* rewards pending since its starting info was written, and the modules    *)
(* call each other through hooks inside one step.                          *)
(***************************************************************************)
EXTENDS ElysMath, FiniteSets, Sequences

CONSTANTS
    NumUsers,          \* accounts are numbered
    Rewards,           \* amounts that a block may add to a delegation's rewards
    Scopes             \* genesis states and bounds, of which a behaviour has one

\* programEden: every account's RewardProgram.Amount.  users: the accounts that
\* send messages; amounts: those of the messages; vestingInfos: what governance
\* may set the VestingInfo of Eden to.  The others are bounds: rewards paid in
\* a behaviour, Elys delegated by an account, vestings it ever starts, blocks.
ScopeType ==
    [programEden : Nat, users : SUBSET (1 .. NumUsers), amounts : SUBSET (Nat \ {0}),
     vestingInfos : SUBSET [numBlocks : Nat \ {0}, maxVestings : Nat],
     maxRewards : Nat, maxStaked : Nat, maxVests : Nat, maxHeight : Nat]

Users == 1 .. NumUsers
Denoms == {"Eden", "EdenB"}
Validators == Denoms \cup {"Elys"}      \* "Elys": the ordinary validators

ASSUME CommitmentAssumption ==
    /\ NumUsers \in Nat /\ Rewards \subseteq Nat \ {0}
    /\ Scopes \subseteq ScopeType

VARIABLES
    scope,             \* the behaviour's element of Scopes
    height,            \* block height
    claimed,           \* Commitments.Claimed of every account
    committed,         \* Commitments.CommittedTokens of every account
    vestings,          \* Commitments.VestingTokens of every account
    totalCommitted,    \* Params.TotalCommitted
    vestingInfo,       \* Params.VestingInfos[Eden]
    enableVestNow,     \* Params.EnableVestNow
    totalSupply,       \* types.TotalSupply
    programClaimed,    \* accounts whose RewardProgram.Claimed is set
    staked,            \* Elys delegated, CalcDelegationAmount
    snapshot,          \* types.ElysStaked: staked when it was last looked at
    stakeChange,       \* accounts in the ElysStakeChange store
    startingInfo,      \* distribution: accounts with a DelegatorStartingInfo
    pending,           \* distribution: rewards of every delegation
    minted,            \* history: Eden and EdenB minted
    burnt,             \* history: EdenB burnt
    grants,            \* history: vestings started, by account
    cancelled,         \* history: Eden taken back by CancelVest, by account
    paid,              \* history: Elys paid by ClaimVesting, by account
    vestedNow          \* history: Eden converted by VestNow

ledger == <<claimed, committed, totalCommitted>>
conversion == <<vestings, grants, cancelled, paid, vestedNow>>
stakes == <<staked, snapshot, stakeChange>>
distribution == <<startingInfo, pending>>
settings == <<vestingInfo, enableVestNow, programClaimed>>
vars == <<scope, height, ledger, conversion, stakes, distribution, settings, totalSupply,
          minted, burnt>>

NoCoins == [d \in Denoms |-> 0]
Zeros == [u \in Users |-> 0]

Init ==
    /\ scope \in Scopes
    /\ height = 1
    /\ claimed = [u \in Users |-> NoCoins]
    /\ committed = [u \in Users |-> NoCoins]
    /\ vestings = [u \in Users |-> <<>>]
    /\ totalCommitted = NoCoins
    /\ vestingInfo \in scope.vestingInfos /\ enableVestNow = FALSE
    /\ totalSupply = [Eden |-> 0, EdenB |-> 0, vested |-> 0]
    /\ programClaimed = {}
    /\ staked = Zeros /\ snapshot = Zeros /\ stakeChange = {}
    /\ startingInfo = [v \in Validators |-> {}]
    /\ pending = [v \in Validators |-> [u \in Users |-> NoCoins]]
    /\ minted = NoCoins /\ burnt = 0
    /\ grants = [u \in Users |-> <<>>]
    /\ cancelled = Zeros /\ paid = Zeros /\ vestedNow = 0

-----------------------------------------------------------------------------
(***************************************************************************)
(* Delegations and rewards.                                                *)
(***************************************************************************)
HasDelegation(u, v) == IF v = "Elys" THEN staked[u] > 0 ELSE committed[u][v] > 0

Plus(a, b) == [d \in Denoms |-> a[d] + b[d]]

\* What withdrawing from the validators of V adds to the account's claims.
PendingOf(u, V) ==
    [d \in Denoms |-> (IF "Elys" \in V THEN pending["Elys"][u][d] ELSE 0)
                    + (IF "Eden" \in V THEN pending["Eden"][u][d] ELSE 0)
                    + (IF "EdenB" \in V THEN pending["EdenB"][u][d] ELSE 0)]

PendingCleared(S, V) ==
    [v \in Validators |-> [u \in Users |->
        IF v \in V /\ u \in S THEN NoCoins ELSE pending[v][u]]]

\* WithdrawDelegationRewards fails on a delegation without starting info.
CanWithdraw(u, V) == \A v \in V : HasDelegation(u, v) => u \in startingInfo[v]

\* Mutant: nobody writes the starting info again.
InfoDropped(u, v, left) == [startingInfo EXCEPT ![v] = @ \ {u}]

\* BeforeDelegationSharesModified withdraws and drops the starting info,
\* AfterDelegationModified writes it again if there is a delegation left.
InfoAfter(u, v, left) ==
    IF left > 0 THEN [startingInfo EXCEPT ![v] = @ \cup {u}]
                ELSE [startingInfo EXCEPT ![v] = @ \ {u}]

WithdrawReward(u, v) ==
    /\ HasDelegation(u, v) /\ CanWithdraw(u, {v})
    /\ claimed' = [claimed EXCEPT ![u] = Plus(@, PendingOf(u, {v}))]
    /\ pending' = PendingCleared({u}, {v})
    /\ UNCHANGED <<height, committed, totalCommitted, conversion, stakes, startingInfo,
                   settings, totalSupply, minted, burnt>>

WithdrawAllRewards(u) ==
    /\ CanWithdraw(u, Validators)
    /\ claimed' = [claimed EXCEPT ![u] = Plus(@, PendingOf(u, Validators))]
    /\ pending' = PendingCleared({u}, Validators)
    /\ UNCHANGED <<height, committed, totalCommitted, conversion, stakes, startingInfo,
                   settings, totalSupply, minted, burnt>>

-----------------------------------------------------------------------------
(***************************************************************************)
(* BurnEdenBoost takes the amount from the claims first, then from what is *)
(* committed.  Params.TotalCommitted is not reduced.                       *)
(***************************************************************************)
\* Mutant: more is taken from the claims than there is.
BurnUnbounded(have, amount) == amount

BurnClaimed(have, amount) == MinOf(have, amount)
BurnCommitted(u, have, amount) == MinOf(committed[u]["EdenB"], amount - MinOf(have, amount))

-----------------------------------------------------------------------------
(***************************************************************************)
(* CommitClaimedRewards (also Stake of Eden or EdenB).  The Commitments    *)
(* are read before the hook: what BeforeEdenCommitChange withdraws into    *)
(* the account's claims is overwritten when they are written back.         *)
(***************************************************************************)
\* Mutant: what is committed stays claimed.
ClaimsKept(u, d, amount) == claimed[u][d]

ClaimsAfterCommit(u, d, amount) == claimed[u][d] - amount

CommitClaimedRewards(u, d, amount) ==
    /\ committed[u][d] > 0 => CanWithdraw(u, {d})
    /\ amount <= claimed[u][d]
    /\ totalCommitted' = [totalCommitted EXCEPT ![d] = @ + amount]
    /\ claimed' = [claimed EXCEPT ![u][d] = ClaimsAfterCommit(u, d, amount)]
    /\ committed' = [committed EXCEPT ![u][d] = committed[u][d] + amount]
    /\ pending' = PendingCleared({u}, {d})
    /\ startingInfo' = InfoAfter(u, d, committed[u][d] + amount)
    /\ stakeChange' = stakeChange \cup {u}
    /\ UNCHANGED <<height, conversion, staked, snapshot, settings, totalSupply, minted,
                   burnt>>

-----------------------------------------------------------------------------
(***************************************************************************)
(* UncommitTokens of EdenB and of Eden (also Unstake).  The Commitments    *)
(* are read before the hook, here too.  Uncommitting Eden then withdraws   *)
(* the rewards of the other delegations and burns EdenB.                   *)
(***************************************************************************)
\* Mutant: what is uncommitted stays in the virtual validator's tokens.
TotalKept(d, amount) == totalCommitted

TotalAfterUncommit(d, amount) == [totalCommitted EXCEPT ![d] = @ - amount]

UncommitEdenB(u, amount) ==
    /\ amount <= committed[u]["EdenB"] /\ CanWithdraw(u, {"EdenB"})
    /\ claimed' = [claimed EXCEPT ![u]["EdenB"] = claimed[u]["EdenB"] + amount]
    /\ committed' = [committed EXCEPT ![u]["EdenB"] = committed[u]["EdenB"] - amount]
    /\ totalCommitted' = TotalAfterUncommit("EdenB", amount)
    /\ pending' = PendingCleared({u}, {"EdenB"})
    /\ startingInfo' = InfoAfter(u, "EdenB", committed[u]["EdenB"] - amount)
    /\ stakeChange' = stakeChange \cup {u}
    /\ UNCHANGED <<height, conversion, staked, snapshot, settings, totalSupply, minted,
                   burnt>>

UncommitEden(u, amount) ==
    LET rest == PendingOf(u, {"EdenB", "Elys"})
        claims == claimed[u]["EdenB"] + rest["EdenB"]
        left == committed[u]["Eden"] - amount
        all == committed[u]["Eden"] + snapshot[u]
    IN  /\ amount <= committed[u]["Eden"] /\ CanWithdraw(u, Validators)
        /\ \E burn \in TruncatedPart(committed[u]["EdenB"] + claims, amount, all) :
              LET stillEdenB == committed[u]["EdenB"] - BurnCommitted(u, claims, burn) IN
              /\ claimed' = [claimed EXCEPT
                    ![u] = [Eden |-> claimed[u]["Eden"] + amount + rest["Eden"],
                            EdenB |-> claims - BurnClaimed(claims, burn)]]
              /\ committed' = [committed EXCEPT ![u] = [Eden |-> left, EdenB |-> stillEdenB]]
              /\ startingInfo' = [InfoAfter(u, "Eden", left) EXCEPT
                    !["EdenB"] = IF stillEdenB > 0 THEN @ ELSE @ \ {u}]
              /\ burnt' = burnt + BurnClaimed(claims, burn) + BurnCommitted(u, claims, burn)
              /\ totalSupply' = [totalSupply EXCEPT !["EdenB"] =
                    @ - BurnClaimed(claims, burn) - BurnCommitted(u, claims, burn)]
        /\ totalCommitted' = TotalAfterUncommit("Eden", amount)
        /\ pending' = PendingCleared({u}, Validators)
        /\ stakeChange' = stakeChange \cup {u}
        /\ UNCHANGED <<height, conversion, staked, snapshot, settings, minted>>

-----------------------------------------------------------------------------
(***************************************************************************)
(* Delegating and undelegating Elys, in the SDK's staking module; the      *)
(* distribution module's hooks withdraw first, estaking's hooks mark the   *)
(* account.                                                                *)
(***************************************************************************)
DelegationChanges(u, newStake) ==
    /\ CanWithdraw(u, {"Elys"})
    /\ staked' = [staked EXCEPT ![u] = newStake]
    /\ claimed' = [claimed EXCEPT ![u] = Plus(@, PendingOf(u, {"Elys"}))]
    /\ pending' = PendingCleared({u}, {"Elys"})
    /\ startingInfo' = InfoAfter(u, "Elys", newStake)
    /\ stakeChange' = stakeChange \cup {u}
    /\ UNCHANGED <<height, committed, totalCommitted, conversion, snapshot, settings,
                   totalSupply, minted, burnt>>

Delegate(u, amount) ==
    staked[u] + amount <= scope.maxStaked /\ DelegationChanges(u, staked[u] + amount)

Undelegate(u, amount) == amount <= staked[u] /\ DelegationChanges(u, staked[u] - amount)

-----------------------------------------------------------------------------
(***************************************************************************)
(* Vesting of Eden into Elys.                                              *)
(***************************************************************************)
VestedSoFar(vesting) ==
    (vesting.total * MinOf(height - vesting.start, vesting.num)) \div vesting.num

Remaining(vesting) == vesting.total - vesting.claimed

SumOver(s, F(_)) == Sum([i \in 1 .. Len(s) |-> F(s[i])], Len(s))

\* The elements of s at the indices of K, in their order.
KeptUpTo(s, K) ==
    LET f[i \in 0 .. Len(s)] ==
          IF i = 0 THEN <<>> ELSE IF i \in K THEN Append(f[i - 1], s[i]) ELSE f[i - 1]
    IN  f

Kept(s, K) == KeptUpTo(s, K)[Len(s)]

\* The account's vestings after ClaimVesting, the finished ones dropped.
AfterClaim(s) ==
    LET claims == [i \in 1 .. Len(s) |-> [s[i] EXCEPT !.claimed = VestedSoFar(s[i])]]
    IN  Kept(claims, {i \in 1 .. Len(s) : claims[i].claimed # claims[i].total})

\* Mutant: what was claimed before is paid again.
ClaimableAgain(s) == SumOver(s, VestedSoFar)

ClaimableOf(s) ==
    LET Claimable(vesting) == VestedSoFar(vesting) - vesting.claimed IN SumOver(s, Claimable)

\* VestedSoFar divides by the number of blocks.
CanClaim(s) == \A i \in 1 .. Len(s) : s[i].num > 0

ClaimVesting(u) ==
    /\ vestings[u] # <<>> /\ CanClaim(vestings[u])
    /\ vestings' = [vestings EXCEPT ![u] = AfterClaim(vestings[u])]
    /\ paid' = [paid EXCEPT ![u] = @ + ClaimableOf(vestings[u])]
    /\ UNCHANGED <<height, ledger, grants, cancelled, vestedNow, stakes, distribution,
                   settings, totalSupply, minted, burnt>>

\* ProcessTokenVesting.
Vest(u, amount) ==
    /\ Len(grants[u]) < scope.maxVests
    /\ Len(vestings[u]) < vestingInfo.maxVestings
    /\ amount <= claimed[u]["Eden"]
    /\ claimed' = [claimed EXCEPT ![u]["Eden"] = @ - amount]
    /\ vestings' = [vestings EXCEPT ![u] = Append(@,
          [total |-> amount, claimed |-> 0, start |-> height, num |-> vestingInfo.numBlocks])]
    /\ grants' = [grants EXCEPT ![u] = Append(@,
          [total |-> amount, start |-> height, num |-> vestingInfo.numBlocks])]
    /\ totalSupply' = [totalSupply EXCEPT !["Eden"] = @ - amount, !.vested = @ + amount]
    /\ UNCHANGED <<height, committed, totalCommitted, cancelled, paid, vestedNow, stakes,
                   distribution, settings, minted, burnt>>

\* Mutant: one block too many is counted.
ShortenedNum(vesting) == MaxOf(1, vesting.num - (height - vesting.start) - 1)

RemainingNum(vesting) == MaxOf(0, vesting.num - (height - vesting.start))

(***************************************************************************)
(* CancelVest: claims first, so what is left of a vesting is what has not  *)
(* vested; takes the amount from the youngest vesting first; restarts all  *)
(* of them with the blocks that are left.                                  *)
(***************************************************************************)
CancelledOf(open, amount) ==
    LET Younger(i) == Sum([j \in 1 .. Len(open) |-> IF j > i THEN Remaining(open[j]) ELSE 0],
                          Len(open))
    IN  [i \in 1 .. Len(open) |-> MinOf(MaxOf(0, amount - Younger(i)), Remaining(open[i]))]

Restarted(open, cancels) ==
    LET restarted == [i \in 1 .. Len(open) |->
            [total |-> Remaining(open[i]) - cancels[i], claimed |-> 0, start |-> height,
             num |-> RemainingNum(open[i])]]
    IN  Kept(restarted, {i \in 1 .. Len(open) : restarted[i].total > 0})

CancelVest(u, amount) ==
    LET open == AfterClaim(vestings[u])
        cancels == CancelledOf(open, amount)
        total == Sum(cancels, Len(open))
    IN  /\ CanClaim(vestings[u])
        /\ total > 0
        /\ vestings' = [vestings EXCEPT ![u] = Restarted(open, cancels)]
        /\ paid' = [paid EXCEPT ![u] = @ + ClaimableOf(vestings[u])]
        /\ claimed' = [claimed EXCEPT ![u]["Eden"] = @ + total]
        /\ cancelled' = [cancelled EXCEPT ![u] = @ + total]
        /\ totalSupply' = [totalSupply EXCEPT !["Eden"] = @ + total, !.vested = @ - total]
        /\ UNCHANGED <<height, committed, totalCommitted, grants, vestedNow, stakes,
                       distribution, settings, minted, burnt>>

\* VestNow; the Elys it pays, amount \div factor, do not come back.
VestNow(u, amount) ==
    /\ enableVestNow
    /\ amount <= claimed[u]["Eden"]
    /\ claimed' = [claimed EXCEPT ![u]["Eden"] = @ - amount]
    /\ vestedNow' = vestedNow + amount
    /\ totalSupply' = [totalSupply EXCEPT !["Eden"] = @ - amount, !.vested = @ + amount]
    /\ UNCHANGED <<height, committed, totalCommitted, vestings, grants, cancelled, paid,
                   stakes, distribution, settings, minted, burnt>>

-----------------------------------------------------------------------------
(***************************************************************************)
(* ClaimRewardProgram mints the account's Eden.  MintCoins drops the coins *)
(* that AddEdenEdenBOnModule adds up, and totalSupply stays as it was.     *)
(***************************************************************************)
ClaimRewardProgram(u) ==
    /\ scope.programEden > 0 /\ u \notin programClaimed
    /\ programClaimed' = programClaimed \cup {u}
    /\ claimed' = [claimed EXCEPT ![u]["Eden"] = @ + scope.programEden]
    /\ minted' = [minted EXCEPT !["Eden"] = @ + scope.programEden]
    /\ UNCHANGED <<height, committed, totalCommitted, conversion, stakes, distribution,
                   vestingInfo, enableVestNow, totalSupply, burnt>>

UpdateVestingInfo(info) ==
    /\ vestingInfo' = info
    /\ UNCHANGED <<height, ledger, conversion, stakes, distribution, enableVestNow,
                   programClaimed, totalSupply, minted, burnt>>

UpdateEnableVestNow ==
    /\ enableVestNow' = ~enableVestNow
    /\ UNCHANGED <<height, ledger, conversion, stakes, distribution, vestingInfo,
                   programClaimed, totalSupply, minted, burnt>>

-----------------------------------------------------------------------------
(***************************************************************************)
(* The end of a block and the beginning of the next.  estaking's EndBlocker *)
(* mints the rewards and burns the EdenB of the marked accounts that have  *)
(* less Elys delegated than at their snapshot (their EdenB is read before  *)
(* their rewards are withdrawn); the distribution module allocates at most *)
(* one reward per block here, to any delegation.                           *)
(***************************************************************************)
\* Mutant: the difference from the snapshot is taken without its sign.
BurnOnAnyChange(u) ==
    IF u \in stakeChange /\ snapshot[u] > 0
    THEN TruncatedPart(committed[u]["EdenB"] + claimed[u]["EdenB"],
                       MaxOf(snapshot[u], staked[u]) - MinOf(snapshot[u], staked[u]),
                       committed[u]["Eden"] + snapshot[u])
    ELSE {0}

TakeDelegationSnapshot ==
    [u \in Users |-> IF u \in stakeChange THEN staked[u] ELSE snapshot[u]]

Reduced == {u \in stakeChange : staked[u] < snapshot[u]}

BurnAmounts(u) ==
    IF u \in Reduced
    THEN TruncatedPart(committed[u]["EdenB"] + claimed[u]["EdenB"], snapshot[u] - staked[u],
                       committed[u]["Eden"] + snapshot[u])
    ELSE {0}

BurnEdenBIfElysStakingReduced(burn) ==
    LET claims(u) == IF u \in Reduced THEN Plus(claimed[u], PendingOf(u, Validators))
                                      ELSE claimed[u]
        fromClaims(u) == BurnClaimed(claims(u)["EdenB"], burn[u])
        fromCommitted(u) == BurnCommitted(u, claims(u)["EdenB"], burn[u])
        total == Sum([u \in Users |-> fromClaims(u) + fromCommitted(u)], NumUsers)
    IN  /\ \A u \in Reduced : CanWithdraw(u, Validators)
        /\ claimed' = [u \in Users |-> [claims(u) EXCEPT !["EdenB"] = @ - fromClaims(u)]]
        /\ committed' = [u \in Users |-> [committed[u] EXCEPT !["EdenB"] = @ - fromCommitted(u)]]
        /\ startingInfo' = [startingInfo EXCEPT !["EdenB"] =
              {u \in @ : committed[u]["EdenB"] > fromCommitted(u)}]
        /\ snapshot' = TakeDelegationSnapshot
        /\ stakeChange' = {}
        /\ burnt' = burnt + total
        /\ totalSupply' = [totalSupply EXCEPT !["EdenB"] = @ - total]

RewardsSoFar == minted["Eden"] + minted["EdenB"] - scope.programEden * Cardinality(programClaimed)

NextBlock ==
    /\ height < scope.maxHeight
    /\ height' = height + 1
    /\ \E burn \in [Users -> UNION {BurnAmounts(u) : u \in Users}] :
          /\ \A u \in Users : burn[u] \in BurnAmounts(u)
          /\ BurnEdenBIfElysStakingReduced(burn)
    /\ \/ pending' = PendingCleared(Reduced, Validators) /\ minted' = minted
       \/ \E v \in Validators, d \in Denoms, x \in Rewards : \E u \in startingInfo'[v] :
             /\ RewardsSoFar + x <= scope.maxRewards
             /\ pending' = [PendingCleared(Reduced, Validators) EXCEPT ![v][u][d] = @ + x]
             /\ minted' = [minted EXCEPT ![d] = @ + x]
    /\ UNCHANGED <<totalCommitted, conversion, staked, settings>>

-----------------------------------------------------------------------------
UserNext(u) ==
    \/ WithdrawAllRewards(u) \/ ClaimVesting(u) \/ ClaimRewardProgram(u)
    \/ \E v \in Validators : WithdrawReward(u, v)
    \/ \E amount \in scope.amounts :
          \/ \E d \in Denoms : CommitClaimedRewards(u, d, amount)
          \/ UncommitEden(u, amount) \/ UncommitEdenB(u, amount)
          \/ Delegate(u, amount) \/ Undelegate(u, amount)
          \/ Vest(u, amount) \/ CancelVest(u, amount) \/ VestNow(u, amount)

Next ==
    /\ \/ \E u \in scope.users : UserNext(u)
       \/ \E info \in scope.vestingInfos : UpdateVestingInfo(info)
       \/ UpdateEnableVestNow
       \/ NextBlock
    /\ UNCHANGED scope

Spec == Init /\ [][Next]_vars

-----------------------------------------------------------------------------
(***************************************************************************)
(* What must hold.                                                         *)
(***************************************************************************)
TypeOK ==
    /\ height \in Nat /\ burnt \in Nat /\ vestedNow \in Nat
    /\ claimed \in [Users -> [Denoms -> Nat]] /\ committed \in [Users -> [Denoms -> Nat]]
    /\ totalCommitted \in [Denoms -> Nat] /\ minted \in [Denoms -> Nat]
    /\ totalSupply \in [{"Eden", "EdenB", "vested"} -> Int]
    /\ vestingInfo \in scope.vestingInfos /\ enableVestNow \in BOOLEAN
    /\ programClaimed \subseteq Users /\ stakeChange \subseteq Users
    /\ staked \in [Users -> Nat] /\ snapshot \in [Users -> Nat]
    /\ startingInfo \in [Validators -> SUBSET Users]
    /\ pending \in [Validators -> [Users -> [Denoms -> Nat]]]
    /\ cancelled \in [Users -> Nat] /\ paid \in [Users -> Nat]
    /\ \A u \in Users : \A i \in 1 .. Len(vestings[u]) :
          /\ vestings[u][i].start \in 1 .. height /\ vestings[u][i].num > 0
          /\ vestings[u][i].claimed \in 0 .. VestedSoFar(vestings[u][i])

TotalOf(ledgerOf, d) == Sum([u \in Users |-> ledgerOf[u][d]], NumUsers)

\* The virtual validators have the tokens of their delegations: exactly for
\* Eden; for EdenB at least, because burns are not taken off
\* (Params.TotalCommitted, GetEdenValidator, GetEdenBValidator).
TotalsCoverCommitments ==
    /\ totalCommitted["Eden"] = TotalOf(committed, "Eden")
    /\ totalCommitted["EdenB"] >= TotalOf(committed, "EdenB")

\* A delegation, virtual or not, has a starting info in the distribution
\* module exactly while it exists: WithdrawAllRewards fails otherwise, also in
\* EndBlocker, where it stops the chain.
DelegationsCanWithdraw ==
    \A u \in Users, v \in Validators : u \in startingInfo[v] <=> HasDelegation(u, v)

PendingTotal(d) ==
    Sum([u \in Users |-> PendingOf(u, Validators)[d]], NumUsers)

VestingLeft(u) == SumOver(vestings[u], Remaining)

EdenKnown ==
    TotalOf(claimed, "Eden") + TotalOf(committed, "Eden") + PendingTotal("Eden")
        + Sum([u \in Users |-> VestingLeft(u) + paid[u]], NumUsers) + vestedNow

EdenBKnown ==
    TotalOf(claimed, "EdenB") + TotalOf(committed, "EdenB") + PendingTotal("EdenB") + burnt

\* No message, hook or block makes Eden or EdenB out of nothing: what is held,
\* owed, vesting, paid out or burnt was minted.
NothingFromNothing == EdenKnown <= minted["Eden"] /\ EdenBKnown <= minted["EdenB"]

GrantTotal(u) == LET Total(grant) == grant.total IN SumOver(grants[u], Total)

\* What went into vesting was paid, taken back, or is still vesting.
VestingConserved ==
    \A u \in Users : GrantTotal(u) = paid[u] + cancelled[u] + VestingLeft(u)

\* However claims and cancellations are interleaved, nobody is paid faster
\* than the vestings they started would have paid by now.
PaidWithinSchedule == \A u \in Users : paid[u] <= SumOver(grants[u], VestedSoFar)

\* An account's EdenB falls only when it reduces what earned it: it uncommits
\* Eden, or ends a block with less Elys delegated than at its snapshot.
EdenBOf(u) == claimed[u]["EdenB"] + committed[u]["EdenB"]

EdenBBurntOnReductionOnly ==
    [][\A u \in Users : EdenBOf(u)' < EdenBOf(u) =>
          \/ committed'[u]["Eden"] < committed[u]["Eden"]
          \/ height' > height /\ staked[u] < snapshot[u]]_vars

-----------------------------------------------------------------------------
\* What x/estaking/spec/01_concepts.md promises of the rewards on committed
\* Eden and EdenB: what the distribution module has paid out, an account has.
RewardsReachAccounts == EdenKnown = minted["Eden"] /\ EdenBKnown = minted["EdenB"]
=============================================================================
