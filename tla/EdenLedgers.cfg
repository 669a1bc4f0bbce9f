\* Two accounts with rewards on every kind of delegation; an account with two
\* vestings of several lengths, claims and cancellations.
SPECIFICATION Spec
CONSTANTS
    NumUsers = 2
    Rewards = {2}
    Scopes <- MCScopes
INVARIANTS
    TypeOK
    TotalsCoverCommitments
    DelegationsCanWithdraw
    NothingFromNothing
    VestingConserved
    PaidWithinSchedule
PROPERTIES
    EdenBBurntOnReductionOnly
CHECK_DEADLOCK FALSE
