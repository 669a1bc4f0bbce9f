CONSTANTS
    NumUsers = 2
    NumPools = 2
    Vaults = {2}
    UsdcVault = 2
    ExternalDenoms = {"ATOM"}
    OneShare = 2
    Prec = 2
    PortionDen = 10
    LpPortion = 6
    StakersPortion = 3
    MaxEden = 4
    BlockRewards <- MCBlockRewards
    ShareAmounts = {1, 2}
    IncentiveAmounts = {2}
    MinAmount = 2
    MaxShares = 3
    MaxIncentives = 1
    GenesisPools = {1}
    MaxDecisions = 1
    MaxMoves = 3
    MaxHeight = 3
SPECIFICATION Spec
CHECK_DEADLOCK FALSE
INVARIANTS
    TypeOK
    RewardsExact
    ClaimsFunded
    IncentivesRunInFull
