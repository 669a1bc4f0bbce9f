CONSTANTS
    NumIds = 2
    NumOwners = 2
    Candidates = {1}
    AmmPools = {"amm1"}
    Collaterals = {3}
    Leverages = {10, 20}
    StopLossPrices = {0, 2}
    CloseAmounts = {1, 2}
    PoolParams <- MCPools
    ParamSets <- MCTwoParams
    Prices = {2, 3}
    PriceOne = 1
    RatioOne = 10
    OtherShares = {1, 4}
    MaxDebt = 4
    AmmMayRefuse = TRUE
SPECIFICATION Spec
CHECK_DEADLOCK FALSE
INVARIANTS
    TypeOK
    TotalsFollowPositions
    PositionsBacked
PROPERTIES
    ProvidersRemain
    LossOnlyUnderwater
    OthersCloseOnlyDue
