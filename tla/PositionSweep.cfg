CONSTANTS
    NumIds = 3
    NumOwners = 3
    Candidates = {}
    AmmPools = {"amm1"}
    Collaterals = {2}
    Leverages = {20}
    StopLossPrices = {0}
    CloseAmounts = {}
    PoolParams <- MCPool
    ParamSets <- MCSweepParams
    Prices = {2, 4}
    PriceOne = 1
    RatioOne = 10
    OtherShares = {3}
    MaxDebt = 3
    AmmMayRefuse = FALSE
SPECIFICATION FairSpec
CHECK_DEADLOCK FALSE
PROPERTIES
    UnhealthyLiquidated
