CONSTANTS
    NumIds = 3
    NumOwners = 3
    Candidates = {}
    AmmPools = {"amm1"}
    Collaterals = {2}
    Leverages = {20}
    StopLossPrices = {0}
    CloseAmounts = {}
    PoolParams <- MCPool
    ParamSets <- MCParams
    Prices = {2, 4}
    PriceOne = 1
    RatioOne = 10
    OtherShares = {3}
    MaxDebt = 2
    AmmMayRefuse = FALSE
SPECIFICATION SweepSpec
CHECK_DEADLOCK FALSE
INVARIANTS
    SweepReachesAll
