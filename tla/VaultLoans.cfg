CONSTANTS
    Denoms = {usdc}
    NoDenom = "none"
    MaxPools = 2
    NumBonders = 2
    NumPositions = 2
    AmmPools = {"amm1", "amm2"}
    AmmPoolOf <- MCAmmPoolOf
    BondAmounts = {2, 5}
    LoanAmounts = {4}
    PoolParams <- MCTwoParams
    MaxBondable = 7
    RateOne = 10
    RatioOne = 10
    Year = 10
    BlockGaps = {8}
    NumBlocks = 100
    MaxHeight = 3
SPECIFICATION Spec
CHECK_DEADLOCK FALSE
INVARIANTS
    TypeOK
    VaultAccounting
    LiabilitiesMatchDebts
PROPERTIES
    SharePriceFair
    InterestWithinMaxRate
    ImplementsFund
