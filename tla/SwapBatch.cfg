\* Two accounts, two pools and a third denom with a slash in its name; up to four
\* messages (swaps that are queued, swaps up front, transfers) in two blocks.
SPECIFICATION Spec
CONSTANTS
    NumUsers = 2
    NumDenoms = 3
    Slashed = {3}
    Assets <- MCAssets
    FeeDenom <- MCFeeDenom
    Liquidity <- MCLiquidity
    Wallets <- MCWallets
    One = 20
    SwapFee = 5
    TakerFee = 1
    Discount <- MCDiscount
    UpfrontMakers = {2}
    Messages <- MCMessages
    Transfers = {19}
    MaxDelivered = 4
    MaxHeight = 2
INVARIANTS
    TypeOK
    PoolsBacked
    ArrivalOrderIrrelevant
PROPERTIES
    ProvidersKeepProduct
    
    BatchEnds
CHECK_DEADLOCK FALSE
