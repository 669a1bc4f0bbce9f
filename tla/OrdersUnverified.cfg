CONSTANTS
    Traders = {"t1"}
    Prices = {2, 3}
    Collaterals = {4}
    Leverages = {3}
    CloseAmounts = {3}
    Targets = {3}
    Liquidity <- MCLiquidity
    Flows <- MCFlows
    One = 10
    PerpFee = 2
    TakerFee = 1
    InsuranceShare = 5
    BorrowRates = {2, 20}
    FundingRate = 60
    SafetyNum = 11
    SafetyDen = 10
    MinLiability = 2
    MaxOpen = 2
    MaxPositions = 2
    MaxHeight = 2
    MaxShocks = 1
    Triggers = {2, 5}
    Percentages = {50}
    MaxOrders = 2
    MaxList = 2
    MaxUpdates = 1
    Scopes = {"perp"}
SPECIFICATION OrdersSpec
CHECK_DEADLOCK FALSE
PROPERTIES
    OpensAtMarket
