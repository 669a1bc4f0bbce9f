CONSTANTS
    Identifiers = {"short", "long", "late"}
    Duration <- MCDuration
    GenesisStart <- MCGenesisStart
    GenesisTime = 2
    BlockGaps = {1, 2}
    Outages = {13}
    OutageHeight = 2
    MaxHeight = 22
    Denoms = {"uelys", "ibc"}
    MetaDenoms = {"uelys"}
    GenesisSupply = 2
    Amounts = {1}
    SendHeight = 4
    EpochIdentifiers = {"short", "long"}
SPECIFICATION BurnerSpec
CHECK_DEADLOCK FALSE
INVARIANTS
    TypeOK
    EpochsOnGrid
    HistoryComplete
PROPERTIES
    CatchesUp
    ZeroAddressEmptied
