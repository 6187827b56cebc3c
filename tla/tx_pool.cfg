SPECIFICATION PoolSpec
CONSTANTS
    Accounts = {alice}
    NoAccount = NoAccount
    Shared = {}
    PriceSet <- MCPrices
    MaxLen = 1
    U32Max = 4
    UnsignedInterval = 1
    MaxBlock = 3
    MaxNonce = 1
    MaxOther = 0
    n1 = n1
    n2 = n2
    Nodes = {n1, n2}
    Authorities = {n1}
    NoNode = NoNode
    Numbers = {0, 1}
    Offered <- MCOffered
    UnsignedPriority = 1
    UNSIGNED_TXS_PRIORITY = 2
    PriceLongevity = 3
    NumberLongevity = 2
INVARIANTS
    PoolTypeOK
    OneValidPrice
    NoReplayFromPool
CHECK_DEADLOCK FALSE
