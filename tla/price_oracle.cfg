SPECIFICATION Spec
CONSTANTS
    Accounts = {alice}
    NoAccount = NoAccount
    Shared = {alice}
    PriceSet <- MCPrices
    MaxLen = 2
    U32Max = 4
    UnsignedInterval = 2
    MaxBlock = 4
    MaxNonce = 2
    MaxOther = 2
INVARIANTS
    TypeOK
    UnsignedSession
    AppliedOnce
    WindowContents
    AverageInRange
PROPERTIES
    CooldownSpec
CHECK_DEADLOCK FALSE
