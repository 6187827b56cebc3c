SPECIFICATION SysSpec
CONSTANTS
    n1 = n1
    n2 = n2
    alice = alice
    bob = bob
    w1 = w1
    w2 = w2
    w3 = w3
    Accounts = {alice, bob}
    NoAccount = NoAccount
    Shared = {alice}
    PriceSet <- MCPrices
    MaxLen = 2
    U32Max = 4
    UnsignedInterval = 2
    MaxBlock = 4
    MaxNonce = 2
    MaxOther = 1
    Nodes = {n1, n2}
    Workers = {w1, w2, w3}
    Host <- MCHost
    Keys <- MCKeys
    Others = {alice}
    Foreign <- MCForeign
    MaxForeign = 1
    GracePeriod = 2
    TxTypes = 3
SYMMETRY Slots
INVARIANTS
    SysTypeOK
    GraceSpacing
    UnsignedFromPermit
    SignedBoundedByPermits
PROPERTIES
    PermitSpec
CHECK_DEADLOCK FALSE
