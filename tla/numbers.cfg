SPECIFICATION Spec
CONSTANTS
    Keys = {alice}
    Strangers = {carol}
    NoKey = NoKey
    ForeignNumbers = {0}
    NumVecLen = 2
    TxTypes = 3
    PriceTypes = 2
    MaxBlock = 8
    MaxAccepted = 3
    MaxNonce = 2
INVARIANTS
    TypeOK
    LastNumbers
    SignedInOrder
CHECK_DEADLOCK FALSE
