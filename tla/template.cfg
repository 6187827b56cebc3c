SPECIFICATION Spec
CONSTANTS
    Accounts = {alice, bob}
    NoAccount = NoAccount
    NoValue = NoValue
    U32Max = 2
    MaxCalls = 5
INVARIANTS
    TypeOK
    ValueIsAccountedFor
