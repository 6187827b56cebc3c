SPECIFICATION PromptSpec
CONSTANTS
    Runs = {r1, r2}
    NoLock = NoLock
    TxTypes = 4
    FetchTimeout = 1
    LockTimeout = 2
    LockBlocks = 3
    BodySlack = 1
    MaxClock = 4
    MaxBlock = 7
INVARIANT
    FetchOnlyIfNotCached
