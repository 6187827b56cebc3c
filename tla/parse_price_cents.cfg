SPECIFICATION Spec
CONSTANTS
    U32Size = 1024
    MaxInteger = 12
    MaxNegative = 2
    MaxDigits = 3
    Exponents = {0, 2}
    NoPrice = NoPrice
INVARIANT
    PriceInCents
CHECK_DEADLOCK FALSE
