SPECIFICATION PooledSpec
CONSTANTS
    Messages <- ReusingMessages
    Capacity = 2
    PoolCapacity = 2
    NoObject = NoObject
    U64 = 16
    OrderIds = {1, 2, 3}
    Prices = {10, 11}
    Quantities = {1, 2, 3, 4}
    U32 = 16
INVARIANTS
    BaselineBookUnlessExhausted
    ExhaustionsTellTooSmall
    PooledAllConsumedAtExit
PROPERTIES
    PooledImplementsReplay
    PooledTermination
