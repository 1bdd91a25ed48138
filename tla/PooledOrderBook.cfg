SPECIFICATION Spec
CONSTANTS
    OrderIds = {o1, o2, o3}
    Prices = {10, 11}
    Quantities = {0, 1, 2}
    U32 = 8
    U64 = 3
    PoolCapacity = 2
    NoObject = NoObject
INVARIANTS
    PoolPartition
    PoolCountersMatch
PROPERTIES
    ExhaustedOnlyWhenFull
    ImplementsOrderBook
SYMMETRY IdSymmetry
