SPECIFICATION Spec
CONSTANTS
    OrderIds = {o1, o2}
    Prices = {10}
    Quantities = {1, 5}
    U32 = 8
    U64 = 2
    PoolCapacity = 2
    NoObject = NoObject
INVARIANT
    BooksAgree
