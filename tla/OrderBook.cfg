SPECIFICATION Spec
CONSTANTS
    OrderIds = {o1, o2, o3}
    Prices <- MCPrices
    Quantities <- MCQuantities
    U32 = 8
INVARIANTS
    TypeOK
    BookConsistent
    TotalsMatchOrders
    TopOfBook
PROPERTY
    TimePriority
SYMMETRY IdSymmetry
