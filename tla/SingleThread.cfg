SPECIFICATION Spec
CONSTANTS
    num_messages_ = 4
    IdCycle = 3
    PriceRange = 1
    QuantityRange = 2
    warmup_count = 3
    OrderIds <- MCOrderIds
    Prices <- MCPrices
    Quantities <- MCQuantities
    U32 = 1024
INVARIANT
    WarmUpLeavesItsAdds
PROPERTY
    ImplementsReplay
