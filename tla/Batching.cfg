SPECIFICATION BatchSpec
CONSTANTS
    num_messages_ = 3
    IdCycle = 2
    PriceRange = 1
    QuantityRange = 1
    default_batch_sizes <- MCBatchSizes
    OrderIds <- MCOrderIds
    Prices <- MCPrices
    Quantities <- MCQuantities
    Latencies <- MCLatencies
    U64 = 256
    Resolution = 10
    U32 = 1024
INVARIANTS
    ReportsAgree
    SummaryOrdered
    PercentileInterpolates
