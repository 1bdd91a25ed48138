SPECIFICATION FSSpec
CONSTANTS
    iterations = 4
    SampleEvery = 2
    Cpus = {0, 1}
    PinArguments <- MCPinArguments
    MaxMoves = 2
INVARIANTS
    CountersExact
    MigrationsHappened
