SPECIFICATION Spec
CONSTANTS
    Messages <- SampleMessages
    Capacity = 2
    NoItem = NoItem
    InitialBook <- SampleEmptyBook
    ApplyMessage <- SampleOnMessage
    OrderIds = {1, 2, 3}
    Prices = {10, 11}
    Quantities = {1, 2, 3, 4}
    U32 = 16
INVARIANT
    AllConsumedAtExit
PROPERTIES
    ImplementsReplay
    Termination
