SPECIFICATION Spec
CONSTANTS
    Items = {a, b}
    NoItem = NoItem
    Capacity = 2
    Producers = {p1, p2, p3}
    Consumers = {c1, c2}
    MaxPushes = 5
INVARIANTS
    TypeOK
    NoLostWakeup
    DrainedBeforeStop
PROPERTIES
    ImplementsFifo
    EveryoneReturns
CHECK_DEADLOCK FALSE
