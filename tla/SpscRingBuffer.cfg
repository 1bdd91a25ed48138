SPECIFICATION Spec
CONSTANTS
    Items = {a, b}
    Capacity = 2
    MaxPushes = 7
INVARIANTS
    TypeOK
    NoDataRace
    RingInv
PROPERTY
    ImplementsFifo
