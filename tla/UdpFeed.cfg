SPECIFICATION UdpSpec
CONSTANTS
    Messages <- ShortMessages
    SocketDatagrams = 2
    ReceiveTimeouts = {0, 1000}
    InitialBook <- SampleEmptyBook
    ApplyMessage <- SampleOnMessage
    OrderIds = {1, 2, 3}
    Prices = {10, 11}
    Quantities = {1, 2, 3, 4}
    U32 = 16
INVARIANTS
    BookIsReplayOfSome
    DroppedFigure
    OpenWhileSending
PROPERTY
    UdpTermination
CHECK_DEADLOCK FALSE
