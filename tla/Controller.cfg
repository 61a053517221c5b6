SPECIFICATION ControllerSpec
CONSTANTS
    Devices = {"a", "b", "c"}
    Interval <- MCInterval
    Docs <- MCDocs
    ErrCodes = {"OK", "TIMEOUT"}
    MaxLate = 1
    MaxBacklog = 2
    TxIds = 5
    Requests = 2
    MaxOutstanding = 2
    Capacity = 192
    PayloadSizes = {0, 8, 60, 100, 1041}
    BufferSizes = {60, 100}
    MaxMessages = 4
INVARIANTS
    TypeOK TcpTypeOK RingTypeOK
    NoDangling ChainAlive NoLostWakeup OpenedBeforeUse
    AnswersAreOwn EmptyMeansAllRead
PROPERTIES
    OneChain EveryDevicePolled ShutdownEnds QueryEnds LateAnswersAreHarmless
    ReadUndisturbed ChannelSpec SentOneByOneIsRead
