SPECIFICATION Spec
CONSTANTS
    DRIVER_MAX_RX_BUFFER_SIZE = 4
    DRIVER_MAX_RX_BUFFER_FILL_SIZE = 2
    RB_MAX_PAYLOAD_LEN = 2
    RX_BUFFER_SIZE = 2
    ReplySize = 1
    HostQueue = 1
    MaxUnread = 2
    MaxBytes = 3
    MaxMessages = 3
    MaxRestarts = 1
INVARIANT TypeOK
INVARIANT BytesInOrder
INVARIANT SentOnceInOrder
PROPERTY NoneLeftBehind
