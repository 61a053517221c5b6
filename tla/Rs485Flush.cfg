SPECIFICATION Spec
CONSTANTS
    DRIVER_MAX_RX_BUFFER_SIZE = 6
    DRIVER_MAX_RX_BUFFER_FILL_SIZE = 4
    RB_MAX_PAYLOAD_LEN = 3
    RX_BUFFER_SIZE = 2
    ReplySize = 1
    HostQueue = 1
    MaxUnread = 2
    MaxBytes = 6
    MaxMessages = 0
    MaxRestarts = 0
PROPERTY OverflowIsSent
