SPECIFICATION ReceiveSpec
CONSTANTS
    Readers = {r1, r2}
    NoOwner = NoOwner
    WebRTC = WebRTC
    Apis = {"string", "bytes"}
    LongMsgs = {2}
    Buffers = {"small", "large"}
    MaxMsgs = 3
INVARIANTS
    ReceivedInOrder
CHECK_DEADLOCK FALSE
