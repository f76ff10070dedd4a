SPECIFICATION FairReceiveSpec
CONSTANTS
    Readers = {r1}
    NoOwner = NoOwner
    WebRTC = WebRTC
    Apis = {"string", "bytes"}
    LongMsgs = {2}
    Buffers = {"small", "large"}
    MaxMsgs = 6
INVARIANTS
    NoLostWakeup
    ReaderFindsMessage
PROPERTY AllReceived
CHECK_DEADLOCK FALSE
