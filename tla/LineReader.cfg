SPECIFICATION FairSpec
CONSTANTS
    BufferLength = 3
    Sizes = {2}
    MaxStream = 3
    MaxConnections = 2
INVARIANTS
    TypeOK
    UnreadIsRest
    ReadIsNextOfStream
    LineOfOneConnection
PROPERTY CommandsHeard
CHECK_DEADLOCK FALSE
