SPECIFICATION FairSpec
CONSTANT MaxSockets = 2
INVARIANTS
    TypeOK
    SecureStaysSecure
    ShutMeansClosed
PROPERTY
    ReaderReleased
CHECK_DEADLOCK FALSE
