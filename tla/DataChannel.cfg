SPECIFICATION FairSpec
CONSTANTS
    Threads = {t1, t2}
    Threshold = 2
    BufferMax = 1
    RetryCount = 2
    MaxLen = 2
    MaxCalls = 3
INVARIANTS
    TypeOK
    BufferBounded
    NothingSentAfterClose
    DropsReported
PROPERTY CallsReturn
CHECK_DEADLOCK FALSE
