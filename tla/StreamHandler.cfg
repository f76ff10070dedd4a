SPECIFICATION FairSpec
CONSTANTS
    Threads = {t1, t2, t3}
    NoOwner = NoOwner
    MaxOps = 4
INVARIANTS
    OneCloser
    ConnectedMeansOpen
PROPERTIES
    HandleNotReplacedInUse
    OperationsFinish
CHECK_DEADLOCK FALSE
