SPECIFICATION FairSpec
CONSTANTS
    Threads = {t1, t2}
    Callers = {c1, c2}
    NoThread = NoThread
    SendResults = {"all", "none", "error"}
    LongMsgs = {2}
    WaitRetries = 1
    MaxMsgs = 3
    MaxChecks = 2
INVARIANT OneSender
PROPERTIES
    SendsInOrder
    CloseReturns
    SenderDrains
