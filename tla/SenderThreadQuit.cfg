SPECIFICATION Spec
CONSTANTS
    Threads = {t1, t2}
    Callers = {c1}
    NoThread = NoThread
    SendResults = {"all", "none", "error"}
    LongMsgs = {1}
    WaitRetries = 1
    MaxMsgs = 1
    MaxChecks = 2
PROPERTY NoRestartAfterQuit
