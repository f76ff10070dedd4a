SPECIFICATION Spec
CONSTANTS
    Hosts = {h1, h2}
    NoSession = NoSession
    MaxRedirects = 2
    MaxCalls = 1
INVARIANT RepeatedUntilAnswered
CHECK_DEADLOCK FALSE
