SPECIFICATION FairSpec
CONSTANTS
    Hosts = {h1, h2}
    NoSession = NoSession
    MaxRedirects = 2
    MaxCalls = 3
INVARIANTS
    ResponseOfLastCall
    RequestAsConfigured
    SessionsDeletedOnce
    CallbackOnLiveHandler
PROPERTY CallsReturn
CHECK_DEADLOCK FALSE
