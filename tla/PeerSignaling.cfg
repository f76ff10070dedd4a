SPECIFICATION FairSpec
CONSTANTS
    Peers = {pA, pB}
    NoDesc = NoDesc
    Faults = {"lose", "copy", "reorder"}
    MaxCandidates = 1
    MaxFaults = 2
INVARIANTS
    AnswerMatchesOffer
    SessionsAgree
    CandidatesFollow
PROPERTY HandshakeHeard
CHECK_DEADLOCK FALSE
