SPECIFICATION FairSpec
CONSTANTS
    MaxList = 5
    DwordRange = 3
    MaxSends = 2
INVARIANTS
    TypeOK
    FirstMechanismThatWorks
    ProxiesInOrder
    SuccessMeansAnswered
PROPERTY RequestEnds
CHECK_DEADLOCK FALSE
