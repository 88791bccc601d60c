SPECIFICATION Spec
CONSTANTS
    ReplicaIds = {1, 2, 3}
    Creator = 1
    InitialLen = 1
    InitialPeers = {2, 3}
    InsertLens = {1}
    MaxInsertions = 3
    MaxDeletions = 0
    Redelivery = FALSE
INVARIANTS
    OrderAgreement
    DocumentMatchesVersionMap
    LamportClockIsAhead
CHECK_DEADLOCK FALSE
