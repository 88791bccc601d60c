SPECIFICATION Spec
CONSTANTS
    ReplicaIds = {1, 2}
    Creator = 1
    InitialLen = 1
    InitialPeers = {2}
    InsertLens = {1}
    MaxInsertions = 2
    MaxDeletions = 0
    Redelivery = TRUE
INVARIANTS
    NoPanic
CHECK_DEADLOCK FALSE
