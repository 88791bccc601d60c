SPECIFICATION Spec
CONSTANTS
    ReplicaIds = {1, 2, 3}
    Creator = 1
    InitialLen = 0
    InitialPeers = {2, 3}
    InsertLens = {1}
    MaxInsertions = 3
    MaxDeletions = 0
    Redelivery = FALSE
PROPERTIES
    NothingReadyAfterFullPass
CHECK_DEADLOCK FALSE
