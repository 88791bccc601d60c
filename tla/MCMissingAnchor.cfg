SPECIFICATION Spec
CONSTANTS
    ReplicaIds = {1, 2}
    Creator = 1
    InitialLen = 1
    InitialPeers = {2}
    InsertLens = {1}
    MaxInsertions = 1
    MaxDeletions = 0
    Redelivery = FALSE
INVARIANTS
    KnownAnchorsAreFound
CHECK_DEADLOCK FALSE
