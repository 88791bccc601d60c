SPECIFICATION Spec
CONSTANTS
    ReplicaIds = {1, 2}
    Creator = 1
    InitialLen = 3
    InitialPeers = {2}
    InsertLens = {1}
    MaxInsertions = 1
    MaxDeletions = 2
    Redelivery = FALSE
INVARIANTS
    BufferMatchesDocument
    DeletionsTakeEffect
    OnlyDeletedTextIsLost
    RangesAreSeparate
PROPERTIES
    DocumentOnlyGrows
CHECK_DEADLOCK FALSE
