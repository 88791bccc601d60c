SPECIFICATION BacklogsSpec
CONSTANTS
    ReplicaIds = {1, 2, 3}
    Creator = 1
    InitialLen = 0
    InitialPeers = {2}
    InsertLens = {1}
    MaxInsertions = 3
    MaxDeletions = 2
    MaxMixedInsertions = 1
    Redelivery = FALSE
    Radix = 4
    ProtocolVersion = 3
INVARIANTS
    BacklogsAreRestored
PROPERTIES
    EveryEditIsMerged
CHECK_DEADLOCK FALSE
