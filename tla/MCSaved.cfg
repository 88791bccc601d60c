SPECIFICATION SnapshotSpec
CONSTANTS
    ReplicaIds = {1, 2, 3}
    Creator = 1
    InitialLen = 0
    InitialPeers = {2}
    InsertLens = {1}
    MaxInsertions = 2
    MaxDeletions = 1
    Redelivery = FALSE
    MaxSnapshots = 1
    Radix = 4
    ProtocolVersion = 3
INVARIANTS
    SnapshotInvariant
    BacklogNeverStuck
PROPERTIES
    SnapshotsAreRestored
CHECK_DEADLOCK FALSE
