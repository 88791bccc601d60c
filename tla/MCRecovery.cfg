SPECIFICATION SnapshotSpec
CONSTANTS
    ReplicaIds = {1, 2}
    Creator = 1
    InitialLen = 1
    InitialPeers = {}
    InsertLens = {2}
    MaxInsertions = 2
    MaxDeletions = 1
    Redelivery = TRUE
    MaxSnapshots = 1
    Radix = 4
    ProtocolVersion = 3
INVARIANTS
    ClockInvariant
    OrderAgreement
    BufferMatchesDocument
PROPERTIES
    EditsArriveAsSent
    ImplementsCausalDelivery
CHECK_DEADLOCK FALSE
