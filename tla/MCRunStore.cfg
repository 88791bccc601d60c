SPECIFICATION Spec
CONSTANTS
    Arity = 4
    InitialLen = 3
    Peers = {2, 3}
    MaxLen = 1
    Histories <- MCHistories
    Radix = 4
    ProtocolVersion = 3
INVARIANTS
    NodesAreConsistent
    NoNodeIsLost
    NodesAreHalfFull
    CursorIsRight
    IndicesMatchLeaves
    AnchorsAreFound
    SameDocument
    SameResults
    StoreIsRestored
PROPERTIES
    LeavesAreStable
CHECK_DEADLOCK FALSE
