SPECIFICATION Spec
CONSTANTS
    ReplicaIds = {1, 2}
    Creator = 1
    InitialLen = 1
    InitialPeers = {}
    InsertLens = {1}
    MaxInsertions = 2
    MaxDeletions = 2
    Redelivery = FALSE
INVARIANTS
    TypeOK
    Convergence
    BacklogInvariants
    DeletionsAreCausal
    NoPanic
    AnchorsFollowTheirCharacter
    AcceptedAnchorsAreFound
    DocumentInvariant
PROPERTIES
    ImplementsSharedText
CHECK_DEADLOCK FALSE
