SPECIFICATION Spec
CONSTANTS
    Arity = 4
    MaxLen = 2
    Histories <- MCHistories
INVARIANTS
    SameLeafAtOffset
    FragmentsAreConsistent
PROPERTIES
    ImplementsFragmentList
CHECK_DEADLOCK FALSE
