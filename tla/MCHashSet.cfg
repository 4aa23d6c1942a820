CONSTANTS
    Capacity = 4
    Iterations = 3
    Threshold = 2
    Value <- MCValue
    None = None
    MaxSeq = 5
SPECIFICATION HashSetSpec
INVARIANTS
    NoDuplicates
    LookupComplete
PROPERTY ImplementsExpiringSet
CHECK_DEADLOCK FALSE
