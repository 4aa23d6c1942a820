CONSTANTS
    Address = {1, 2, 3, 4, 5}
    TreeCapacity = 8
    RootsCapacity = 3
    QueueSlot = {q1, q2, q3}
    Threshold = 4
    SafetyMargin = 1
    None = None
    MaxNew = 2
SPECIFICATION FairSpec
INVARIANTS
    StaleRootsCovered
    PendingProcessable
    QueueNeverJams
PROPERTIES
    CreateOnce
    EventuallyInserted
CHECK_DEADLOCK FALSE
