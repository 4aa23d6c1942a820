CONSTANTS
    TreeCapacity = 5
    RootsCapacity = 2
    ChangelogCapacity = 2
    QueueSlot = {q1, q2, q3}
    Threshold = 2
    SafetyMargin = 0
    None = None
    MaxInputs = 2
SPECIFICATION FairSpec
INVARIANTS
    StaleRootsCovered
    PendingProcessable
PROPERTIES
    SpendOnce
    EventuallyNullified
CHECK_DEADLOCK FALSE
