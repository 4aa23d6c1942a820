CONSTANTS
    Height = 3
    CanopyDepth = 1
    ChangelogCapacity = 5
    RootsCapacity = 3
    IndexedChangelogCapacity = 5
    Address = {1, 2, 3, 4}
    HighestAddress = 5
    Zero = Zero
    Client = {c1, c2}
    LeafValue = {}
    MaxSeq = 0
    None = None
SPECIFICATION IndexedSpec
INVARIANTS
    SortedList
    StaleInsertionsAccepted
    CopyFollowsChain
PROPERTY InsertedOnce
SYMMETRY ClientSymmetry
CHECK_DEADLOCK FALSE
