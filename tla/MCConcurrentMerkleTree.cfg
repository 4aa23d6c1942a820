CONSTANTS
    Height = 2
    CanopyDepth = 1
    ChangelogCapacity = 3
    RootsCapacity = 2
    LeafValue = {a, b}
    Zero = Zero
    Client = {c1, c2}
    None = None
    MaxSeq = 5
SPECIFICATION Spec
INVARIANTS
    NodesMatchLeaves
    StaleRequestsAccepted
PROPERTY UpdateSound
SYMMETRY MCSymmetry
CHECK_DEADLOCK FALSE
