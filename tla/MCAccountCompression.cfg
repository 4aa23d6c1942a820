CONSTANTS
    Wallet = {w}
    Group = {g}
    Program = {registry, system}
    Registry = registry
    System = system
    Forester = {w}
    TreeAccount = {t1, t2}
    QueueAccount = {q1, q2}
    ContextAccount = {c1, c2, small}
    RightSize = {c1, c2}
    NetworkFee = {0, 1}
    DefaultFee = 1
    Leaves = 4
    Thresholds = {0, 101}
    DefaultThreshold = 95
    TreeRent = 5
    QueueRent = 3
    MaxBatch = 2
    MaxQueued = 1
    None = None
SPECIFICATION ClientSpec
INVARIANTS
    TreesServiced
    SuccessorsPaired
    FeesCoverRollover
SYMMETRY AccountSymmetry
CHECK_DEADLOCK FALSE
