CONSTANTS
    Forester = {f1, f2}
    Queue = {q1}
    Config <- MCConfig
    Weight = {1, 2}
    Epoch = {0, 1}
    Hash <- MCHash
    None = None
    MaxSlot = 4
    MaxWork = 1
SPECIFICATION Spec
INVARIANTS
    RangesPartition
    TotalsAgree
    UniqueForester
    WorkAccounted
PROPERTY ReportedIsFinal
SYMMETRY MCSymmetry
CHECK_DEADLOCK FALSE
