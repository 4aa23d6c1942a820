CONSTANTS
    q1 = q1
    Forester = {f1}
    Queue = {q1}
    Config <- MCConfig
    Weight = {1}
    Epoch = {0, 1}
    Hash <- MCHash
    None = None
    MaxSlot = 5
    MaxWork = 2
    Item = {i1}
    QueueOf <- MCQueueOf
    Drift = 1
    MaxRetries = 1
    MaxCalls = 1
SPECIFICATION ForesterSpec
INVARIANTS
    CountedWork
    NeverEarly
    OneTaskPerEpoch
PROPERTY CallsEnd
CHECK_DEADLOCK FALSE
