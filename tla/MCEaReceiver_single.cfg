SPECIFICATION Spec
CONSTANTS
    s1 = s1
    s2 = s2
    e1 = e1
    e2 = e2
    Signals = {s1, s2}
    EAs = {e1}
    NoSignal = NoSignal
    NoEA = NoEA
    QueueMax = 2
    MaxRetries = 2
    MaxQueueTime = 0
    PerTick = 1
    MemoryMax = 2
    FileMax = 1
    FileFails = TRUE
    MaxCopies = 3
    MaxRestarts = 1
SYMMETRY Symmetry
INVARIANTS
    TypeOK
    OrdersExplained
