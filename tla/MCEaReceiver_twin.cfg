SPECIFICATION Spec
CONSTANTS
    s1 = s1
    s2 = s2
    e1 = e1
    e2 = e2
    Signals = {s1}
    EAs = {e1, e2}
    NoSignal = NoSignal
    NoEA = NoEA
    QueueMax = 2
    MaxRetries = 2
    MaxQueueTime = 1
    PerTick = 1
    MemoryMax = 4
    FileMax = 3
    FileFails = FALSE
    MaxCopies = 2
    MaxRestarts = 1
INVARIANTS
    OnePositionPerSignal
