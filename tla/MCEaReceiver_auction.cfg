SPECIFICATION Spec
CONSTANTS
    s1 = s1
    s2 = s2
    e1 = e1
    e2 = e2
    Signals = {s1}
    EAs = {e1}
    NoSignal = NoSignal
    NoEA = NoEA
    QueueMax = 2
    MaxRetries = 2
    MaxQueueTime = 1
    PerTick = 1
    MemoryMax = 6
    FileMax = 5
    FileFails = FALSE
    MaxCopies = 1
    MaxRestarts = 1
INVARIANTS
    RecordedWasHandled
