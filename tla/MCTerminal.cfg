SPECIFICATION MCSpec
CONSTANTS
    s1 = s1
    e1 = e1
    e2 = e2
    Signals = {s1}
    EAs = {e1, e2}
    NoSignal = NoSignal
    NoEA = NoEA
    QueueMax = 2
    MaxRetries = 1
    MaxQueueTime = 0
    PerTick = 1
    MemoryMax = 4
    FileMax = 3
    FileFails = FALSE
    MaxCopies = 2
    MaxRestarts = 0
    Stream <- MCStream
    Depth = 2
    MaxSends = 1
    MaxRelease = 1
    MaxStarts = 3
    Tickets = {1, 2}
    Links = {1, 2}
    MaxWrites = 1
    MaxWire = 2
    MaxTaken = 2
INVARIANTS
    TerminalTypes
    LockExcludes
    RingInOrder
    RoomForSignals
    WholeCopyKept
    SnapshotsInOrder
PROPERTIES
    QueueSettles
    FramesKeepComing
CHECK_DEADLOCK FALSE
