SPECIFICATION MCSpec
CONSTANTS
    w1 = w1
    w2 = w2
    toQueue = toQueue
    toExecute = toExecute
    r1 = r1
    r2 = r2
    Alerts = {toQueue, toExecute}
    QueueAlerts = {toQueue}
    Requests = {r1, r2}
    Workers = {w1, w2}
    Backends = {"sqlite", "postgres"}
    NoAlert = NoAlert
    NoWorker = NoWorker
    NoRequest = NoRequest
    MaxCrashes = 2
    MinuteLimit = 2
    HourLimit = 3
    Burst = 2
    Minute = 2
    Hour = 3
    BlockAt = 2
    BlockTime = 2
    DecayEvery = 2
    HttpRequests <- MCRequests
    HttpLimit = 2
    HttpWindow = 1
    FaWorkers = {w1, w2}
    Attempts = {t1, t2, t3}
    FailAt = 2
    FailBlock = 2
    WithRedis = TRUE
    Params <- MCParams
    MaxParams = 4
    MaxFixed = 2
    NaN = NaN
    Word = Word
    None = None
    TradeWorkers = {w1, w2}
    Tags = {none, tag}
    NoTag = none
    MaxTickets = 2
    Percent = 50
    MaxLots = 2
    MaxApps = 4
    DbTickets = {1, 2}
    DbLinks = {1, 2, 3}
    RpWorkers = {w1, w2}
    Trades = {t1, t2}
    Failing = {t2}
    RpRestarts = 1
    NoTrade = NoTrade
INVARIANTS
    OperationsTypes
    TypeOK
    ExecutedOnce
    AnswersKept
    PassedWithinLimits
    ServedWithinBucket
    FailuresBlock
    SignalSound
    OnePoller
    QuietAfterShutdown
    CloseAllAsks
    PerformanceAdds
PROPERTIES
    StrategiesApart
    Answered
CHECK_DEADLOCK FALSE
