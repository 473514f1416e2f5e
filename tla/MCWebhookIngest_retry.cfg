SPECIFICATION Spec
CONSTANTS
    toQueue = toQueue
    toExecute = toExecute
    r1 = r1
    r2 = r2
    w1 = w1
    w2 = w2
    Alerts = {toQueue}
    QueueAlerts = {toQueue}
    Requests = {r1, r2}
    Workers = {w1}
    Backends = {"sqlite"}
    NoAlert = NoAlert
    NoWorker = NoWorker
    NoRequest = NoRequest
    MaxCrashes = 0
INVARIANT
    RetryIsRecognised
CHECK_DEADLOCK FALSE
