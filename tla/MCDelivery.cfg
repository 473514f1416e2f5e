SPECIFICATION MCSpec
CONSTANTS
    s1 = s1
    s2 = s2
    lic1 = lic1
    e1 = e1
    e2 = e2
    c1 = c1
    w1 = w1
    a1 = a1
    a2 = a2
    m1 = m1
    p1 = p1
    p2 = p2
    Signals = {s1}
    Licenses = {lic1}
    Contents = {c1}
    EAs = {e1, e2}
    LicenseOf <- MCOneLicense
    Backends = {"postgres"}
    DedupWindow = 1
    StaleClaim = 1
    MaxAge = 2
    StaleHours = 6
    DaysToKeep = 7
    AgeCap = 8
    MaxFaults = 2
    WsWorkers = {w1}
    Conns = {a1, a2}
    WsMsgs = {m1}
    Signals2All = {m1}
    HomeOf <- MCHomeOf
    RedisUp = TRUE
    MaxConns = 1
    MaxConnects = 2
    NoConn = NoConn
    PollSignals = {s1, s2}
    Pollers = {p1, p2}
    QueueSize = 1
    MaxQueues = 1
    LicWorkers = {w1}
    Bots = {w1}
    MaxLics = 2
    MaxDialogs = 1
INVARIANTS
    DeliveryTypes
    PushComplete
    LimitHeld
    NoLostWakeup
    WaiterKeepsQueue
    NoResurrection
    RestartKeepsLicenses
    NoOrphanSignals
PROPERTIES
    Redelivered
    SilentDropped
CHECK_DEADLOCK FALSE
