SPECIFICATION Spec
CONSTANTS
    s1 = s1
    s2 = s2
    lic1 = lic1
    e1 = e1
    e2 = e2
    c1 = c1
    Signals = {s1, s2}
    Licenses = {lic1}
    Contents = {c1}
    EAs = {e1, e2}
    LicenseOf <- MCOneLicense
    Backends = {"sqlite", "postgres"}
    DedupWindow = 1
    StaleClaim = 1
    MaxAge = 1
    StaleHours = 1
    DaysToKeep = 1
    AgeCap = 2
    MaxFaults = 1
SYMMETRY Symmetry
INVARIANTS
    TypeOK
    NoTwinInWindow
    OneFreshHolder
    DeliveredLogHonest
PROPERTY
    ImplementsLifecycle
CHECK_DEADLOCK FALSE
