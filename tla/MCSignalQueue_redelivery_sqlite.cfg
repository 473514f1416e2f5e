SPECIFICATION TimelySpec
CONSTANTS
    s1 = s1
    s2 = s2
    lic1 = lic1
    e1 = e1
    e2 = e2
    c1 = c1
    Signals = {s1}
    Licenses = {lic1}
    Contents = {c1}
    EAs = {e1, e2}
    LicenseOf <- MCOneLicense
    Backends = {"sqlite"}
    DedupWindow = 1
    StaleClaim = 1
    MaxAge = 2
    StaleHours = 6
    DaysToKeep = 7
    AgeCap = 8
    MaxFaults = 2
PROPERTY
    Redelivered
CHECK_DEADLOCK FALSE
