SPECIFICATION Spec
CONSTANTS
    t1 = t1
    t2 = t2
    a1 = a1
    k1 = k1
    k2 = k2
    url1 = url1
    url2 = url2
    None = None
    EdgePrefixed = {"cf-ray"}
    Tasks = {t1, t2}
    Closers = {a1}
    Configs <- HttpConfig
    Requests <- LicensedOnly
    Verdicts <- MCVerdicts
    MaxInstances = 1
INVARIANT
    NoClientLost
CHECK_DEADLOCK FALSE
