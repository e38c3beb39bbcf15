SPECIFICATION SystemSpec
CONSTANTS
    t1 = t1
    t2 = t2
    a1 = a1
    k1 = k1
    k2 = k2
    url1 = url1
    url2 = url2
    None = None
    EdgePrefixed = {"cf-ray"}
    Tasks = {t1, t2}
    Closers = {a1}
    Configs <- TwoPlatforms
    Requests <- ReportsMeet
    Verdicts <- MCVerdicts
    MaxInstances = 2
    BaseUrls = {url1, url2}
    DefaultBaseUrl = url2
INVARIANTS
    OnePlatformPerCall
    ClosingLosesNoEvent
PROPERTY
    TransportsKeepContract
CHECK_DEADLOCK FALSE
