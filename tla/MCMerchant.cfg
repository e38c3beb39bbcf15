SPECIFICATION Spec
CONSTANTS
    t1 = t1
    t2 = t2
    a1 = a1
    k1 = k1
    k2 = k2
    url1 = url1
    url2 = url2
    None = None
    EdgePrefixed = {"cf-ray"}
    Tasks = {t1, t2}
    Closers = {a1}
    Configs <- AllConfigs
    Requests <- OneWaits
    Verdicts <- MCVerdicts
    MaxInstances = 2
INVARIANTS
    TypeOK
    OneEventPerDecision
    BlockedForAReason
    SilentUnlessReporting
    EventsExplainDecisions
PROPERTIES
    ImplementsAccessPolicy
CHECK_DEADLOCK FALSE
