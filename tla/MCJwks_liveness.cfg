\* Three verifications at a time, so that two of them may wait for one refresh.
SPECIFICATION FairSpec
CONSTANTS
    Tasks = {t1, t2, t3}
    u1 = u1
    Urls = {u1}
    ks = ks
    kr = kr
    Kids = {ks, kr}
    Stable = {ks}
    Requests <- RotatingRequests
    TTL = 3
    Cooldown = 0
    MaxTime = 0
    None = None
PROPERTIES
    EveryVerificationEnds
