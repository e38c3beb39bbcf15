\* Two verifications at a time, one key that stays and one that rotates.
SPECIFICATION Spec
CONSTANTS
    Tasks = {t1, t2}
    u1 = u1
    Urls = {u1}
    ks = ks
    kr = kr
    Kids = {ks, kr}
    Stable = {ks}
    Requests <- SafetyRequests
    TTL = 3
    Cooldown = 2
    MaxTime = 4
    None = None
SYMMETRY Symmetry
INVARIANTS
    TypeOK
    SingleFlight
    RevokedKeyBound
    StableKeyNeverRejected
    OnlyThrottlingRejects
PROPERTIES
    RefreshSpacing
