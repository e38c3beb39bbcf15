\* A request that is in flight while the cache is cleared.
SPECIFICATION ClearSpec
CONSTANTS
    Tasks = {t1, t2}
    u1 = u1
    Urls = {u1}
    ks = ks
    kr = kr
    Kids = {ks, kr}
    Stable = {ks}
    Requests <- SoundRequests
    TTL = 3
    Cooldown = 2
    MaxTime = 4
    None = None
SYMMETRY Symmetry
INVARIANT
    ClearForcesFreshFetch
