\* A sound token under a rotated key meets the cooldown of an earlier miss.
SPECIFICATION Spec
CONSTANTS
    Tasks = {t1, t2}
    u1 = u1
    Urls = {u1}
    ks = ks
    kr = kr
    Kids = {ks, kr}
    Stable = {ks}
    Requests <- SoundRequests
    TTL = 3
    Cooldown = 2
    MaxTime = 4
    None = None
SYMMETRY Symmetry
INVARIANT
    RotationRecoversOnFirstMiss
