SPECIFICATION StoreSpec
CONSTANTS
    k1 = k1  k2 = k2  k3 = k3  k4 = k4
    s1 = s1  s2 = s2  s3 = s3
    Keys = {k1, k2, k3, k4}
    Values = {v1, v2}
    Slots = {s1, s2, s3}
    SlotOf <- Colliding
    MaxEntries <- Budgets
    MirrorCap <- Caps
    CacheCap = 1
    NoValue = NoValue
    a = a  b = b  c = c  d = d
    Ids = {a, b, c, d}
    NoId = NoId
    TimeOf <- Timestamps
    SyncMirrorCap = 2
    MaxSyncKeys = 4
SYMMETRY AnyValue
INVARIANTS AckedIsDurable CanReopen MirrorIsFresh LatestIsHeld OrderFollowsMirror
PROPERTIES NeverClobbers FallbackIsNewest
