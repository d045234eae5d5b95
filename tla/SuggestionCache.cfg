\* Three keys, two texts, two slots: eviction, expiry and refresh in place.
SPECIFICATION Spec
CONSTANTS
    Keys = {k1, k2, k3}
    Texts = {t1, t2}
    NoText = NoText
    MaxEntries = 2
    TTL = 1
    MaxNow = 3
    MaxCalls = 4
INVARIANTS
    TypeOK
    CacheShape
PROPERTIES
    ForgetsOnlyWhenDue
    ImplementsMemory
SYMMETRY Symmetric
