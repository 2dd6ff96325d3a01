CONSTANTS
    p1 = p1
    p2 = p2
    t1 = t1
    t2 = t2
    Pkg = {p1}
    Request = {r1}
    Task = {t2}
    Index <- MCIndex
    Selected <- MCSelected
    RoundTrip = {p1}
    ProxyMode = "hybrid"
    Activity = {"request", "pullFails", "markFails", "sync", "evict", "syncAborts", "delete"}
    MaxRows = 2
SPECIFICATION FairSpec
INVARIANTS
    TypeOK
    ServedIsWhole
PROPERTIES
    ImplementsStore
    SyncHeals
    TurnsKeepKeys
CHECK_DEADLOCK FALSE
