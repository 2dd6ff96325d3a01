CONSTANTS
    p1 = p1
    p2 = p2
    t1 = t1
    t2 = t2
    Pkg = {p1, p2}
    Request = {r1}
    Task = {t2}
    Index <- MCIndex
    Selected <- MCSelected
    RoundTrip = {p1}
    ProxyMode = "hybrid"
    Activity = {"sync", "syncAborts", "redownload", "repair", "delete"}
    MaxRows = 2
SPECIFICATION FairSpec
PROPERTIES
    SyncHeals
CHECK_DEADLOCK FALSE
