CONSTANTS
    p1 = p1
    p2 = p2
    t1 = t1
    t2 = t2
    Pkg = {p1, p2}
    Request = {r1}
    Task = {t1, t2}
    Index <- MCIndex
    Selected <- MCSelected
    RoundTrip = {p1}
    ProxyMode = "hybrid"
    Activity = {"sync"}
    MaxRows = 2
SPECIFICATION FairSpec
PROPERTIES
    SequentialIsExact
    DuplicateIsFinal
    TurnsKeepKeys
CHECK_DEADLOCK FALSE
