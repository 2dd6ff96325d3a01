CONSTANTS
    t1 = t1
    t2 = t2
    s1 = s1
    TaskId = {t1, t2}
    SourceId = {s1}
    SourceOf <- MCSourceOf
    Faults = {"cancel", "crash", "locked", "unread", "recovery"}
SPECIFICATION FairSpec
INVARIANTS
    TypeOK
    RegistryFindsLive
    StatusFitsPlace
    StuckOnlyIfInterrupted
    FailureReachesSource
PROPERTIES
    ImplementsRow
    CoroutinesEnd
    CancelIsRecorded
    RunningSettles
CHECK_DEADLOCK FALSE
