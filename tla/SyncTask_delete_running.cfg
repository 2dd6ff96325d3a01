CONSTANTS
    t1 = t1
    t2 = t2
    s1 = s1
    TaskId = {t1, t2}
    SourceId = {s1}
    SourceOf <- MCSourceOf
    Faults = {}
SPECIFICATION Spec
PROPERTIES
    DeleteSparesRunning
CHECK_DEADLOCK FALSE
