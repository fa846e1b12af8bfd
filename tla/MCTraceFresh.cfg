\* initialize() overlaps another client's finalize().
CONSTANTS
    Clients = {t1, t2}
    Names = {n1}
    Formatters = {f1}
    QueueCapacity = 2
    Overlap = TRUE
    ThreadMayFail = FALSE
    MaxInits = 2
    MaxPuts = 1
    MaxSinks = 1
    MaxSets = 0
SPECIFICATION MCSpec
INVARIANT AssertNoGlobals
CHECK_DEADLOCK FALSE
