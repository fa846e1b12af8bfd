\* The operating system has no thread for the writer.
CONSTANTS
    Clients = {t1, t2}
    Names = {n1}
    Formatters = {f1}
    QueueCapacity = 2
    Overlap = FALSE
    ThreadMayFail = TRUE
    MaxInits = 2
    MaxPuts = 1
    MaxSinks = 1
    MaxSets = 0
SPECIFICATION MCSpec
INVARIANT AssertThreadValid
CHECK_DEADLOCK FALSE
