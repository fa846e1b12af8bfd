\* finalize() returns and no wakeup is lost.
CONSTANTS
    Clients = {t1, t2}
    Names = {n1}
    Formatters = {f1}
    QueueCapacity = 2
    Overlap = FALSE
    ThreadMayFail = FALSE
    MaxInits = 2
    MaxPuts = 2
    MaxSinks = 1
    MaxSets = 0
SPECIFICATION FairSpec
PROPERTY FinalizeReturns
PROPERTY PutIsTaken
CHECK_DEADLOCK FALSE
