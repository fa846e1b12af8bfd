\* Holders come and go, one initialize() at a time.
CONSTANTS
    Clients = {t1, t2}
    Names = {n1}
    Formatters = {f1, f2}
    QueueCapacity = 2
    Overlap = FALSE
    ThreadMayFail = FALSE
    MaxInits = 2
    MaxPuts = 2
    MaxSinks = 2
    MaxSets = 1
SPECIFICATION MCSpec
INVARIANT TypeOK
INVARIANT SinkInUseIsRegistered
INVARIANT GlobalsOutliveCalls
INVARIANT GivenInOrder
INVARIANT NoneSkipped
INVARIANT NothingThrownAway
PROPERTY FlushTakesAll
SYMMETRY Symmetric
CHECK_DEADLOCK FALSE
