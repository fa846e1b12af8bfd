\* Each component at a small size of its own.
CONSTANTS
    MaxRequests = 3
    Root = root
    Null = null
    Clients = {c1, c2}
    NoClient = noclient
    Datagrams = {r1, r2}
    Bad = {b}
    Short = {s}
    QueueSize = 2
    NoDatagram = nodatagram
    Kinds = {a, e}
    Limit = 3
    ToDiscard = 2
    MaxRecords = 6
    Users = {u1, u2}
    MaxEntries = 5
    Threads = {t1, t2}
    Blocks = {b1, b2, b3}
    NoThread = nothread
    NoBlock = noblock
    Handles = {h1, h2, h3}
    NoHandle = nohandle
    MaxRunning = 6
SPECIFICATION FairSpec
INVARIANT TypeOK
INVARIANT SinkRequestsAreSound
INVARIANT SinkWaitsAreSound
INVARIANT KmRequestsAreSound
PROPERTY SinksAreClosed
INVARIANT TcpClientsAreTracked
INVARIANT NothingRunsAfter
PROPERTY DestructorsReturn
PROPERTY SignalsAreServed
INVARIANT WindowRecordsAreKept
INVARIANT WindowShowsTheNewest
INVARIANT HeapIsSound
INVARIANT TimerOnlyTheTimerRuns
PROPERTY CallsReturn
CHECK_DEADLOCK FALSE
