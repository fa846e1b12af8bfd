\* Each component at a size of its own.
CONSTANTS
    Threads = {t1, t2}
    Blocks = {b1, b2}
    Letters = {x}
    Owned = {1, 2}
    MaxLength = 2
    Slack = 1
    Empty = Empty
    Literal = Literal
    Callers = {c1, c2, c3}
    Last = 3
    MaxCalls = 5
    Nodes = {n1, n2, n3, n4}
    Root = root
    Null = null
    Values = {u, v}
    Default = u
    Raw = raw
    Moved = moved
    MaxSize = 3
    MaxCapacity = 3
    Keys = {0, 4, 12, 13}
    Hash <- Halved
    HashNodes = {m1, m2, m3, m4}
    MaxBuckets = 7
    Users = {u1, u2, u3}
    MaxEntries = 5
SPECIFICATION Spec
INVARIANT TypeOK
INVARIANT StringBlocksAreCounted
PROPERTY StringsAreValues
INVARIANT LibraryIsInOrder
 
INVARIANT StorageIsSound
 
PROPERTY MapImplementsMap
INVARIANT GuardIsExact
PROPERTY GuardImplementsGate
SYMMETRY Symmetric
CHECK_DEADLOCK FALSE
