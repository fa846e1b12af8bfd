\* Several producers, one consumer: how the trace library uses the queue.  Only
\* p1, or only c1, is sure to run; any other thread may stop inside its call.
CONSTANTS
    Producers = {p1, p2}
    Consumers = {c1}
    Items = {x1, x2, x3}
    Capacity = 2
    None = None
    MaxPuts = 5
    Running = {p1, c1}
SPECIFICATION FairSpec
INVARIANT EmptyIsEmpty
INVARIANT FullIsFull
PROPERTY ImplementsFifo
PROPERTY CallReturns
