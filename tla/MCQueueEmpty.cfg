\* Two consumers and a one-slot ring.
CONSTANTS
    Producers = {p1, p2}
    Consumers = {c1, c2}
    Items = {x1, x2, x3}
    Capacity = 1
    None = None
    MaxPuts = 3
    Running = {None}
SPECIFICATION MCSpec
INVARIANT EmptyIsEmpty
