\* Two consumers: no pointer is lost or duplicated all the same.
CONSTANTS
    Producers = {p1, p2}
    Consumers = {c1, c2}
    Items = {x1, x2, x3}
    Capacity = 2
    None = None
    MaxPuts = 5
    Running = {None}
SPECIFICATION MCSpec
INVARIANT TypeOK
INVARIANT CountersBounded
INVARIANT ItemsConserved
SYMMETRY Symmetric
