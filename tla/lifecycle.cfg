\* Two loaders, up to two rings, three consumers one after the other, three records. All of them may be
\* gone in the end.
CONSTANTS
    l1 = l1
    l2 = l2
    Loaders <- TwoLoaders
    RingSize = 2
    MaxRings = 2
    MaxEvents = 3
    MaxStarts = 3
SPECIFICATION Spec
CHECK_DEADLOCK FALSE
INVARIANTS TypeOK SharedRing NothingSkipped RepeatsFromDeaths
PROPERTIES SharedDelivery
