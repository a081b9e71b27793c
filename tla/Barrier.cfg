CONSTANTS
    Vu = {a, b, c}
    Name = {go}
    Count = {0, 2, 3}
    MaxArrivals = 4

SPECIFICATION FairSpec

CHECK_DEADLOCK FALSE

INVARIANTS
    TypeOK
    OneBarrierPerName
    ClosedOnce

PROPERTIES
    KeepsPromise
    EverybodyReleased
