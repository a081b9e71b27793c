CONSTANTS
    Call = {a, b, c}
    Path = {p}

SPECIFICATION FairSpec

CHECK_DEADLOCK FALSE

INVARIANT
    OneProfile

PROPERTY
    EveryCallReturns
