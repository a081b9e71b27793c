CONSTANTS
    Conn = {a, b}
    MaxUpdates = 2
    MaxTicks = 1

SPECIFICATION Spec

SYMMETRY ConnSymmetry

CHECK_DEADLOCK FALSE

INVARIANTS
    ReflectedToAll
    AnswerIsComplete
    SplitHorizon
