CONSTANTS
    Conn = {a, b}
    MaxUpdates = 1
    MaxTicks = 0

SPECIFICATION Spec

CHECK_DEADLOCK FALSE

INVARIANT HandshakeInSequence
