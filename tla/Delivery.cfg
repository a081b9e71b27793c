CONSTANTS
    Script <- Scripts
    MaxWaits = 1

SPECIFICATION Spec

CHECK_DEADLOCK FALSE

INVARIANTS
    WaitSeesStanding
    MetricsExact
