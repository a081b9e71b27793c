CONSTANTS
    MaxReads = 4
    MaxTicks = 1
    MaxOps = 1

SPECIFICATION FairSpec

INVARIANTS
    TypeOK
    EstablishedByHandshake
    WireOrder
    ConnReleased
    EndIsExplained
    NoSelfInflictedReadError

PROPERTIES
    StateTransitions
    OpenReturns
    CloseReturns
    FailureCompletes
    HoldTimerFreesWriter
