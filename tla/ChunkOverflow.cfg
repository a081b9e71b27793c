CONSTANTS
    ip = ip
    Family <- OneFamily
    Config <- Configs
    Remote <- RemoteOffers
    Batches <- SmallBatches
    MaxRoutes = 3
    MaxCalls = 2
    MaxTicks = 1
    MaxLen = 10
    ExtendedMaxLen = 13
    HeaderLen = 2
    PathIdLen = 1
    ShortAttr = 5
    AttrsLen = 2
    MpLen = 1

SPECIFICATION Spec

CHECK_DEADLOCK FALSE

INVARIANT ChunksSerialize
