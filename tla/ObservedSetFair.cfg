CONSTANTS
    Prefix = {p1}
    Family = {ipv4, ipv6}
    Waiter = {w1}
    RefreshWaiter = {r1}
    MaxTime = 2
    MaxMessages = 2
    MaxRoutes = 2
    OneWait = TRUE

SPECIFICATION FairSpec

CHECK_DEADLOCK FALSE

INVARIANTS
    NoLeakedWaiter
    RefreshCutoff
    NoLostRefreshWakeup

PROPERTIES
    FailureReleases
    EoRRReleases
