CONSTANTS
    Prefix = {p1, p2}
    Family = {}
    Waiter = {w1}
    RefreshWaiter = {}
    MaxTime = 2
    MaxMessages = 2
    MaxRoutes = 3
    OneWait = FALSE

SPECIFICATION Spec


PROPERTY RematchesAfterWithdraw
