CONSTANTS
    Flag = {f1}
    c1 = c1
    c2 = c2
    e1 = e1
    e2 = e2
    Programs <- SomePrograms
    NoTimer = NoTimer
    TTL = 2
    MaxVersion = 2
    MaxSnapshots = 2
SPECIFICATION Spec
INVARIANTS
    StopIsFinal
    CacheIsFresh
PROPERTIES
    ServesWholeSnapshots
    StopEndsPolling
    PollingCatchesUp
