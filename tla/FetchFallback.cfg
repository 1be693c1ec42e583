SPECIFICATION Spec
CONSTANTS
    Requests = {r1, r2, r3}
    SiteCount = 2
    Near = {1}
    Fleets <- mcOne
    KeySets <- mcKeySets
    MaxTime = 3
    TTL = 1
    DiskFails = FALSE
PROPERTY FallbackIsLastSuccess
