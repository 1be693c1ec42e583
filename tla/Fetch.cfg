SPECIFICATION FairSpec
CONSTANTS
    Requests = {r1, r2}
    SiteCount = 2
    Near = {1}
    Fleets <- mcFleets
    KeySets <- mcKeySets
    MaxTime = 2
    TTL = 0
    DiskFails = TRUE
INVARIANT TypeOK
PROPERTIES SnapshotsKept EveryFetchEnds AcquisitionSpec
