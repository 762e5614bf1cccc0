CONSTANTS
    Syncers = {s1}
    Runs = {r1}
    MaxPublications = 3
    MaxInterrupted = 2
    MaxFailures = 1
SPECIFICATION LakeSpec
INVARIANT CacheIsWhole
CHECK_DEADLOCK FALSE
