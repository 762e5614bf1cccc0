CONSTANTS
    Pages = {p1, p2}
    MaxKept = 1
    MaxLaunches = 2
    MaxInterruptions = 1
    Syncers = {s1, s2}
    Runs = {r1, r2}
    MaxPublications = 2
    MaxInterrupted = 1
    MaxFailures = 1
    InitialSuppliers = 3
    SupplierCap = 3
    DealSize = 2
    Horizon = 3
    InitialStake = 5
    MinimumStake = 2
    SlashAmount = 2
    RewardAmount = 1
    ArrivalInterval = 2
    InvalidActionLimit = 2
    MaxAgentRequests = 5
    MaxWriteFailures = 1
    NoLedger = NoLedger
    Providers <- FeedProviders
    Required <- FeedRequired
    MinimumSuccessful = 1
    RunIds = {m1, m2}
    NoRun = NoRun
    MaxDays = 2
    MaxStarts = 3
    MaxStops = 1
    MaxUnread = 1
    Ingests = {i1, i2, i3}
    NoFile = NoFile
    MaxKilled = 1
SPECIFICATION Spec
INVARIANTS
    RunsAtMostOnce
    AnswerIsTrue
    IndexHasItsArchive
    CacheStaysWhole
    LakeSurvives
    LedgerVerifies
    LedgerIsFinal
    PoolIsActionable
    RuinIsEarned
    EndsForOneReason
    GoldIsBacked
    GoldIsFresh
    SnapshotIsServable
PROPERTIES
    LatestIsAnswered
    SyncLeavesACache
    LoneHistoryIsRetained
    AnnouncedIsPublished
CHECK_DEADLOCK FALSE
