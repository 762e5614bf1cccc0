CONSTANTS
    Publishers = {p1, p2}
    Missing = Missing
    TTL = 2
    MaxClock = 4
    MaxTokens = 3
    Outlasting = FALSE
    Identities = {i1}
    Values = {v1, v2}
    NoRow = NoRow
    Nothing = Nothing
    Parts = 2
    Unreadable = FALSE
SPECIFICATION EitherSpec
INVARIANTS
    OverlapOnlyWhenOverdue
    LatestIsComplete
PROPERTIES
    LeaseIsItsHolders
    PunctualHistoryIsRetained
SYMMETRY Symmetry
CHECK_DEADLOCK FALSE
