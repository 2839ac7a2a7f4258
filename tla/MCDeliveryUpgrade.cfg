\* A new calculation revision after a candidate was delivered.
SPECIFICATION Spec
CONSTANTS
    c1 = c1
    c2 = c2
    c3 = c3
    w1 = w1
    w2 = w2
    o1 = o1
    o2 = o2
    o3 = o3
    NoLight = NoLight
    NoSource = NoSource
    Sessions <- MCSessions
    TradingDays <- MCTradingDays
    Times = {1, 2}
    LatestSession <- MCLatestSession
    Contents <- MCContents
    Starts <- MCStarts
    RelationOf <- MCRelationOf
    Revisions = {1, 2}
    Stamps = {o1}
    Baselines <- MCBaselines
    ClockMayRepeat = TRUE
    MaxSources = 2
    MaxFaults = 0
    MaxPlain = 0
INVARIANTS
    SettledNeverBlocksEvaluation
