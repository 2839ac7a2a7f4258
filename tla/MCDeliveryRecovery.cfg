\* Coordinated runs only: crashes and failed steps anywhere, one revision.
SPECIFICATION Spec
CONSTANTS
    c1 = c1
    c2 = c2
    c3 = c3
    w1 = w1
    w2 = w2
    o1 = o1
    o2 = o2
    o3 = o3
    NoLight = NoLight
    NoSource = NoSource
    Sessions <- MCSessions
    TradingDays <- MCTradingDays
    Times = {1, 2}
    LatestSession <- MCLatestSession
    Contents <- MCContents
    Starts <- MCStarts
    RelationOf <- MCRelationOf
    Revisions = {1}
    Stamps = {o1, o2}
    Baselines <- MCBaselines
    ClockMayRepeat = TRUE
    MaxSources = 3
    MaxFaults = 2
    MaxPlain = 0
INVARIANTS
    TypeOK
    Reconcilable
    DenialIsTrue
PROPERTIES
    OverwriteInterlock
    ImplementsHandoff
