\* Richer observations: a date that is no session, two scopes, three contents,
\* two calculation revisions with an upgrade between them.
SPECIFICATION Spec
CONSTANTS
    c1 = c1
    c2 = c2
    c3 = c3
    w1 = w1
    w2 = w2
    o1 = o1
    o2 = o2
    o3 = o3
    NoLight = NoLight
    NoSource = NoSource
    Sessions <- WideSessions
    TradingDays <- WideTradingDays
    Times = {1, 2}
    LatestSession <- WideLatestSession
    Contents <- WideContents
    Starts <- WideStarts
    RelationOf <- WideRelationOf
    Revisions = {1, 2}
    Stamps = {o1}
    Baselines <- WideBaselines
    ClockMayRepeat = TRUE
    MaxSources = 2
    MaxFaults = 1
    MaxPlain = 0
INVARIANTS
    ValidatorsAgree
    TransitionIsGenuine
PROPERTIES
    SessionNeverGoesBack
