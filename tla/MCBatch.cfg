SPECIFICATION Spec
CONSTANTS
    i1 = i1
    i2 = i2
    s1 = s1
    s2 = s2
    x1 = x1
    x2 = x2
    c1 = c1
    c2 = c2
    Symbols = {s1, s2}
    Venues = {"NASDAQ", "NYSE"}
    Instruments = {i1, i2}
    Tickers = {x1, x2}
    NoTicker = NoTicker
    Sessions = {0, 1, 2, 3, 4}
    TradingDays = {1, 2, 3, 4}
    Times = {2, 3, 4}
    LatestSession <- Latest
    Contents = {c1, c2}
    Starts = {0, 1, 2, 3, 4}
    RelationOf <- Relation
    Revisions = {1}
    Revision = 1
    Stamps = {"then"}
    NoLight = NoLight
    Settings <- Batches
    WindowLength = 2
    MaxRetries = 1
    MaxBatches = 2
    MaxFaults = 3
    MaxRevisions = 1
INVARIANTS
    OneView
    RequestsAreBounded
    ItemsTellTheTruth
    TickersAreNotStitched
PROPERTIES
    ImplementsEvaluation
CHECK_DEADLOCK FALSE
