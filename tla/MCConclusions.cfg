SPECIFICATION ConcludingSpec
CONSTANTS
    t1 = t1
    t2 = t2
    Threads = {t1, t2}
    NoThread = NoThread
    Rules = 1
    Midnight = 100
    FreshDates = {0}
    Horizon = 1
    Scenarios <- Concluding
INVARIANTS
    ConclusionsTypeOK
    HistoriesNeverRefused
    NothingLeftStaged
    ConclusionsAreExplained
    AnswersStand
    WaitsClimbThroughConclusions
    EverySnapshotIsDecided
    ActiveExactlyWhenUnqualified
PROPERTIES
    ImplementsArchive
