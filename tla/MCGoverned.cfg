\* Two rules; readings are distinct, or they tie and the clock may be set back.
SPECIFICATION Spec
CONSTANTS
    t1 = t1
    t2 = t2
    Threads = {t1, t2}
    NoThread = NoThread
    Rules = 2
    Midnight = 10
    FreshDates = {0}
    Horizon = 1
    Scenarios <- Governed
INVARIANTS
    TypeOK
    DistinctReadingsKeepUses
    EverySnapshotIsClosed
    AdmissionsFormOneChain
    GovernancePrecedesUse
