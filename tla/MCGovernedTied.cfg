\* Publications whose availability readings may be equal.
SPECIFICATION Spec
CONSTANTS
    t1 = t1
    t2 = t2
    Threads = {t1, t2}
    NoThread = NoThread
    Rules = 1
    Midnight = 10
    FreshDates = {0}
    Horizon = 1
    Scenarios <- Tied
INVARIANT
    UsesStayResolvable
