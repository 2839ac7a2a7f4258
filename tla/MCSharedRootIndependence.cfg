\* The same two instruments, without any crash or failure.
SPECIFICATION Spec
CONSTANTS
    a = a
    b = b
    Owners = {a, b}
    NoEntry = NoEntry
    TornListing = FALSE
    MaxSources = 1
    MaxTemps = 2
    MaxFaults = 0
SYMMETRY Symmetry
INVARIANTS
    InstrumentsIndependent
