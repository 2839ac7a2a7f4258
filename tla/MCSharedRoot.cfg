\* Two instruments share the root; the directory is listed at one moment.
SPECIFICATION Spec
CONSTANTS
    a = a
    b = b
    Owners = {a, b}
    NoEntry = NoEntry
    TornListing = FALSE
    MaxSources = 1
    MaxTemps = 2
    MaxFaults = 1
SYMMETRY Symmetry
INVARIANTS
    NoOrphanSeen
