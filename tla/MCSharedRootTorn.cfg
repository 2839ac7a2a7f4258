\* A listing may mix two states of the root, as POSIX allows.
SPECIFICATION Spec
CONSTANTS
    a = a
    b = b
    Owners = {a, b}
    NoEntry = NoEntry
    TornListing = TRUE
    MaxSources = 1
    MaxTemps = 2
    MaxFaults = 1
SYMMETRY Symmetry
INVARIANTS
    LinkedIsWhole
    GoneIsAnothersTemporary
PROPERTIES
    ImplementsRecordRoot
