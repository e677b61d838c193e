SPECIFICATION Spec
CONSTANTS
    Procs = {p1, p2}
    NoProc = NoProc
    Capabilities = {read, write}
    Enabled = TRUE
    Budget = 1
    Persistent = FALSE
    MaxOperations = 3
    MaxGenerations = 2
SYMMETRY Symmetry
PROPERTY ProvenCloseIsQuiet
CHECK_DEADLOCK FALSE
