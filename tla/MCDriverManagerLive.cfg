SPECIFICATION FairSpec
CONSTANTS
    Procs = {p1, p2}
    NoProc = NoProc
    Capabilities = {read}
    Enabled = FALSE
    Budget = 1
    Persistent = TRUE
    MaxOperations = 2
    MaxGenerations = 1
PROPERTIES
    TransientStatesEnd
    ShutdownSettles
CHECK_DEADLOCK FALSE
