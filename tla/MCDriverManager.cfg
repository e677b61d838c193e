SPECIFICATION Spec
CONSTANTS
    Procs = {p1, p2, p3}
    NoProc = NoProc
    Capabilities = {read, write}
    Enabled = TRUE
    Budget = 1
    Persistent = FALSE
    MaxOperations = 3
    MaxGenerations = 2
SYMMETRY Symmetry
INVARIANTS
    TypeOK
    AtMostOneConstruction
    PublishedIsOpen
    LifecycleFollowsPublication
    NoAbandonedProvider
PROPERTIES
    CanceledNeverPublished
    QuarantineLatched
    ImplementsContract
CHECK_DEADLOCK FALSE
