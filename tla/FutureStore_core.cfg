CONSTANTS
    r1 = r1 r2 = r2 alice = alice bob = bob run1 = run1 nobody = nobody
    Requests <- TwoRequests
    Models <- OneRun
    Users <- TwoUsers
    NoRequest = nobody
    SaveOutcomes <- FullSaves
    Expiry = FALSE
    Cleanups = FALSE
    MaxRestarts = 2
SPECIFICATION Spec
INVARIANT TypeOK
INVARIANT AnsweredIsDurable
INVARIANT MemoryMatchesStore
PROPERTY ImplementsContract
SYMMETRY Symmetry
CHECK_DEADLOCK FALSE
