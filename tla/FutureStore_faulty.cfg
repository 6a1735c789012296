CONSTANTS
    r1 = r1 r2 = r2 alice = alice bob = bob run1 = run1 nobody = nobody
    Requests <- TwoRequests
    Models <- OneRun
    Users <- OneUser
    NoRequest = nobody
    SaveOutcomes <- AllSaves
    Expiry = TRUE
    Cleanups = TRUE
    MaxRestarts = 1
SPECIFICATION FairSpec
INVARIANT FreshIds
INVARIANT PendingHasTask
PROPERTY EveryFutureCompletes
CHECK_DEADLOCK FALSE
