CONSTANTS
    q1 = q1 q2 = q2 m1 = m1 alice = alice nobody = nobody
    Ops <- TwoRequests
    Runs <- OneRun
    Users <- OneUser
    Nobody = nobody
    Kinds <- SaveAndStep
    Types <- BothTypes
    NameArgs <- NoNames
    MaxSeq = 2
    MaxFuture = 2
    Faults <- NoFaults
    MaxRestarts = 2
SPECIFICATION FairSpec
INVARIANT LateFuturesFailed
INVARIANT SuccessIsCounted
INVARIANT CancelledIsNotApplied
PROPERTY EveryRequestResolves
CHECK_DEADLOCK FALSE
