CONSTANTS
    m1 = m1 o1 = o1 o2 = o2 o3 = o3
    Runs <- OneRun
    Ops <- TwoOps
    Kinds <- AllKinds
    Types <- BothTypes
    NameArgs <- SomeNames
    MaxSeq = 1
    MaxFuture = 0
    Faults <- AllFaults
    MaxRestarts = 1
SPECIFICATION Spec
INVARIANT OneOperationPerRun
PROPERTY StoredCounterNeverDecreases
SYMMETRY Symmetry
CHECK_DEADLOCK FALSE
