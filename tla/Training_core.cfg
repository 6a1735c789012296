CONSTANTS
    m1 = m1 o1 = o1 o2 = o2 o3 = o3
    Runs <- OneRun
    Ops <- ThreeOps
    Kinds <- AllKinds
    Types <- TrainingOnly
    NameArgs <- NoNames
    MaxSeq = 2
    MaxFuture = 0
    Faults <- BackendFaults
    MaxRestarts = 1
SPECIFICATION Spec
INVARIANT CheckpointsKeepTheirWeights
PROPERTY EffectsInSequence
INVARIANT CountersCover
SYMMETRY Symmetry
CHECK_DEADLOCK FALSE
