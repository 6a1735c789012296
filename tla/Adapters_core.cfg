CONSTANTS
    Base = Base None = None
    r1 = r1 r2 = r2 o1 = o1 o2 = o2 o3 = o3
    Runs <- TwoRuns
    Operations <- ThreeOperations
    Calls <- AllCalls
    Faults <- HalfCreations
SPECIFICATION Spec
INVARIANT OptimizersAreOwn
INVARIANT AdaptersComeBack
PROPERTY AdaptersArePrivate
CHECK_DEADLOCK FALSE
