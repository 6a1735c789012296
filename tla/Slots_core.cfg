CONSTANTS
    r1 = r1 r2 = r2 o1 = o1 o2 = o2
    Runs <- TwoRuns
    Operations <- TwoOperations
    Calls <- PrepareAndUse
    World = 2
    Capacities <- OneOrTwo
    Sizes <- UnevenSizes
    MicroBatch = 1
    Scale = 3600
    Faults <- AllButEarly
    MaxFaults = 1
SPECIFICATION FairSpec
INVARIANT SlotsAreExclusive
INVARIANT ActorsAgree
INVARIANT SlotsComeBack
PROPERTY EveryoneIsAnswered
PROPERTY AdaptersArePrivate
CHECK_DEADLOCK FALSE
