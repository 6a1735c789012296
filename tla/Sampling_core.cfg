CONSTANTS
    s1 = s1 s2 = s2 r1 = r1 r2 = r2 c1 = c1 base = base
    Sessions <- TwoSessions
    Requests <- TwoRequests
    Calls <- OwnNumbers
    Checkpoints <- OneCheckpoint
    Base = base
    Instances = 2
    Faults <- AllButLost
    MaxRestarts = 2
SPECIFICATION FairSpec
INVARIANT EnginesAgree
INVARIANT RecordedBeforeSampled
PROPERTY QueuedTasksRun
PROPERTY CreationsEnd
PROPERTY SessionsArePermanent
CHECK_DEADLOCK FALSE
