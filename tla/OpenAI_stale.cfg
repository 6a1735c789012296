SPECIFICATION Spec
CONSTANTS
    step1 = step1
    step2 = step2
    bare = bare
    run1 = run1
    run2 = run2
    Replicas = 2
    Calls = {c1, c2}
    Checkpoints <- AllCheckpoints
    RunOf <- RunOfCheckpoint
    Bare <- BareCheckpoints
    Base = Base
    None = None
INVARIANT AnsweredByNamed
CHECK_DEADLOCK FALSE
