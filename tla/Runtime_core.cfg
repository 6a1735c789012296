CONSTANTS
    None = None Given = Given
    p1 = p1 t1 = t1 t2 = t2 a1 = a1 a2 = a2
    Procs <- OneProc
    Threads <- TwoThreads
    ProcessOf <- ThreadsOfP
    Daemons <- OneDaemon
    Addresses <- TwoAddresses
    Default = a1
    Env = None
    InitArgs <- CoreArgs
    Faults <- AllFaults
    MaxCalls = 3
SPECIFICATION Spec
INVARIANT NoStrayChild
INVARIANT ExitStopsServers
INVARIANT NoNeedlessLaunch
CHECK_DEADLOCK FALSE
