SPECIFICATION FairSpec
CONSTANTS
    t1 = t1
    t2 = t2
    t3 = t3
    t4 = t4
    u1 = u1
    u2 = u2
    Users = {u1, u2}
    Tasks <- MCTasks1
    UserOf <- MCUserOf1
    MaxConcurrent = 2
    MaxPending = 2
    PolicyConc <- MCConc
    PolicyPend <- MCPend
    DefaultConc = 2
    DefaultPend = 2
    Cancellable = {t1}
    Stoppable = {t1}
    Reapable = {t1}
    MaxCrashes = 1
    MaxFaults = 1
PROPERTIES
    QueuedEventuallyServed
    EveryChildReported
CHECK_DEADLOCK FALSE
