SPECIFICATION Spec
CONSTANTS
    t1 = t1
    t2 = t2
    t3 = t3
    t4 = t4
    u1 = u1
    u2 = u2
    Users = {u1, u2}
    Tasks <- MCTasks4
    UserOf <- MCUserOf4
    MaxConcurrent = 1
    MaxPending = 2
    PolicyConc <- MCConc
    PolicyPend <- MCPend
    DefaultConc = 2
    DefaultPend = 2
    Cancellable = {}
    Stoppable = {}
    Reapable = {}
    MaxCrashes = 0
    MaxFaults = 0
INVARIANTS
    SlotAccounting
    LimitsRespected
    NoIdleBacklog
    ReportedOnce
SYMMETRY MCSymmetry
CHECK_DEADLOCK FALSE
