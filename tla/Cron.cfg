SPECIFICATION Spec
CONSTANTS
    t1 = t1
    u1 = u1
    k1 = k1
    k2 = k2
    d1 = d1
    Editors = {d1}
    Changes <- MCChanges
    e1 = e1
    e2 = e2
    Tasks = {t1}
    Users = {u1}
    OwnerOf <- MCOwnerOf
    Ticks = {k1, k2}
    Execs = {e1, e2}
    BatchSize = 1
    MaxGlobal = 2
    MaxPerUser = 2
    MaxFailures = 2
    OneShots = {}
    MaxEvents = 2
INVARIANTS
    NoDoubleRun
    BreakerTrips
    ScheduleKept
SYMMETRY MCSymmetry
CHECK_DEADLOCK FALSE
