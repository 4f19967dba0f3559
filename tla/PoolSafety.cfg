SPECIFICATION Spec
CONSTANTS
    p1 = p1
    p2 = p2
    p3 = p3
    p4 = p4
    q1 = q1
    s1 = s1
    s2 = s2
    Sessions = {s1, s2}
    Primary = {p1, p2, p3}
    SubAgents = {q1}
    SessionOf <- MCSessionOf
    ZeroIdle = {p2}
    Failable = {p1, p3}
    MaxWarm = 1
    MaxEphemeral = 1
    Ceiling = 2
    MaxFaults = 1
    MaxRestarts = 1
INVARIANTS
    SessionExclusive
    NoContainerLeaks
    ContainerKept
CHECK_DEADLOCK FALSE
