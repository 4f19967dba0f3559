SPECIFICATION FairSpec
CONSTANTS
    p1 = p1
    p2 = p2
    p3 = p3
    p4 = p4
    q1 = q1
    s1 = s1
    s2 = s2
    Sessions = {s1}
    Primary = {p1, p2, p4}
    SubAgents = {}
    SessionOf <- MCSessionOfLive
    ZeroIdle = {p2}
    Failable = {p1}
    MaxWarm = 1
    MaxEphemeral = 1
    Ceiling = 2
    MaxFaults = 1
    MaxRestarts = 0
PROPERTIES
    WaitersServed
    ContainersStop
CHECK_DEADLOCK FALSE
