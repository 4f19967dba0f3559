SPECIFICATION FairSpec
CONSTANTS
    g1 = g1
    g2 = g2
    g3 = g3
    s1 = s1
    k1 = k1
    none = none
    Gates = {g1, g2, g3}
    Resources = {k1}
    Sessions = {s1}
    NoSession = none
    SessionOf <- MCSessionOfCron
    Kind <- MCKind
    ResourceOf <- MCResourceOf
    SubAgents = {}
    Unextracted = {}
    Abortable = {g1}
    MaxClicks = 1
    MaxFaults = 1
    MaxCrashes = 1
INVARIANTS
    NoAllowWithoutConsent
    StandingDenyHolds
    RowTellsOutcome
PROPERTIES
    GatesEnd
CHECK_DEADLOCK FALSE
