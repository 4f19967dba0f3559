SPECIFICATION FairSpec
CONSTANTS
    r1 = r1
    r2 = r2
    d1 = d1
    d2 = d2
    Results = {r1}
    Deliverers = {d1, d2}
    WaveSize = 1
    MaxAttempts = 2
    MaxFailures = 1
    MaxReinvocations = 1
    MaxWakeups = 1
    MaxTurns = 1
    MaxWindows = 1
    MaxCrashes = 1
    MaxFaults = 0
PROPERTIES
    ProcessingDrains
    DeferralNeverStrands
CHECK_DEADLOCK FALSE
