SPECIFICATION Spec
CONSTANTS
    r1 = r1
    r2 = r2
    d1 = d1
    d2 = d2
    Results = {r1}
    Deliverers = {d1, d2}
    WaveSize = 1
    MaxAttempts = 2
    MaxFailures = 2
    MaxReinvocations = 1
    MaxWakeups = 1
    MaxTurns = 0
    MaxWindows = 0
    MaxCrashes = 1
    MaxFaults = 1
INVARIANTS
    OneDeliverer
    AttemptsEarned
PROPERTIES
    KeepsMailbox
    FencedRelease
SYMMETRY Symmetry
CHECK_DEADLOCK FALSE
