SPECIFICATION Spec
CONSTANTS
  r1 = r1
  r2 = r2
  c1 = c1
  None = None
  Runs <- MCRuns
  Compacts <- MCCompacts
  MaxPrimary = 1
  MaxFailures = 2
  MaxRounds = 2
  MaxFaults = 1
SYMMETRY MCSymmetry
INVARIANTS
  NothingLost
  TranscriptInOrder
  StoppedIsSilent
  
PROPERTIES
  OutcomeIsFinal
CHECK_DEADLOCK FALSE
