SPECIFICATION Spec
CONSTANTS
  r1 = r1
  r2 = r2
  l1 = l1
  l2 = l2
  t1 = t1
  None = None
  Sorter = Sorter
  Callers <- MCCallers
  Logins <- MCLogins
  Tools <- MCTools
  MaxActors = 3
  MaxConns = 2
  MaxAges = 2
  MaxEdits = 2
  MaxFaults = 1
INVARIANTS
  OneRefresh
  ReauthJustified
  StoredGrantLives
  HumanChoiceStands
SYMMETRY Interchangeable
CHECK_DEADLOCK FALSE
