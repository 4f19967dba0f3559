SPECIFICATION Spec
CONSTANTS
  p1 = p1
  p2 = p2
  w1 = w1
  w2 = w2
  w3 = w3
  org = org
  None = None
  Pages <- MCPages
  Writers <- MCWriters
  Targets <- MCTargets
  MaxAmbient = 1
SYMMETRY MCSymmetry
INVARIANTS
  AmbientCap
  LinksFollowContent
  UnsharedIsHidden
CHECK_DEADLOCK FALSE
