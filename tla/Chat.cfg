SPECIFICATION ChatFairSpec
CONSTANTS
  s1 = s1
  s2 = s2
  s3 = s3
  Nil = Nil
  Sessions <- MCSessions2
  PageLimit = 4
  MaxSends = 2
  MaxChatEvents = 2
INVARIANTS
  SentWhereShown
  ViewInOrder
PROPERTIES
  RepliesShown
  
CHECK_DEADLOCK FALSE
