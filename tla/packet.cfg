SPECIFICATION FairSpec
CONSTANTS
  s1 = s1
  s2 = s2
  Capacity = 5
  Widths <- SomeWidths
  Sessions <- TwoSessions
  Home = s1
  MaxClears = 1
CHECK_DEADLOCK FALSE
INVARIANTS
  ReadBack
  SentWhole
  AliveWhileUsed
PROPERTIES
  Deleted
