SPECIFICATION FairSpec
CONSTANTS
  t1 = t1
  t2 = t2
  net = net
  c = c
  d = d
  Dirs <- TwoDirs
  FirstDir = c
  none = none
  Threads <- TwoThreads
  Tags <- OneTag
  Messages <- SomeMessages
  HeaderLen = 3
  FirstBufLen = 8
  ResizeLen = 2
  YearLen = 12
  MaxMonth = 1
  MaxCalls = 2
  MaxSettings = 2
  Levels <- TwoLevels
  None = none
CHECK_DEADLOCK FALSE
INVARIANTS
  LinesInOrder
  LineFits
PROPERTIES
  LossHasCause
  CallsReturn
