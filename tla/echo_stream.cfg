SPECIFICATION FairSpec
CONSTANTS
  Capacity = 13
  PayloadSize = 2
  Window = 3
  MaxMessages = 14
CHECK_DEADLOCK FALSE
INVARIANTS
  EchoInOrder
  LentIsUnused
PROPERTIES
  AllEchoed
