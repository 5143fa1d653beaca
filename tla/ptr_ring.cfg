SPECIFICATION RingSpec
CONSTANTS
  Capacity = 15
  Word = 4
  Packets <- TwoPackets
  None = 0
CHECK_DEADLOCK FALSE
INVARIANTS
  GatheredAreQueued
PROPERTIES
  Linearizable
