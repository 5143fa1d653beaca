SPECIFICATION Spec
CONSTANTS
  p1 = p1
  p2 = p2
  c = c
  b1 = b1
  b2 = b2
  b3 = b3
  b4 = b4
  null = null
  Procs <- TwoProducers
  Consumer = c
  Blocks <- FourBlocks
  TagMod = 1
  Null = null
  Items <- TwoItems
  MaxLen = 2
CHECK_DEADLOCK FALSE
SYMMETRY QueueSymmetry
INVARIANTS
  NodesConserved
  CountedIsLinked
PROPERTIES
  Linearizable
