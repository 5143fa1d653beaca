SPECIFICATION Spec
CONSTANTS
  t1 = t1
  t2 = t2
  b1 = b1
  b2 = b2
  b3 = b3
  null = null
  Procs <- TwoProcs
  Blocks <- ThreeBlocks
  TagMod = 4
  Null = null
  MaxPush = 4
SYMMETRY StackSymmetry
CHECK_DEADLOCK FALSE
INVARIANTS
  NodesConserved
PROPERTIES
  Linearizable
