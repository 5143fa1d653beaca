SPECIFICATION Spec
CONSTANTS
  w1 = w1
  w2 = w2
  acc = acc
  c1 = c1
  c2 = c2
  none = none
  Workers <- TwoWorkers
  Acceptor = acc
  Conns <- TwoConns
  MaxMsg = 2
  Nulls = 1
  None = none
CHECK_DEADLOCK FALSE
SYMMETRY Symmetry
INVARIANTS
  SessionLife
  NoLockCycle
  EchoesGoOut
PROPERTIES
  ServesEchoes
