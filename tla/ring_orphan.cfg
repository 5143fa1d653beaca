SPECIFICATION Spec
CONSTANTS
  w1 = w1
  w2 = w2
  acc = acc
  c1 = c1
  c2 = c2
  none = none
  Workers <- TwoWorkers
  Acceptor = acc
  SessionMax = 1
  RingMax = 5
  Conns <- OneConn
  MaxMsg = 2
  Window = 2
  None = none
CHECK_DEADLOCK FALSE
INVARIANTS
  NoOrphanedSend
