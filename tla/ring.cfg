SPECIFICATION Spec
CONSTANTS
  w1 = w1
  w2 = w2
  acc = acc
  c1 = c1
  c2 = c2
  none = none
  Workers <- TwoWorkers
  Acceptor = acc
  SessionMax = 2
  RingMax = 2
  Conns <- TwoConns
  MaxMsg = 1
  Window = 1
  None = none
CHECK_DEADLOCK FALSE
SYMMETRY Symmetry
INVARIANTS
  SlotLife
  SendExclusive
  NoDebugBreak
PROPERTIES
  ServesEchoes
