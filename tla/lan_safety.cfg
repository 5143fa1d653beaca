SPECIFICATION Spec
CONSTANTS
  w1 = w1
  w2 = w2
  acc = acc
  c1 = c1
  c2 = c2
  none = none
  junk = junk
  Workers <- TwoWorkers
  Acceptor = acc
  SessionMax = 1
  Conns <- TwoConns
  MaxMsg = 2
  MaxSend = 1
  Overload = FALSE
  MainCalls <- DisconnectCall
  None = none
  Garbage = junk
CHECK_DEADLOCK FALSE
SYMMETRY Symmetry
INVARIANTS
  IOCountExact
  SlotLife
  RecvExclusive
  SendExclusive
  RefCountExact
  NoOrphanedSend
  EchoInOrder
  NoDebugBreak
PROPERTIES
