SPECIFICATION Spec
CONSTANTS
  w1 = w1
  w2 = w2
  acc = acc
  c1 = c1
  c2 = c2
  none = none
  junk = junk
  Workers <- OneWorker
  Acceptor = acc
  SessionMax = 1
  Conns <- TwoConns
  MaxMsg = 0
  MaxSend = 1
  Overload = TRUE
  MainCalls <- NoCalls
  None = none
  Garbage = junk
CHECK_DEADLOCK FALSE
INVARIANTS
  SlotForEach
