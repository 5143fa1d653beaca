SPECIFICATION FairSpec
CONSTANTS
  w1 = w1
  w2 = w2
  acc = acc
  c1 = c1
  c2 = c2
  none = none
  junk = junk
  Workers <- TwoWorkers
  Acceptor = acc
  SessionMax = 1
  Conns <- OneConn
  MaxMsg = 1
  MaxSend = 2
  Overload = FALSE
  MainCalls <- StopCall
  None = none
  Garbage = junk
CHECK_DEADLOCK FALSE
INVARIANTS
  TypeOK
PROPERTIES
  ServesEchoes
  SessionsEnd
  EchoServed
  StopReturns
