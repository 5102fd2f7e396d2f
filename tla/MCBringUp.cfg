SPECIFICATION FairSpec
CONSTANTS
  m0 = m0
  m1 = m1
  m2 = m2
  h1 = h1
  h2 = h2
  Machine = {m0, m1, m2}
  Key <- MCKey
  Owner <- MCOwner
  Master = m0
  Barrier <- MCBarrier
  Handler = {h1, h2}
  MsgType <- MCTypes
  HandlerOrder <- MCOrder
INVARIANTS TypeOK NoCheckFailure TrafficReady HandlersEverywhere NothingStuck CallsUnderstood
PROPERTIES AllUp
CHECK_DEADLOCK FALSE
