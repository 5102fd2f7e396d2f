SPECIFICATION FairSpec
CONSTANTS
  m0 = m0
  m1 = m1
  m2 = m2
  h1 = h1
  h2 = h2
  Machine = {m0, m1}
  Key <- MCKey
  Owner <- MCOwner
  Master = m0
  Barrier <- MCBarrier
  Handler = {h1, h2}
  MsgType <- MCOneType
  HandlerOrder <- MCOrder
INVARIANTS HandlersEverywhere
CHECK_DEADLOCK FALSE
