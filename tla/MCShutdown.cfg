SPECIFICATION FairSpec
CONSTANTS
  Machine = {m0, m1}
  Iterations = 2
  RegisterBufferNum = 1
  BarrierBefore = TRUE
INVARIANTS TypeOK NothingLost StopNotMissed NothingStuck
PROPERTIES BothFinish
CHECK_DEADLOCK FALSE
