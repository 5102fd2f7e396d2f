SPECIFICATION FairSpec
CONSTANTS
  Machine = {m0, m1}
  Iterations = 1
  RegisterBufferNum = 1
  BarrierBefore = FALSE
PROPERTIES BothFinish
CHECK_DEADLOCK FALSE
