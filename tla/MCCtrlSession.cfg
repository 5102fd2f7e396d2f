SPECIFICATION FairSpec
CONSTANTS
  a0 = a0
  a1 = a1
  a2 = a2
  MachineNum = 3
  Addr <- MCAddr
  NoAddr = NoAddr
  max_retry_num = 2
INVARIANTS TypeOK IdsRight NoSpuriousFailure
PROPERTIES LossEndsAll StartupEnds
CHECK_DEADLOCK FALSE
