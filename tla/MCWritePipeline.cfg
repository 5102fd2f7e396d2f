SPECIFICATION FairSpec
CONSTANTS
  Machine = {m1}
  r1 = r1
  r2 = r2
  r3 = r3
  r4 = r4
  Read = {r1, r2, r3, r4}
  Bytes <- MCBytes
  BufferBytes = 2
  RegisterBufferNum = 2
  NoPiece = NoPiece
INVARIANTS TypeOK BufferOwnership NoLostWakeup
PROPERTIES StreamRefinement StreamProgress
CHECK_DEADLOCK FALSE
