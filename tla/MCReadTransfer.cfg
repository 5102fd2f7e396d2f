SPECIFICATION FairSpec
CONSTANTS
  m0 = m0
  m1 = m1
  r1 = r1
  r2 = r2
  r3 = r3
  Machine = {m0, m1}
  Read = {r1, r2, r3}
  NoRead = NoRead
  Bytes <- MCBytes
  Source <- MCSource
  BufferBytes = 2
  RegisterBufferNum = 2
  RecvWrNum = 2
  CbFirst = TRUE
  Deferred = {r3}
INVARIANTS TypeOK NoCheckFailure OneHolder NothingStuck DataIntegrity
PROPERTIES ServiceRefinement ServiceProgress
CHECK_DEADLOCK FALSE
