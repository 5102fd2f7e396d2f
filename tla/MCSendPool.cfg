SPECIFICATION FairSpec
CONSTANTS
  s1 = s1
  s2 = s2
  s3 = s3
  r1 = r1
  w1 = w1
  Message = {s1, s2, s3, r1}
  HasCallback = {s1, s2, r1}
  Reply <- MCReply
  Piece = {w1}
  Elements <- MCElements
  NoMessage = NoMessage
  NoBuffer = NoBuffer
INVARIANTS TypeOK BufferOwnership WorkRequestsLive
PROPERTIES ServiceRefinement ServiceProgress
CHECK_DEADLOCK FALSE
