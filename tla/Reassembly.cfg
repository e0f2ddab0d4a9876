CONSTANTS
  n1 = n1
  n2 = n2
  Node = {n1, n2}
  Program <- MCProgram
  SeqNo = {0, 1}
  FrameMax = 4
  MaxPayload = 8
  SplitTimeout = 1
  NoFrame = noframe
  Damaged = damaged
  NoHalf = nohalf
  MaxTime = 2
SPECIFICATION Spec
CHECK_DEADLOCK FALSE
INVARIANTS
  TypeOK
  WholeUnlessClash
  JoinedInTime
PROPERTIES
  CleanPairReturned
