SPECIFICATION Streaming
CONSTANTS
  None = None
  c1 = c1
  c2 = c2
  ana = ana
  bo = bo
  k1 = k1
  k2 = k2
  hi = hi
  Users <- TwoUsers
  Calls <- TwoCalls
  ClientMessageIds = {k1, k2}
  Contents = {hi}
  q1 = q1
  q2 = q2
  Connections <- TwoConnections
  Asked <- Everything
  Errors <- OneError
  MaximumRequestBody = 1
  MaxPieces = 1
CHECK_DEADLOCK FALSE
INVARIANTS
  TypeOK
  LockedReadsHold
  AnswersAreStored
  ResponsesAreWhole
PROPERTIES
  KeepsTranscript
  RepliesEnd
  ServerStops
