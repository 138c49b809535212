SPECIFICATION Graceful
CONSTANTS
  None = None
  c1 = c1
  c2 = c2
  ana = ana
  bo = bo
  k1 = k1
  k2 = k2
  hi = hi
  Users <- OneUser
  Calls <- OneCall
  ClientMessageIds = {k1}
  Contents = {hi}
CHECK_DEADLOCK FALSE
INVARIANTS ShutdownEndsReplies
