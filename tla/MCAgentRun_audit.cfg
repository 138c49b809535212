SPECIFICATION Watched
CONSTANTS
  None = None
  r1 = r1
  c1 = c1
  c2 = c2
  ana = ana
  bo = bo
  Users <- OneUser
  RunIds <- OneRun
  Calls <- TwoCalls
CHECK_DEADLOCK FALSE
INVARIANTS CancellationsAudited
