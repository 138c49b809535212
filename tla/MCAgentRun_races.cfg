SPECIFICATION Watched
CONSTANTS
  None = None
  r1 = r1
  c1 = c1
  c2 = c2
  ana = ana
  bo = bo
  Users <- TwoUsers
  RunIds <- OneRun
  Calls <- TwoCalls
CHECK_DEADLOCK FALSE
INVARIANTS TypeOK PublicationAuditedOnce CompletionAnsweredIsStored
PROPERTIES KeepsPromise ExecutionEnds
