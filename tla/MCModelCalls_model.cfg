CONSTANTS
  None = None
  ours = ours
  other = other
  foreign = foreign
  EventLimit = 2
  StreamLimit = 6
  BodyLimit = 2
  ContentLimit = 2
  Identities <- Named
  OwnIdentities <- Ours
  WireEvents <- Events
  Deliveries <- Reads
  Completions <- Bodies
  Conforming <- Two
  e1 = e1
  ana = ana
  bo = bo
  Users <- TwoUsers
  Extractions <- OneExtraction
  MaxMessages = 3
  People <- TwoUsers
  Window = 2
  PackInputs <- Packs
  MaximumActiveItems = 12
  MaximumCharacters = 12
SPECIFICATION Calls
CHECK_DEADLOCK FALSE
INVARIANTS ProviderTypeOK NothingLeftBehind CitesWhatWasRead OneIdentity RequestsBelongToTheView PackTellsHead
PROPERTIES ImplementsModelStream RequestEnds ImplementsProposalRecord
