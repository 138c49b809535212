SPECIFICATION Spec
CONSTANTS
  decision = decision
  fact = fact
  x = x
  y = y
  f = f
  g = g
  None = None
  Fields = {f, g}
  Atoms = {x, y}
  Arrays = {}
  Scalars = {}
  Topics <- MCTopics
  HighRiskTopics <- MCHighRisk
  ExpandableTopics <- MCExpandable
  Scopes <- MCScopes
  Proposals <- MCOneDecision
  EditValues <- MCNoEdits
  Users = {ann, ben}
  ClientKeys = {k1, k2}
  Genesis = c0
  CommitIds = {c0, c1, c2}
  DeltaIds = {d1, d2}
  RequestIds = {r1, r2}
  ChangeIds = {e1}
  Lineages = {1, 2}
  MaxUnderWay = 2
SYMMETRY Ids
CHECK_DEADLOCK FALSE
INVARIANTS
  TypeOK
  HasOwner
  PlanStaysReviewed
  FinalizationsReplay
PROPERTIES
  HighRiskByOwner
  RequestsMoveForward
