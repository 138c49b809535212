SPECIFICATION Spec
CONSTANTS
  decision = decision
  fact = fact
  x = x
  y = y
  f = f
  g = g
  None = None
  Fields = {f, g}
  Atoms = {x, y}
  Arrays = {}
  Scalars = {}
  Topics <- MCTopics
  HighRiskTopics <- MCHighRisk
  ExpandableTopics <- MCExpandable
  Scopes <- MCScopes
  Proposals <- MCOneFact
  EditValues <- MCNoEdits
  Users = {ann}
  ClientKeys = {k1}
  Genesis = c0
  CommitIds = {c0, c1, c2, c3}
  DeltaIds = {d1, d2, d3}
  RequestIds = {r1, r2, r3}
  ChangeIds = {e1}
  Lineages = {1, 2}
  MaxUnderWay = 1
SYMMETRY Ids
CHECK_DEADLOCK FALSE
INVARIANTS
  ProjectionIsHead
  LineagesNeverFork
