CONSTANTS
  ann = ann  c1 = c1  c2 = c2  x = x  y = y  d1 = d1  q1 = q1
  None = None
  Owners = {ann}
  Commits = {c1, c2}
  Artifacts = {x, y}
  Content <- SameContent
  Disks = {d1}
  Candidates = {q1}
  Author <- ByAnn
  Claims <- SomeClaims
  Rivals = {x}
  Scored = {1}
  metric <- Raised
  LiveTickets = 2
  ActiveLimit = 2
  MaxTries = 2
  MaxTickets = 2
  PoolSize = 2
  Policy = "independent"
SPECIFICATION FairSpec
INVARIANTS
  AdmissionBound
  ActiveBounded
PROPERTIES
  AcceptedStays
  IntentSettles
CHECK_DEADLOCK FALSE
