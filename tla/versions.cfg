CONSTANTS
  VersionIds <- TwoVersions
  V2 = {}
  Elevated = {}
  Independent = {}
  MaxPreflights = 1
  MaxRequests = 0
  MaxTries = 2
  MaxLost = 1
  MaxDecisions = 3
  Verdicts = {"reject", "compromise", "pause", "resume", "withdraw"}
  Milestones = {"m1", "m2"}
  FirstMilestones = {"m1"}
  Hidden <- TwoVersions
  EarlyReveal = {1}
  Expiring = {2}
  MaxReceipts = 1
  MaxFrontier = 1
SPECIFICATION FromPublished
INVARIANTS
  MigrationEvidence
  ClaimedWhereOpen
  SuiteSecret
PROPERTIES
  MigrationSettles
CHECK_DEADLOCK FALSE
