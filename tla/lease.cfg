CONSTANTS
  Jobs <- OneJob
  Hosts <- TwoHosts
  Platform = {}
  Outcomes = {"valid"}
  MaxAttempts = 2
  MaxPosts = 2
  MaxFaults = 1
  MayCancel = TRUE
  NULL = NULL
SPECIFICATION FairSpec
INVARIANTS
  FencesDistinct
  StoredStaysAccepted
PROPERTIES
  ImplementsContract
  JobsSettle
CHECK_DEADLOCK FALSE
