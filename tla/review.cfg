CONSTANTS
  VersionIds <- First
  V2 <- First
  Elevated = {}
  Independent <- First
  MaxPreflights = 2
  MaxRequests = 1
  MaxTries = 2
  MaxLost = 3
  MaxDecisions = 2
  Verdicts = {"approve_review", "changes_required", "reject", "compromise"}
SPECIFICATION FairReviewSpec
INVARIANTS
  LockBindsReview
PROPERTIES
  PreflightResolves
  ReviewAnswered
CHECK_DEADLOCK FALSE
