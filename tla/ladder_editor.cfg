CONSTANTS
  Intents <- TwoIntents
  Versions <- OneVersion
  Milestones = {"m1"}
  Hosts <- OneHost
  VersionOf <- OnVersion1
  OwnerOf <- TwoOwners
  ArtifactOf <- OwnArtifact
  PublishRequested <- FirstPrivate
  GroupOf <- OneGroup
  PolicyOf <- PlatformRule
  MetricOf <- ExactAll
  Threshold <- MilestoneAt2
  Performance = {"v1"}
  Requires <- FirstMeasured
  Ticks = {1, 2}
  Reports = {"valid", "challenge_fault"}
  Decisions = {"pause", "resume", "reject", "withdraw", "compromise", "resolve_unscorable"}
  Expiring = {"v1"}
  ActiveLimit = 2
  MaximumUnits = 4
  MaxAttempts = 1
  NULL = NULL
SPECIFICATION Spec
INVARIANTS
  FirstCrosserClaims
  CapacityConserved
PROPERTIES
  RetiredRefuses
CHECK_DEADLOCK FALSE
