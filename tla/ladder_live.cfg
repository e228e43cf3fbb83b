CONSTANTS
  Intents <- TwoIntents
  Versions <- OneVersion
  Milestones = {"m1"}
  Hosts <- TwoHosts
  VersionOf <- OnVersion1
  OwnerOf <- TwoOwners
  ArtifactOf <- OwnArtifact
  PublishRequested <- FirstPrivate
  GroupOf <- PairOfGroups
  PolicyOf <- IndependentRule
  MetricOf <- TolerantMinimum
  Threshold <- MilestoneAt2
  Performance = {}
  Requires <- NoRequirement
  Ticks = {1, 2, 4}
  Reports = {"valid", "declared_timeout", "infrastructure_fault"}
  Decisions = {}
  Expiring = {}
  ActiveLimit = 1
  MaximumUnits = 4
  MaxAttempts = 2
  NULL = NULL
SPECIFICATION FairSpec
INVARIANTS
  ConfirmedTwice
PROPERTIES
  NoSilentStall
CHECK_DEADLOCK FALSE
