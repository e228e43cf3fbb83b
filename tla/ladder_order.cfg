CONSTANTS
  Intents <- ThreeIntents
  Versions <- OneVersion
  Milestones = {"m1"}
  Hosts <- OneHost
  VersionOf <- OnVersion1
  OwnerOf <- TwoOwners
  ArtifactOf <- OwnArtifact
  PublishRequested <- FirstPrivate
  GroupOf <- OneGroup
  PolicyOf <- PlatformRule
  MetricOf <- ExactAll
  Threshold <- MilestoneAt2
  Performance = {}
  Requires <- NoRequirement
  Ticks = {1, 2}
  Reports = {"valid"}
  Decisions = {}
  Expiring = {}
  ActiveLimit = 2
  MaximumUnits = 6
  MaxAttempts = 1
  NULL = NULL
SPECIFICATION Spec
INVARIANTS
  WatermarkOrder
  VerifiedBest
  FrontierIsPublicBest
PROPERTIES
  FrontierMonotone
CHECK_DEADLOCK FALSE
