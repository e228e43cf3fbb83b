SPECIFICATION FairSpec
CONSTANTS
    NProfiles = 2
    MaxJob <- MCMaxJob
    Jobs <- MCJobs
    Lifetime = 8
    MaxRenewal = 9
    SafetyWindow = 2
    Slack = 1
    RenewFloor = 3
    Hour = 1
    RetryAfter = 1
    BaseLease = 1
    Setup = 1
    Overhead = 0
    PrepareTime = 1
    MaximumJobLease = 4
    Tolerance = 1
    Skew = 1
    Transit = 1
    DiskLife = 10
    AdvisoryLife = 8
    MaxFaults = 1
INVARIANTS
    LeaseCovered
    WithdrawalBites
PROPERTIES
    HostRecovers
