SPECIFICATION FairSpec
CONSTANTS
    Warmups = 1
    Repetitions = 3
    ConfidencePPM = 700000
    MaxRelativeWidth <- MCWidth
    MinRuns = 1
    MaxRuns = 8
    BaselineTimes = {2}
    CandidateTimes = {1, 2}
INVARIANTS
    MeasuredRunIsWhole
    ScoreIsConfident
    FaultIsNotLoss
PROPERTIES
    SessionEnds
