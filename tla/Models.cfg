SPECIFICATION FairSpec
CONSTANTS
    k1 = k1  k2 = k2
    Null = Null  NaN = NaN
    Frames <- AllFrames
    Horizons = {1, 2}
    Furthest = 2
    MinTrain = 2
    Validation = 2
    Step = 2
    Holdout = 1
    MaxRuns = 2
    Scores <- AllScores
    Trainings = {k1, k2}
    Seconds = {1}
    MaxDeaths = 1
    MaxPeak = 5
    Tolerance = 2
    Champions <- AnyChampion
    MaxReviews = 1
    Asked <- Accepted
    MaxFeatures = 2
    MaxStops = 3
INVARIANTS TypeOK HoldoutUnseen ValidatedOnce VersionsComplete ApprovalDeserved CommittedIsForecast
PROPERTIES EveryFeatureRead
CONSTRAINT Bounded
CHECK_DEADLOCK FALSE
