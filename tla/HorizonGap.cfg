SPECIFICATION FairSpec
CONSTANTS
    k1 = k1  k2 = k2
    Null = Null  NaN = NaN
    Frames <- OneFrame
    Horizons = {1, 2}
    Furthest = 2
    MinTrain = 2
    Validation = 2
    Step = 2
    Holdout = 1
    MaxRuns = 1
    Scores <- OneScore
    Trainings = {}
    Seconds = {1}
    MaxDeaths = 0
    MaxPeak = 5
    Tolerance = 2
    Champions <- NoChampion
    MaxReviews = 1
    Asked <- Full
    MaxFeatures = 1
    MaxStops = 1
PROPERTIES AcceptedHorizonsServed
CONSTRAINT Bounded
CHECK_DEADLOCK FALSE
