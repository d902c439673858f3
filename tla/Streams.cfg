SPECIFICATION FairSpec
CONSTANTS
    traffic = traffic  weather = weather  ra = ra  rb = rb  s1 = s1  s2 = s2
    None = None
    Topics = {traffic, weather}
    Traffic = traffic
    Roads = {ra, rb}
    Records = {s1, s2}
    Backlogs <- Everything
    MaxStops = 1
    Delay = 1
    Window = 3
    Bound = 2
    Frame = 1
    Recent = 0
    Times = {0, 1, 2, 3}
    MaxRecoveries = 1
INVARIANTS TypeOK CommittedIsForwarded NoGaps HistoryComplete CountedOnce FramesExact
PROPERTIES EveryMessageForwarded
CHECK_DEADLOCK FALSE
