SPECIFICATION Spec
CONSTANTS
    traffic = traffic  weather = weather  ra = ra  rb = rb  s1 = s1  s2 = s2
    None = None
    Topics = {traffic, weather}
    Traffic = traffic
    Roads = {ra, rb}
    Records = {s1, s2}
    Backlogs <- Leak
    MaxStops = 0
    Delay = 1
    Window = 3
    Bound = 2
    Frame = 1
    Recent = 0
    Times = {0, 1, 2, 3}
    MaxRecoveries = 0
INVARIANTS PointInTime
CHECK_DEADLOCK FALSE
