SPECIFICATION FairSpec
CONSTANTS
    i1 = i1  i2 = i2  e1 = e1  e2 = e2
    None = None
    Incidents = {i1}
    Executors = {e1, e2}
    Cooldown = 1
    Lease = 2
    MaxClock = 3
    MaxFaults = 2
INVARIANTS AtMostOneRestart
PROPERTIES RequestIsPublished RequestIsAnswered ResolutionKept
