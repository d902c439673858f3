SPECIFICATION FairSpec
CONSTANTS
    c1 = c1  c2 = c2  p1 = p1  p2 = p2  r1 = r1  r2 = r2  r3 = r3
    hanoi = hanoi  hcmc = hcmc  tomtom = tomtom  here = here
    None = None  Malformed = Malformed
    Consumers = {c1, c2}
    Partitions = {p1}
    Roads = {r1, r2, r3}
    Observations <- Mixed
    LegacyHistory <- NoLegacy
    LegacyCurrent <- NoLegacyLive
    PartitionOf <- KeyedOne
    Approved <- Cities
    MaxClock = 2
    MaxPublished = 2
    MaxFaults = 1
    MaxBoots = 1
INVARIANTS LiveIsNewest AckedIsStored
PROPERTIES EveryMessageAcked
