SPECIFICATION FairSpec
CONSTANTS
    d1 = d1  d2 = d2  slow = slow  late = late  odd = odd
    o1 = o1  o2 = o2  o3 = o3  o4 = o4  o5 = o5  o6 = o6  x1 = x1  x2 = x2
    c1 = c1  c2 = c2  r1 = r1
    None = None
    Events = {slow, late, odd}
    Undated = {odd}
    Window = {late}
    Parts = {d1, d2}
    PartitionOf <- Dated
    Keys = {o1, o2, o3, o4, o5, o6, x1}
    KeyPart <- TwoDays
    Rank <- LastListing
    Compactions = {c1}
    Output <- Separate
    Replays = {r1}
    Batch = 2
    Page = 1
    MaxTopic = 3
    MaxManifests = 0
    MaxFaults = 0
INVARIANTS ReplayComplete AckedIsArchived
PROPERTIES EveryMessageArchived
