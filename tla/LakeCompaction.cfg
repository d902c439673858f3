SPECIFICATION Spec
CONSTANTS
    d1 = d1  d2 = d2  slow = slow  late = late  odd = odd
    o1 = o1  o2 = o2  o3 = o3  o4 = o4  o5 = o5  o6 = o6  x1 = x1  x2 = x2
    c1 = c1  c2 = c2  r1 = r1
    None = None
    Events = {slow}
    Undated = {}
    Window = {}
    Parts = {d1}
    PartitionOf <- OneDay
    Keys = {o1, o2, o3, x1, x2}
    KeyPart <- SameDay
    Rank <- Listing
    Compactions = {c1, c2}
    Output <- Separate
    Replays = {}
    Batch = 2
    Page = 2
    MaxTopic = 2
    MaxManifests = 1
    MaxFaults = 1
SYMMETRY SymmetricKeys
INVARIANTS TypeOK AckedIsArchived DatasetIsFrozen
PROPERTIES ImplementsHistory
