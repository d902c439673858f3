SPECIFICATION Spec
CONSTANTS
    i1 = i1  i2 = i2  e1 = e1  e2 = e2
    None = None
    Incidents = {i1, i2}
    Executors = {e1}
    Cooldown = 1
    Lease = 2
    MaxClock = 3
    MaxFaults = 1
SYMMETRY SymmetricIncidents
INVARIANTS TypeOK CooldownRespected RequestsAreAuthorized ExpiredNeverRestarted
PROPERTIES AuthorizedOnce ImplementsPromise
