SPECIFICATION Spec
CONSTANTS
    s1 = s1
    i1 = i1
    i2 = i2
    portainer = portainer
    Stacks = {s1}
    Images <- TwoImages
    Backends = {portainer}
    BackendOf <- OnPortainer
    Scans = {job, dashboard}
    StaleAfter = 2
    MaxNow = 3
    MaxReleases = 3
    FaultSets = {{"backend"}, {"registry", "overlap"}, {"registry", "backend", "overlap", "cut"}}
INVARIANTS NoSilentDedup AnnouncedOnce StaleWarned
