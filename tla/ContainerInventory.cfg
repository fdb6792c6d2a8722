SPECIFICATION InventorySpec
CONSTANTS
    a = a
    x1 = x1
    x2 = x2
    k1 = k1
    k2 = k2
    p1 = p1
    k = k
    NoProject = NoProject
    NoPath = NoPath
    Hosts = {a}
    Containers = {x1, x2, k1, k2}
    HostOf <- OnOneHost
    Projects = {p1, k}
    ProjectOf <- TwoProjects
    StackIds = {1, 2}
    PathId <- BothPaths
    Self = k1
    Scans = {1, 2}
    Worlds <- ThreeWorlds
INVARIANTS NobodyUnchecked NotTwice ChoiceKept
