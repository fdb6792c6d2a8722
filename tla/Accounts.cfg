SPECIFICATION AccountSpec
CONSTANTS
    m1 = m1
    m2 = m2
    s1 = s1
    s2 = s2
    s3 = s3
    Machines <- TwoMachines
    Slugs <- ThreeSlugs
    Nobody = Nobody
    Keys = {home}
    HomeKey = home
    Broken = Broken
    MaxHosts = 2
    FaultSets = {{"cut"}, {"torn"}, {"email"}}
    b1 = b1
    b2 = b2
    Browsers <- TwoBrowsers
    MaxChanges = 2
    MaxKeys = 1
    Scenes <- FourScenes
    OneHost <- TheHost
SYMMETRY TwoAlike
INVARIANTS  SecretsKept SessionsCurrent AccountKept
