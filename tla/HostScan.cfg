SPECIFICATION FairSpec
CONSTANTS
    Hosts = {h1, h2}
    Slots = 1
    MaxTurns = 2
    FaultSets = {{"torn"}, {"cut", "torn"}, {"edit"}, {"edit", "cut"}}
INVARIANTS HostNotSilenced HostAnnouncedOnce
PROPERTIES ScanEnds
