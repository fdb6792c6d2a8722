SPECIFICATION LogSpec
CONSTANTS
    MaxEntries = 3
    MaxAge = 1
    l1 = l1
    l2 = l2
    Legacy = {l1, l2}
    LegacyAt <- MixedAt
    Garbled = Garbled
    NotLegacy = NotLegacy
    MaxDay = 2
    MaxIds = 5
    FaultSets = {{"disk"}, {"corruption"}}
INVARIANTS OutputKept HistoryKept
PROPERTIES OrphansAge LegacyImported
CHECK_DEADLOCK FALSE
