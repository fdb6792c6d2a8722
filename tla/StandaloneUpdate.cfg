SPECIFICATION FairSpec
CONSTANTS
    Updaters = {u1, u2, u3}
    MaxUpdates = 2
    FaultSets <- AnyOrForward
INVARIANTS NeverLost
PROPERTIES ReplacesSafely ServiceRestored
CHECK_DEADLOCK FALSE
