SPECIFICATION Spec
CONSTANTS
    Jobs = {j1}
    MaxEvents = 2
    MaxLog = 2
    PageLimit = 1
    MaxSequence = 4
    MaxProcesses = 2
    MaxFaults = 1
    MaxDrops = 1
INVARIANTS
    NoHoles
    WrittenIsKept
    NoSilentLoss
    SavedIsShown
PROPERTIES
    FeedIsKept
CHECK_DEADLOCK FALSE
