SPECIFICATION Spec
CONSTANTS
    Batches <- TwoKeys
    NumLevels = 3
    MaxMemCompactLevel = 2
    L0Stop = 2
    MaxSeq = 3
    MaxViews = 1
    MaxCrashes = 1
    MaxFaults = 1
    PowerLoss = TRUE
    TornLogs = FALSE
    BlockSize = 6
    HeaderSize = 2
    Sizes = {0, 1, 5}
    MaxRecords = 3
    MaxFailures = 1
    CacheKeys = {"k1", "k2"}
    Handles = {"e1", "e2", "e3"}
    NoHandle = "none"
    Capacity = 2
    Charges = {1, 2}
    MaxRefs = 2
    IteratorKeys = {1, 2}
    NumRuns = 2
    MaxEntries = 3
    MaxInserts = 1
    NumKeys = 3
    MaxHeight = 2
    EncodedKeys <- FourKeys
    MaxByte = 2
    MaxNumber = 2
    RestartInterval = 2
    MaxKeys = 5
CHECK_DEADLOCK FALSE
INVARIANTS
    ReadsAreCurrent
    LevelsAreDisjoint
    FilesInUseExist
    RecoveryFindsEverything
    ReadsWhatWasWritten
    FreedWhenUnreachable
    LeastRecentlyUsedIsExact
    IteratorIsTheView
    NoKeyIsPassedOver
    IteratorShowsTheTable
    GetFindsTheNewest
