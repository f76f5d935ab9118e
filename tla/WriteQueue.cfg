SPECIFICATION WriteQueueSpec
CONSTANTS
    Threads = {"t1", "t2", "t3"}
    NoThread = "none"
    Trigger = 1
    Slowdown = 2
    Stop = 2
    Requests <- FourWrites
    MaxFaults = 1
    MaxSpurious = 1
CHECK_DEADLOCK FALSE
INVARIANTS
    LogIsTheQueue
PROPERTIES
    WritesAreAnswered
