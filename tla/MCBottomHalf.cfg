CONSTANTS
    Works = {x, y, z}
    NoWork = NoWork
    Levels = 2
    Depth = 2
    MaxTriggers = 4
SPECIFICATION LiveSpec
INVARIANTS QueuedOnce NoLostWakeup PendingAccounted
PROPERTY QueuedServed
CHECK_DEADLOCK FALSE
