CONSTANTS
    Works = {x}
    NoWork = NoWork
    Levels = 1
    Depth = 2
    MaxTriggers = 3
SPECIFICATION Spec
INVARIANT TriggerRecorded
CHECK_DEADLOCK FALSE
