CONSTANTS
    f = f
    u = u
    Keys <- MCKeys
    Values = {0, 1}
    Factory <- MCFactory
    MAX_ENTRIES = 3
    MaxBoots = 3
SPECIFICATION Spec
INVARIANTS AckedIntact UserKeysSurvive FactoryLoaded
CHECK_DEADLOCK FALSE
