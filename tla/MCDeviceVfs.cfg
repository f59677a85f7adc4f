CONSTANTS
    Users = {t1, t2, t3}
    MaxBinds = 1
SPECIFICATION LiveSpec
INVARIANTS CountsExact DrainedAlone TableSafe ProbedIsClosed
PROPERTY ClosedRemoveEnds
CHECK_DEADLOCK FALSE
