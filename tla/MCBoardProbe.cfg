CONSTANTS
    N = 3
    Trees <- MCTrees
SPECIFICATION Spec
INVARIANTS FailuresContained StallDisables
PROPERTY RemoveOrder
CHECK_DEADLOCK FALSE
