CONSTANTS
    Size = 4
    PtrMod = 8
    Data = {a, b}
    MaxBlock = 3
SPECIFICATION FifoSpec
INVARIANTS WithinCapacity NoOverlap
PROPERTY RefinesQueue
