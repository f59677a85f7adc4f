CONSTANTS
    Sector = 3
    Sectors = 2
    RingSize = 3
    ChunkSize = 2
    LineMax = 2
    Erased = Erased
    Junk = Junk
    MaxLines = 4
    MaxFaults = 2
SPECIFICATION Spec
CHECK_DEADLOCK FALSE
INVARIANTS WholeLines LapFound WritesErased
