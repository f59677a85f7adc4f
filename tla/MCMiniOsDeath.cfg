CONSTANTS
    H = H
    M = M
    L = L
    idle = idle
    mx = mx
    my = my
    s1 = s1
    q1 = q1
    Thread = {H, M, L, idle}
    Idle = idle
    NPrio = 3
    Wheel = 2
    WaitList <- MCWaitList
    NoThread = NoThread
    Off = Off
    Wild = Wild
    Forever = Forever
    Mutex = {mx, my}
    Sem = {s1}
    Queue = {q1}
    Capacity <- MCCapacity
    Armed = {}
    Recursive = {my}
    DepthMax = 2
    ChainMax = 8
    NoObj = NoObj
    Rank <- MCRank
    Program <- DeathOnly
SPECIFICATION Spec
CHECK_DEADLOCK FALSE
INVARIANTS Exclusion
