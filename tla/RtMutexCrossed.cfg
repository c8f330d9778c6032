SPECIFICATION Spec
CONSTANTS
    high = high
    mid = mid
    low = low
    idle = idle
    m1 = m1
    m2 = m2
    NoThread = NoThread
    Thread <- MCThread
    Idle <- MCIdle
    Base <- MCBase
    Mutex <- MCMutex
    Object <- MCMutex
    Uses <- MCUses
    TickMod = 5
    TimeSlice = 1
    Timeout = {1}
    HoldMax = 2
INVARIANT
    PriorityComesBack
