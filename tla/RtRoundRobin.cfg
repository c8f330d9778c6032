SPECIFICATION Spec
CONSTANTS
    Thread = {t1, t2, t3, idle}
    Idle = idle
    Base <- EqualBase
    Object = {}
    TickMod = 5
    TimeSlice = 1
    Timeout = {1}
PROPERTY
    TurnComes
