SPECIFICATION Spec
CONSTANTS
    high = high
    low = low
    idle = idle
    Nil = Nil
    Node = {n1, n2}
    Isr = Isr
    Calls <- MCCalls
    Thread <- MCThread
    Idle <- MCIdle
    Base <- MCBase
    Object <- MCObject
    TickMod = 8
    TimeSlice = 1
    Timeout = {1, 2}
INVARIANTS
    TimersOnTime
    NoSlotLost
    NoLostWakeUp
    DeadlineKept
PROPERTIES
    NeverEarly
    IsMessageQueue
