SPECIFICATION TimerSpec
CONSTANTS
    Byte = 5
    Word = 128
    Micro = 32
    PIT_DIVIDEND = 38
    PIT_FREQUENCY_HZ = 5
    SCHEDULER_TIMER_DELAY = 12
    MaxTicks = 50
    None = None
INVARIANTS
    ReadIsOneMoment
    NeverArmedWithZero
    SliceWithinRequest
