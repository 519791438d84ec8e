SPECIFICATION Spec
CONSTANTS
    ClockMod = 12
    Limits = {0, 2}
    TIMEOUT_START_MS = 1
    TIMEOUT_DATA_MS = 4
    Budget = 3
    PassTicks = 1
    ByteTicks = 2
CHECK_DEADLOCK FALSE
INVARIANTS
    AbandonedEnds
    WindowBounded
    OneImagePerPoll
PROPERTIES
    AbortNotEarly
