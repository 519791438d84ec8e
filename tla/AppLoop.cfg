SPECIFICATION FairSpec
CONSTANTS
    CYCLES_BEFORE_CONFIRMATION = 2
    OTA_CONFIRM_POLLS = 3
    DrainBudget = 3
    LineRates = {1, 3}
    Faults <- MCFaults
    Breakable <- MCBreakable
    MAX_BOOT_FAILURES = 1
    Watchdog = 3
    PassTicks = 1
CHECK_DEADLOCK FALSE
INVARIANTS
    SoundNeverReset
    OnlyHeldCounts
    HeldIsCounted
PROPERTIES
    RequestsCostNothing
    SilentGivenUp
    PassEnds
