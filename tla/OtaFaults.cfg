SPECIFICATION RequestFairSpec
CONSTANTS
    good = good
    hangs = hangs
    Image <- MCImage
    Bootable <- MCHealthy
    Healthy <- MCHealthy
    Junk = Junk
    Erased = Erased
    NoImage = NoImage
    NoMeta = NoMeta
    SlotCells = 1
    PageCells = 1
    MAX_BOOT_FAILURES = 2
    SeqMod = 3
    MaxBlock = 1
    FramesPerPass = 1
    FlashFaults = TRUE
    BOOT_WAIT_MS = 2000
    OTA_WAIT_MS = 30000
PROPERTIES
    OnlyTargetChanges
    TrialCounterKept
    ImageKept
    LongWindowAsked
    BackToApplication
