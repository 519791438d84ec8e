SPECIFICATION Spec
CONSTANTS
    good = good
    hangs = hangs
    Image <- MCImage
    Bootable <- MCBootable
    Healthy <- MCHealthy
    Junk = Junk
    Erased = Erased
    NoImage = NoImage
    NoMeta = NoMeta
    SlotCells = 2
    PageCells = 2
    MAX_BOOT_FAILURES = 2
    SeqMod = 4
    MaxBlock = 2
    FramesPerPass = 2
    FlashFaults = FALSE
INVARIANTS
    StartsBootable
