SPECIFICATION Spec
CONSTANTS
    WIDTH = 6
    FLASH_BASE = 16
    PageSize = 4
    PAGES_PER_BANK = 4
    WordSize = 2
    BootPages = 3
    Pages = 8
INVARIANTS
    BootloaderUntouched
    OnlyAsked
    StartsClean
