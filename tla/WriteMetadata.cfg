SPECIFICATION ToolSpec
CONSTANTS
    old = old
    new = new
    Image <- MCImage
    Junk = Junk
    NoImage = NoImage
    NoRecord = NoRecord
    MaxCounter = 4
INVARIANTS
    WrittenIsRead
    OtherSlotKept
CHECK_DEADLOCK FALSE
