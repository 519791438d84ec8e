SPECIFICATION Spec
CONSTANTS
    Byte <- MCByte
    Command <- MCCommand
    Frames <- MCFrames
    FRAME_MAGIC_0 = 2
    FRAME_MAGIC_1 = 3
    MAX_PAYLOAD_SIZE = 3
    FRAME_CRC_SIZE = 2
    DATA_BLOCK_SIZE = 2
    NoFrame = NoFrame
    MaxFaults = 2
INVARIANTS
    InBounds
    OnlySent
    CleanDelivered
    Resynchronises
