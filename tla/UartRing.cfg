SPECIFICATION FairSpec
CONSTANTS
    x = x
    y = y
    Byte <- MCByte
    Size = 4
PROPERTIES
    RefinesFifo
    NeverDeaf
