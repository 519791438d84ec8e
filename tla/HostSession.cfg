SPECIFICATION FairSpec
CONSTANTS
    Blocks = 3
    Retries = 3
    EndRetries = 1
    MaxLost = 3
    MaxDamaged = 1
    MaxEarly = 2
    MaxAborts = 1
INVARIANTS
    InOrder
    DoneMeansInstalled
    LossesRecovered
PROPERTIES
    SessionEnds
