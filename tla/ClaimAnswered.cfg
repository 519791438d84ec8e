SPECIFICATION Spec
CONSTANTS
    Blocks = 3
    Retries = 3
    EndRetries = 1
    MaxLost = 1
    MaxDamaged = 0
    MaxEarly = 1
    MaxAborts = 0
INVARIANTS
    SuccessMeansInstalled
