SPECIFICATION Spec
CONSTANTS
    Batch <- MCBatch
    NumEndpoints = 1
    MaxStrikes = 1
    MaxBatches = 4
    MaxCrashes = 1
    MaxQueued = 1
    DrainLimit = 1
    MaxBuffer = 2
    MaxSends = 2
    MaxDrain = 2
    Good <- None
    Dead <- None
    Poison <- LastBatch
    Corrupt <- SecondBatch
INVARIANTS
    TypeOK
    Accounted
    InOrder
    DropsOldest
    NoUnprovokedDuplicate
PROPERTY ContractSpec
