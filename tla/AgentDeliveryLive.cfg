SPECIFICATION FairSpec
CONSTANTS
    Batch <- MCBatch
    NumEndpoints = 3
    MaxStrikes = 3
    MaxBatches = 3
    MaxCrashes = 1
    MaxQueued = 2
    DrainLimit = 2
    MaxBuffer = 2
    MaxSends = 8
    MaxDrain = 2
    Good <- LastEndpoint
    Dead <- FirstEndpoint
    Poison <- SecondBatch
    Corrupt <- None
PROPERTY BufferDrains
