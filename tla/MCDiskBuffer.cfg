SPECIFICATION Spec
CONSTANTS
    small = small
    large = large
    Batch <- MCBatch
    BatchSize <- MCBatchSize
    Limits <- MCLimits
    Wrap = 16
    MaxPop = 2
    MaxRows = 5
    MaxStarts = 3
INVARIANT CountersExact
PROPERTIES
    GrowthWithinLimit
    QueueSpec
