SPECIFICATION FairSpec
CONSTANTS
    Workloads <- Both
    Handler = {h1, h2}
    Nobody = Nobody
    BatchSize = 2
    FlushThreshold = 2
    MaxTime = 1
INVARIANTS
    AckedTraceable
    StoredOnce
PROPERTY IngestSettles
