SPECIFICATION Spec
CONSTANTS
    Workloads <- Unary
    Handler = {h1, h2}
    Nobody = Nobody
    BatchSize = 2
    FlushThreshold = 2
    MaxTime = 1
INVARIANT FailedRedelivered
