SPECIFICATION Spec
CONSTANTS
    s1 = s1
    s2 = s2
    NoJob = NoJob
    Collector = {c1, c2}
    Worker = {}
    Schedule <- OneSchedule
    AgentOf <- SameAgent
    WindowStart <- FromStart
    WindowEnd <- MCWindowEnd
    Interval <- MCInterval
    Tolerance = 1
    DueLimit = 1
    Skew = 1
    MaxTime = 3
    MaxStarts = 2
    MaxFailures = 1
INVARIANTS
    ClaimGuard
    NoBurst
PROPERTY StableCadence
SYMMETRY SameCollectors
CHECK_DEADLOCK FALSE
