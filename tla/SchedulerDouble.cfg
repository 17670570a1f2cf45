SPECIFICATION Spec
CONSTANTS
    s1 = s1
    s2 = s2
    NoJob = NoJob
    Collector = {c1}
    Worker = {w1, w2}
    Schedule <- OneSchedule
    AgentOf <- SameAgent
    WindowStart <- MCWindowStart
    WindowEnd <- MCWindowEnd
    Interval <- MCInterval
    Tolerance = 1
    DueLimit = 1
    Skew = 0
    MaxTime = 4
    MaxStarts = 1
    MaxFailures = 0
INVARIANT SlotDispatchedOnce
CHECK_DEADLOCK FALSE
