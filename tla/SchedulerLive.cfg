SPECIFICATION FairSpec
CONSTANTS
    s1 = s1
    s2 = s2
    NoJob = NoJob
    Collector = {c1}
    Worker = {w1, w2}
    Schedule <- TwoSchedules
    AgentOf <- OwnAgent
    WindowStart <- MCWindowStart
    WindowEnd <- MCWindowEnd
    Interval <- MCInterval
    Tolerance = 1
    DueLimit = 1
    Skew = 0
    MaxTime = 1
    MaxStarts = 1
    MaxFailures = 1
INVARIANT BusyExact
PROPERTIES
    QueueServed
    StopReturns
    RunsRecorded
CHECK_DEADLOCK FALSE
