SPECIFICATION Spec
CONSTANTS
    Thread = {t1}
    Agent <- OneAgent
    Rule <- FewRules
    Batches <- Single
    MaxHistory = 2
    MaxTime = 0
    MaxEdits = 0
    MaxStops = 0
    a1 = a1
    r1 = r1
    r2 = r2
    Target = {"x"}
    Check = {"icmp", "tcp"}
    InitialRules <- WithRules
PROPERTY FailedProbeKeepsAlert
