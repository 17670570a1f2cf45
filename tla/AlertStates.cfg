SPECIFICATION FairSpec
CONSTANTS
    Thread = {t1, t2}
    Agent <- OneAgent
    Rule <- Edits
    Batches <- Flapping
    MaxHistory = 2
    MaxTime = 1
    MaxEdits = 1
    MaxStops = 1
    a1 = a1
    r1 = r1
    r2 = r2
    Target = {"x"}
    Check = {"icmp", "tcp"}
    InitialRules <- OnlyFirst
INVARIANTS
    TypeOK
    NeverStale
    NoOrphan
    AckOnlyFiring
    HistoryOrdered
    HistoryAgrees
    RepeatSpacing
    AnnouncementsAgree
PROPERTY AlertsEnd
