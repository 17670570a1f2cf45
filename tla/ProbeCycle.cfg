SPECIFICATION FairSpec
CONSTANTS
    Caller <- AllCallers
    Key <- AllKeys
    Pending = {p1, p2}
    Nothing = Nothing
    Worker = {w1, w2}
    Loop = Loop
    Target = {"x", "y"}
    Silent = {"x"}
    FileConfigs <- AnyFile
    Requests <- JustHttp
    MaxProbes = 3
    MaxReconfigs = 1
INVARIANTS
    CycleWhole
    FrameAlive
    InflightServed
PROPERTY CycleEnds
