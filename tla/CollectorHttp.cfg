SPECIFICATION Spec
CONSTANTS
    a = a
    z = z
    x = x
    y = y
    Agent = {a, b}
    Clients = {a}
    Home = {a}
    Address = {x, y, z}
    Nowhere = nowhere
    Hidden = {z}
    Inside <- Local
    Configured <- NotSet
    Window = 3
    BeatDeadline = 1
    Backoff = 3
    Pool = {p}
    Worker = {v, w}
    Asked = {"ping_burst", "speedtest"}
    Scheduled = {"route_quality", "speedtest", "hdd_check"}
    VersionLimit = 1
    ToolLimit = 2
    TraceLimit = 1
    Bursts = {7}
    TraceTime = 1
    Captures = {1}
    Forever = forever
    QuickDeadline = 1
    HttpDeadline = 7
    WorkerDeadline = 5
    Reader = {p}
    Mirrored = {"run", "setup"}
    Staged = {"old"}
    PlatformOf <- Kind
    NoFile = nofile
    Scenarios <- MCScenarios
SYMMETRY Workers
INVARIANTS
    DeadExplained
    ResultInTime
    RightAgent
    HeavyApart
    ManifestHonest
    ServedWhole
