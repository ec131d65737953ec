INIT MCInit
NEXT MCNext
SYMMETRY WbSymmetry
CONSTANTS
    WbSessions = {"s1", "s2", "s3"}
    FirstSession = "s1"
    Titles = {"t1", "blank"}
    Selections = {"p1", "p2"}
    ForkKeys = {k1, k2}
    WbClients = {c1, c2}
    TurnSizes = {1, 4}
    HistoryTurns = 1
    HistoryBytes = 3
    InlineBytes = 2
    ConfiguredSelections = {"p1"}
    TranscriptTurns = 1
    TranscriptBytes = 3
    MaxWbCursor = 6
    MaxWbTurns = 2
    MaxWbEpochs = 2
    MaxWbCompactions = 1
    DashCommands <- MCCommands
    MaxRequests = 2
    MaxSends = 3
    MaxOthers = 2
    Workspaces = {"w"}
    Commands = {"g"}
    Providers = {"p", "q"}
    Credential <- MCCredential
    Latency <- MCLatency
    SecretIds = {"s"}
    SecretValues = {"v1", "v2"}
    Packages = {"k1","k2","l1","l2"}
    Manifest <- MCManifest
    NoSecret = "nosecret"
    DefaultTimeout = 1
    MaximumWallTime = 3
    MaximumFallbacks = 1
    MaximumSkills = 2
    MaximumEnabledSkills = 1
    MaximumInstructionBytes = 2
    MaximumResourceBytes = 1
    MaxCommands = 3
    InitialHomes <- MCHomes
    MaxKills = 1
INVARIANTS
    ConfigSafety WorkbenchSafety 
PROPERTIES
    WorkbenchSteps
CHECK_DEADLOCK FALSE
