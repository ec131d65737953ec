INIT MCInit
NEXT MCNext
SYMMETRY CallSymmetry
CONSTANTS
    Indexes = {0, 1}
    Visible = {"a"}
    Blank = {"_"}
    MaximumOutputTokens = 1
    MaxFinalText = 2
    MaxProbeText = 2
    MaxStreamEvents = 6
    TextPieces = {"a", "b"}
    MaxStreamed = 4
    MaxProgressBytes = 4
    MaxProgressEvents = 3
    MaxDeltaBytes = 1
    FlushBytes = 2
    p1 = p1
    p2 = p2
    p3 = p3
    r1 = r1
    r2 = r2
    Chain <- MCChain
    Adapter <- MCAdapter
    Serves <- MCServes
    RtRuns = {r1, r2}
    MaximumConcurrentRequests = 1
    RequestsPerMinute = 1
    MaxMinute = 1
    MaxRouteRetries = 2
    MaxRouteRestarts = 1
    MaxClientLines = 2
    MaxClientWrites = 2
    CodexModels = {"m1", "m2"}
    DefaultModel = "m1"
    Cursors = {"c1"}
    MaxPending = 2
    MaxPages = 3
    MaxCodexMessages = 8
    MaxQueued = 1
    McpLines <- MCLines
    McpAllowTools <- MCAllow
    McpReviewed <- MCReviewed
    McpMaximumMessages = 4
    McpMaximumListPages = 2
    McpMaximumTools = 2
    McpCallId = 4
    MaxMcpOutput = 4
    MaxMcpAhead = 1
    MaxMcpSessions = 2
    x1 = x1
    ExtIds = {x1}
    Manifests <- MCManifests
    ExtRequests <- MCRequests
    ExtInputs <- MCInputs
    ExtCalls = {i1, i2}
    MaximumExtensionInvocations = 1
    MaxExtRevision = 3
    MaxInvocations = 2
    MaxExtFaults = 1
INVARIANTS
    ExtensionSafety  ProgressSafety RoutingSafety ClientSafety SetupSafety McpSafety
PROPERTIES
    ExtensionSteps
CHECK_DEADLOCK FALSE
