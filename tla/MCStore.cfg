INIT MCInit
NEXT MCNext
CONSTANTS
    Daemons = {d1}
    Schemas = {1, 2}
    Parts = {"database", "extensions"}
    MaxDirs = 1
    MaxCommits = 1
    MaxStarts = 2
    MaxArchives = 1
    MaxHomeFaults = 1
    Digests = {b1, b2}
    Producers = {p1, p2}
    MaxAgings = 2
    MaxBlobCrashes = 1
    Requests = {q1, q2}
    Deliveries = {v1, v2}
    Nonces = {n1, n2}
    Bodies = {y1, y2}
    WhMaximumPending = 1
    WhMaxCrashes = 1
    w1 = w1
    w2 = w2
    Memories = {m1}
    MemWorkspaces = {w1, w2}
    MaxMemRevision = 5
    MaxCtxTurns = 2
    MaxCursor = 6
    MaxAttempts = 2
    MaxRestarts = 1
    MaxHistoryTurns = 2
    MaximumSourceEvents = 3
    MaxSideWork = 3
    CtxTokenBudget = 4
    CtxEffects = {e1}
    CtxConfigs <- MCConfigs
    MaximumModelCalls = 3
    MaximumToolCalls = 1
    MaximumRetries = 1
    ResponseKinds = {"tool", "delegate", "effect", "final"}
    MaxLoopAttempts = 3
    MaxDisturbances = 2
    MaxWork = 3
    MaxProgress = 1
INVARIANTS
    LoopSafety ReplayVerdict HomeSafety WebhookSafety MemorySafety ContextSafety
PROPERTIES
    RetainsHeld
CHECK_DEADLOCK FALSE
