SPECIFICATION EffectSpec
CONSTANTS
    s1 = s1
    r1 = r1
    c1 = c1
    w1 = w1
    w2 = w2
    e1 = e1
    e2 = e2
    p1 = p1
    NoRun = NoRun
    NoEffect = NoEffect
    Sessions = {s1}
    Runs = {r1, c1}
    Delegates = {c1}
    Workers = {w1, w2}
    SessionOf <- MCSessionOf
    PrincipalOf <- MCPrincipalOf
    RunOf <- MCRunOf
    Effects = {e1, e2}
    Retryable = {e2}
    LeaseTtl = 1
    RetryDelay = 1
    ToolTimeout = 1
    ApprovalTtl = 1
    MaximumPerPrincipal = 2
    MaximumPerSession = 2
    MaximumPerAgentRole = 1
    MaximumDelegatedRuns = 1
    BatchLimit = 1
    MaxToken = 7
INVARIANTS
    AtMostOnce 
PROPERTIES
    ImplementsEffectLifecycle
CHECK_DEADLOCK FALSE
