SPECIFICATION Spec
CONSTANTS
    s1 = s1
    s2 = s2
    r1 = r1
    r2 = r2
    r3 = r3
    c1 = c1
    w1 = w1
    w2 = w2
    NoRun = NoRun
    Sessions = {s1, s2}
    Runs = {r1, r2, r3, c1}
    Delegates = {c1}
    Workers = {w1, w2}
    SessionOf <- MCSessionOf
    PrincipalOf <- MCPrincipalOf
    LeaseTtl = 2
    RetryDelay = 1
    ToolTimeout = 2
    MaximumPerPrincipal = 2
    MaximumPerSession = 2
    MaximumPerAgentRole = 1
    MaximumDelegatedRuns = 1
    BatchLimit = 1
    MaxToken = 4
INVARIANTS
    OneFencedWorker RunTaskAgree CeilingsHold
CHECK_DEADLOCK FALSE
