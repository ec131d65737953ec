SPECIFICATION FairSessionSpec
CONSTANTS
    s1 = s1
    r1 = r1
    r2 = r2
    c1 = c1
    w1 = w1
    k1 = k1
    k2 = k2
    x = x
    NoRun = NoRun
    DelegationKey = DelegationKey
    Sessions = {s1}
    Runs = {r1, r2}
    Delegates = {}
    Workers = {w1}
    Keys = {k1, k2}
    Contents = {x}
    MaximumPendingInputs = 2
    SessionOf <- MCSessionOf
    PrincipalOf <- MCPrincipalOf
    LeaseTtl = 1
    RetryDelay = 1
    ToolTimeout = 1
    MaximumPerPrincipal = 1
    MaximumPerSession = 1
    MaximumPerAgentRole = 1
    MaximumDelegatedRuns = 1
    BatchLimit = 1
    MaxToken = 3
PROPERTY
    EveryInputServed
CHECK_DEADLOCK FALSE
