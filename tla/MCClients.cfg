SPECIFICATION MCSpec
CONSTANTS
    Watchers = {"w1"}
    Workspaces = {"wsA", "wsB"}
    FirstWorkspace = "wsA"
    PageLimit = 2
    Subscribers = 1
    Commands = 1
    ReaderCapacity = 2
    MaxTlEvents = 5
    MaxBreaks = 3
    ChatInputs = {1, 2, 3}
    SteeringInputs = {3}
    ApprovingInputs = {1}
    ChatPage = 3
    TrackedTurns = 2
    MaxAttempts = 2
    MaxResumes = 1
    MaxApprovals = 2
    Updates = {u1}
    Switches = {s1}
    StartLimitBurst = 3
    MaxFaults = 2
INVARIANTS
    TimelineSafety ChatSafety
PROPERTIES
    WatchersCatchUp HostSteps 
CHECK_DEADLOCK FALSE
