SPECIFICATION MCSpec
CONSTANTS
    Kinds = {"telegram", "discord"}
    Contents = {"text", "approve", "file", "malformed"}
    MaxPosts = 3
    PageSize = 2
    MaximumBacklog = 2
    MaximumPending = 1
    FailureCap = 1
    MaxCrashes = 1
    MaxEdits = 1
    Period = 2
    ClaimTtl = 1
    Grace = 0
    SchMaximumPending = 1
    MaxNow = 5
    MaxClockBack = 1
    SchMaxCrashes = 1
    MaxTransitions = 2
INVARIANTS
    ChannelSafety ScheduleSafety
PROPERTIES
    EventuallyReceipted DueIsDealtWith
CHECK_DEADLOCK FALSE
