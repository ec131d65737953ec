SPECIFICATION FairSpec
CONSTANTS
    Messages = {m1, m2}
    Drivers = {d1, d2}
    NoDriver = NoDriver
    NoMessage = NoMessage
    Routes = {"telegram", "discord"}
    MaximumAttempts = 2
    ClaimTimeout = 1
    BaseDelay = 1
    MaximumDelay = 1
    Seeds = {0}
PROPERTIES
    OwnAttempts EveryMessageEnds
