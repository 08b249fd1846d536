SPECIFICATION MonitorSpec
CHECK_DEADLOCK FALSE
CONSTANTS
    MaxAddress = 2
    Typed = {0, 1, 5}
    Slots = {1, 2}
    MaxSteps = 2
    MaxDepth = 3
    Waits = TRUE
INVARIANTS IgnoredOnce FollowingInstruction
PROPERTIES StopsInTime
