SPECIFICATION FairSpec
CHECK_DEADLOCK FALSE
CONSTANTS
    Parent = parent
    Children = {c1, c2, c3}
    MaxFd = 6
    Initial = {0, 1, 2}
    Kinds = {"r", "w"}
    MaxStreams = 2
    Capacity = 1
    Output = 2
    UsesSystem = TRUE
    FdopenFails = TRUE
INVARIANTS PipeInPlace NoOrphans
PROPERTIES SystemWaitsForItsOwn CallsReturn
