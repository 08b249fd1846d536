SPECIFICATION ExitSpec
CHECK_DEADLOCK FALSE
CONSTANTS
    Heap = {f1, f2, f3}
    Stdout = stdout
    Descriptors = {0, 1, 2}
    Null = null
    Failures = FALSE
    Handlers = {h1}
    CloseAll = close_all
    MAXATEXIT = 2
    MainExits = TRUE
    MaxHeld = 3
INVARIANTS FlushedAtExit
SYMMETRY Addresses
