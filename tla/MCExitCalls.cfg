SPECIFICATION ExitSpec
CHECK_DEADLOCK FALSE
CONSTANTS
    Heap = {f1, f2, f3}
    Stdout = stdout
    Descriptors = {0, 1, 2}
    Null = null
    Failures = TRUE
    Handlers = {h1, h2}
    CloseAll = close_all
    MAXATEXIT = 3
    MainExits = TRUE
    MaxHeld = 3
INVARIANTS OneOwner ListSound EndsInOrder
SYMMETRY Addresses
