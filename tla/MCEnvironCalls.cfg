SPECIFICATION Spec
CHECK_DEADLOCK FALSE
CONSTANTS
    Names = {a, b, c}
    Values = {1, 2}
    Arrays = {p, q, r}
    Initial = start
    Null = null
    ADD_NUM = 2
    Functions = {"setenv", "unsetenv", "putenv"}
    MaxExtras = 3
    MayFail = TRUE
INVARIANTS ArraysKept StaysInside
PROPERTIES IsAnEnvironment
SYMMETRY Addresses
