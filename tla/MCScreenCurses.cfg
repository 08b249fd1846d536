SPECIFICATION ScreenSpec
CHECK_DEADLOCK FALSE
CONSTANTS
    LINES = 3
    COLS = 2
    NONL = TRUE
    Letters = {"a"}
    Attributes = {0, 1}
    Programs <- MCPrograms
    MaxCalls = 7
INVARIANTS RowsOwnedOnce CurscrIsShown
PROPERTIES IsADisplay
