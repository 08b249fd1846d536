SPECIFICATION StdioSpec
CONSTANTS
    BufSizes = {1, 2}
    Programs <- MCReadsBoth
    Bufferings = {"full", "line", "none"}
    PutBytes = {"w", "nl"}
    NewLine = "nl"
    UngetBytes = {"u"}
    Junk = "junk"
INVARIANTS EnoughBuffered
