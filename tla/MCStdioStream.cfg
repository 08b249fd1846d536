SPECIFICATION StdioSpec
CONSTANTS
    BufSizes = {1, 2}
    Programs <- MCPrograms
    Bufferings = {"full", "line", "none"}
    PutBytes = {"w", "nl"}
    NewLine = "nl"
    UngetBytes = {"u"}
    Junk = "junk"
INVARIANTS EofAtEnd LossIsFlagged
PROPERTIES IsAByteStream
