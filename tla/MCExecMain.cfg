SPECIFICATION ExecSpec
CHECK_DEADLOCK FALSE
CONSTANTS
    Word = 64
    LoadAddrs = {5, 9, 54}
    StackPointers = {8, 60}
    Requests <- MCRequests
    MapFiles <- MCMapFiles
    Top = 9
    Bytes <- MCBytes
    Rooted <- MCRooted
    Images <- MCImages
    Natives = {"vi"}
    Envp <- MCEnvp
    Options <- MCOptions
    CommandLines <- MCCommandLines
    Calls <- MCCalls
    StackTop = 61
    MaxArgs = 5
    MaxExecs = 2
INVARIANTS BreakAboveBss EndIsNextSymbol ArgsReadable RunsWhatWasAsked
PROPERTIES AnswerIsNearest
