SPECIFICATION Spec
CONSTANTS
    first = first
    second = second
    Procs = {first}
    NThreads = 2
    Vfs = 1
    Cell = 2
    Signals = {"SIGTERM"}
    SerialStart = TRUE
    RelativePid = TRUE
    NoFile = NoFile
    Empty = Empty
CHECK_DEADLOCK FALSE
INVARIANT CleanExit
