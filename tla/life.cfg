SPECIFICATION FairSpec
CONSTANTS
    first = first
    second = second
    Procs = {first, second}
    NThreads = 2
    Vfs = 1
    Cell = 2
    Signals = {"SIGTERM", "SIGQUIT", "SIGKILL"}
    SerialStart = TRUE
    RelativePid = FALSE
    NoFile = NoFile
    Empty = Empty
CHECK_DEADLOCK FALSE
INVARIANT OneInstance
INVARIANT PidFileTrue
INVARIANT CleanExit
INVARIANT BarrierOpen
INVARIANT StartComplete
PROPERTY Settles
