SPECIFICATION Spec
CONSTANTS
    Nil = Nil
    HeapKey = "blockheap_gc"
    GlobalKey = "global_gc"
    PkgKey = "pkg_gc"
    Required = {"log.level"}
    Keys = {"blockheap_gc", "global_gc", "pkg_gc", "log.level"}
    Values <- Texts
    Sections = {"general", "language", "jail"}
    MaxLines = 4
    DefaultPeriod = 3
    MaxBusy = 2
    MaxNow = 10
CHECK_DEADLOCK FALSE
INVARIANT ConfigMeans
INVARIANT GcInTime
INVARIANT PkgsInTime
INVARIANT ClockFresh
