SPECIFICATION FairSpec
CONSTANTS
    main = main
    vfs = vfs
    a = a
    b = b
    bad = bad
    NoName = NoName
    NoHandle = NoHandle
    Threads = {main, vfs}
    Openers = {main, vfs}
    Collectors = {main}
    Closing = FALSE
    Packages = {a, b}
    Unreadable = {b}
    Invalid = {b}
    Corrupt = {}
    Files <- OneFile
    HostLocking = TRUE
    Handles = {h1, h2, h3}
    pkg_lifetime = 1
    MaxNow = 2
    MaxOpens = 3
INVARIANT DbMutualExclusion
INVARIANT UniquePkgIds
INVARIANT ViewAttribution
PROPERTY CleanOpenReturns
CHECK_DEADLOCK FALSE
