SPECIFICATION FairSpec
CONSTANTS
    main = main
    vfs = vfs
    a = a
    b = b
    bad = bad
    NoName = NoName
    NoHandle = NoHandle
    Threads = {main}
    Openers = {main}
    Collectors = {main}
    Closing = TRUE
    Packages = {a, bad}
    Unreadable = {}
    Invalid = {}
    Corrupt = {bad}
    Files <- SmallFiles
    HostLocking = FALSE
    Handles = {h1, h2, h3}
    pkg_lifetime = 1
    MaxNow = 4
    MaxOpens = 3
INVARIANT OneHandlePerName
INVARIANT HeldHandlesLive
INVARIANT HeldComplete
INVARIANT NoLeak
PROPERTY Reclaimed
