SPECIFICATION FairSpec
CONSTANTS
    main = main
    vfs = vfs
    a = a
    b = b
    bad = bad
    NoName = NoName
    NoHandle = NoHandle
    Threads = {main}
    Openers = {main}
    Collectors = {main}
    Closing = FALSE
    Packages = {a, bad}
    Unreadable = {bad}
    Invalid = {}
    Corrupt = {}
    Files <- OneFile
    HostLocking = FALSE
    Handles = {h1, h2, h3}
    pkg_lifetime = 1
    MaxNow = 3
    MaxOpens = 3
PROPERTY OpenReturns
CHECK_DEADLOCK FALSE
