SPECIFICATION Spec
CONSTANTS
    r = r
    s = s
    e = e
    f = f
    p = p
    u = u
    w = w
    h = h
    Roots <- OneRoot
    Dirs = {r}
    Files = {p, h}
    Parent <- SmallTree
    Hidden = {h}
    Dotted = {p, h}
    Inotify = TRUE
    Prescan = TRUE
    MaxRecurse = 3
    QueueLimit = 2
    Refused = {}
    HostLocking = TRUE
    Nameless = Nameless
    Overflow = Overflow
    NoFile = NoFile
    Volatile = {r, p, h}
    MaxChanges = 2
CHECK_DEADLOCK FALSE
PROPERTY Discovered
