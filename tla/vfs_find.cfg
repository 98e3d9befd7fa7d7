SPECIFICATION Spec
CONSTANTS
    r = r
    s = s
    e = e
    f = f
    p = p
    u = u
    w = w
    h = h
    Roots <- OneRoot
    Dirs = {r, s, e, f}
    Files = {p, u, w, h}
    Parent <- SmallTree
    Hidden = {h}
    Dotted = {p, u, h}
    Inotify = TRUE
    Prescan = TRUE
    MaxRecurse = 4
    QueueLimit = 2
    Refused = {}
    HostLocking = TRUE
    Nameless = Nameless
    Overflow = Overflow
    NoFile = NoFile
    Volatile = {p, h, f}
    MaxChanges = 2
CHECK_DEADLOCK FALSE
INVARIANT DepthBounded
INVARIANT HiddenNeverOpened
INVARIANT ScanFindsAll
PROPERTY CleanDiscovered
