SPECIFICATION Spec
CONSTANTS
    Nodes = {n1, n2, n3}
    Lists = {pkg_list, vfs_watch_list}
    Values = {a, b}
    Null = Null
SYMMETRY Symmetry
INVARIANT Represents
INVARIANT CursorListed
INVARIANT WalkComplete
