SPECIFICATION Spec
CONSTANTS
    Keys <- FewKeys
    Nil = Nil
CHECK_DEADLOCK FALSE
INVARIANT Neighbours
INVARIANT RedBlack
INVARIANT FixupSafe
PROPERTY SetSpec
PROPERTY CallEnds
